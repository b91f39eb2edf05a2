---------------------------- MODULE FriendsProofs -----------------------------
(***************************************************************************)
(* Friendship is mutual, for any number of threads, requests and users, in *)
(* a server where no statement fails and that is not killed; and the       *)
(* requests that wait between two users are no more than the threads, and  *)
(* one more for every three looks that fail.                               *)
(***************************************************************************)
EXTENDS QueueProofs, FiniteSetTheorems

Undisturbed == faults = 0 /\ crashes = 0 /\ ~SomeFriendDeleted

(* A handler at its second row has written the first one.                  *)
FirstRowThere == \A w \in Worker : pc[w] = "addFriend2" => AreFriends(Asker(w), Asked(w))

(* FriendsMutual is not inductive by itself: the second row of a handler   *)
(* needs the first one as its counterpart.                                 *)
MutualInv == (Undisturbed => FirstRowThere) /\ FriendsMutual

InitMutual ==
  \A r \in InitFriends :
    \E q \in InitFriends : q.userId = r.friendId /\ q.friendId = r.userId

LEMMA InitMutualInv == InitMutual /\ Init => MutualInv
<1> SUFFICES ASSUME InitMutual, Init  PROVE MutualInv
  OBVIOUS
<1>1. FirstRowThere  BY DEF Init, FirstRowThere
<1>2. \A r \in friends : AreFriends(r.friendId, r.userId)
  BY DEF InitMutual, Init, InitTables, AreFriends
<1> QED  BY <1>1, <1>2 DEF MutualInv, FriendsMutual

-----------------------------------------------------------------------------
(* A deletion that was answered stays in sent.                             *)
LEMMA DeletionStays ==
  ASSUME TypeOK, NEW w \in Worker, Run(w), [Next]_vars, SomeFriendDeleted
  PROVE  SomeFriendDeleted'
<1>1. CASE \E d \in sent : d.type = "DELETE_FRIEND_RESP" /\ d.ok
  <2>1. sent \subseteq sent'  BY SentGrows
  <2> QED  BY <1>1, <2>1 DEF SomeFriendDeleted
<1>2. ASSUME NEW v \in Worker, pc[v] = "respond", Req(v).type = "DELETE_FRIEND_REQ", result[v]
      PROVE  SomeFriendDeleted'
  <2>1. CASE v # w
    BY <1>2, <2>1, StepLocals DEF LocalsKeep, OthersKeep, SomeFriendDeleted, Req
  <2>2. CASE v = w
    <3>1. Respond(w)  BY <1>2, <2>2, OwnStep
    <3> DEFINE d == Datagram(Req(w).addr, task[w].n, "DELETE_FRIEND_RESP", result[w], {})
    <3>2. d \in sent'  BY <1>2, <2>2, <3>1 DEF Respond, Send, Response
    <3>3. d.type = "DELETE_FRIEND_RESP" /\ d.ok = result[w]  BY DEF Datagram
    <3> HIDE DEF d
    <3> QED  BY <1>2, <2>2, <3>2, <3>3 DEF SomeFriendDeleted
  <2> QED  BY <2>1, <2>2
<1> QED  BY <1>1, <1>2 DEF SomeFriendDeleted

-----------------------------------------------------------------------------
(* What the statements do to the rows.                                     *)
SameRows == \A u, f : AreFriends(u, f)' <=> AreFriends(u, f)

RowAdded(u, f) ==
  \A v, g : AreFriends(v, g)' <=> AreFriends(v, g) \/ (v = u /\ g = f)

LEMMA Added ==
  ASSUME NEW u, NEW f, addFriend(u, f, TRUE)  PROVE RowAdded(u, f)
<1> DEFINE row == [userId |-> u, friendId |-> f, isBlocked |-> FALSE]
<1>1. row.userId = u /\ row.friendId = f  OBVIOUS
<1>2. \/ friends' = friends \cup {row}
      \/ friends' = friends /\ \E r \in friends : r.userId = u /\ r.friendId = f
  BY DEF addFriend
<1> HIDE DEF row
<1> QED  BY <1>1, <1>2 DEF RowAdded, AreFriends

LEMMA Blocked ==
  ASSUME NEW u, NEW f, NEW flag, NEW ok, setBlocked(u, f, flag, ok)  PROVE SameRows
<1> DEFINE row == [userId |-> u, friendId |-> f, isBlocked |-> flag]
<1>1. row.userId = u /\ row.friendId = f  OBVIOUS
<1> HIDE DEF row
<1>2. \/ friends' = friends
      \/ friends' = {IF r.userId = u /\ r.friendId = f THEN row ELSE r : r \in friends}
  BY DEF setBlocked, row
<1> QED  BY <1>1, <1>2 DEF SameRows, AreFriends

(* A statement that ran without a failure.                                 *)
LEMMA NoFailure ==
  ASSUME TypeOK, NEW ok \in BOOLEAN, executePrepared(ok), faults' = 0  PROVE ok = TRUE
BY DatabaseAssumption DEF TypeOK, DatabaseTypeOK, executePrepared

(* The users of a handler's request never change.                          *)
LEMMA AskersKept ==
  ASSUME TypeOK, [Next]_vars, NEW v \in Worker, AddingFriend(v), task'[v] = task[v]
  PROVE  Asker(v)' = Asker(v) /\ Asked(v)' = Asked(v)
<1>1. RequestsGrow  BY StepType DEF TablesGrow
<1>2. Req(v).requestId \in DOMAIN friendRequests  BY AskerTyped DEF AddingFriend
<1> QED  BY <1>1, <1>2 DEF RequestsGrow, Asker, Asked, Req

(* A handler comes to its second row from its first one.                   *)
LEMMA ToSecondRow ==
  ASSUME TypeOK, [Next]_vars, NEW w \in Worker, Run(w), NEW v \in Worker, pc'[v] = "addFriend2"
  PROVE  /\ AddingFriend(v) /\ task'[v] = task[v]
         /\ (pc[v] = "addFriend2" /\ v # w) \/ (v = w /\ AddFriend1(w))
<1>1. task'[v] = task[v] /\ (AddingFriend(v) \/ UpdateStatus(v))
  BY StepCameFrom DEF CameFrom, AddingFriend
<1>2. CASE v # w
  BY <1>1, <1>2, StepLocals DEF LocalsKeep, OthersKeep, AddingFriend
<1>3. CASE v = w
  <2>0. pc \in [Worker -> Call \cup {"idle"}]  BY DEF TypeOK, ServerTypeOK
  <2>1. ~UpdateStatus(w)
    BY <1>3, <2>0 DEF UpdateStatus, Answer, Goto
  <2>2. ~AddFriend2(w)
    BY <1>3, <2>0 DEF AddFriend2, Answer, Goto
  <2> QED  BY <1>1, <1>3, <2>1, <2>2, OwnStep DEF AddingFriend
<1> QED  BY <1>2, <1>3

-----------------------------------------------------------------------------
(* FriendsMutual by the pairs of users that have a row.                    *)
AtSecondRow(w, u, f) == pc[w] = "addFriend2" /\ u = Asker(w) /\ f = Asked(w)

PairsMutual ==
  \A u, f : AreFriends(u, f) => AreFriends(f, u) \/ \E w \in Worker : AtSecondRow(w, u, f)

LEMMA MutualByPairs == FriendsMutual <=> (Undisturbed => PairsMutual)
BY DEF FriendsMutual, Undisturbed, PairsMutual, AtSecondRow, AreFriends

(* The handlers at their second row after a step of w.                     *)
LEMMA SecondRowStep ==
  ASSUME TypeOK, [Next]_vars, NEW w \in Worker, Run(w), NEW v \in Worker, NEW u, NEW f
  PROVE  /\ AtSecondRow(v, u, f)' =>
              \/ AtSecondRow(v, u, f) /\ v # w
              \/ v = w /\ AddFriend1(w) /\ u = Asker(w) /\ f = Asked(w)
         /\ AtSecondRow(v, u, f) => AtSecondRow(v, u, f)' \/ (v = w /\ AddFriend2(w))
<1>1. ASSUME AtSecondRow(v, u, f)'
      PROVE  \/ AtSecondRow(v, u, f) /\ v # w
             \/ v = w /\ AddFriend1(w) /\ u = Asker(w) /\ f = Asked(w)
  <2>1. pc'[v] = "addFriend2" /\ u = Asker(v)' /\ f = Asked(v)'  BY <1>1 DEF AtSecondRow
  <2>2. Asker(v)' = Asker(v) /\ Asked(v)' = Asked(v)  BY <2>1, ToSecondRow, AskersKept
  <2> QED  BY <2>1, <2>2, ToSecondRow DEF AtSecondRow
<1>2. ASSUME AtSecondRow(v, u, f), v # w  PROVE AtSecondRow(v, u, f)'
  <2>1. pc'[v] = pc[v] /\ task'[v] = task[v]
    BY <1>2, StepLocals DEF LocalsKeep, OthersKeep
  <2>2. Asker(v)' = Asker(v) /\ Asked(v)' = Asked(v)
    BY <1>2, <2>1, AskersKept DEF AtSecondRow, AddingFriend
  <2> QED  BY <1>2, <2>1, <2>2 DEF AtSecondRow
<1>3. AtSecondRow(w, u, f) => AddFriend2(w)  BY OwnStep DEF AtSecondRow
<1> QED  BY <1>1, <1>2, <1>3

(* The first row of a handler at its second one, by pairs.                 *)
LEMMA FirstRowByPairs ==
  FirstRowThere <=> \A w \in Worker : \A u, f : AtSecondRow(w, u, f) => AreFriends(u, f)
BY DEF FirstRowThere, AtSecondRow

LEMMA AddFriend1Comes ==
  ASSUME TypeOK, [Next]_vars, NEW w \in Worker, AddFriend1(w)
  PROVE  \A u, f : u = Asker(w) /\ f = Asked(w) => AtSecondRow(w, u, f)'
<1>1. pc'[w] = "addFriend2" /\ task' = task /\ AddingFriend(w)
  BY DEF AddFriend1, Goto, DbCallOnly, InDb, AddingFriend, TypeOK, ServerTypeOK
<1>2. Asker(w)' = Asker(w) /\ Asked(w)' = Asked(w)  BY <1>1, AskersKept
<1> QED  BY <1>1, <1>2 DEF AtSecondRow

LEMMA MutualMoves ==
  ASSUME TypeOK, [Next]_vars, NEW w \in Worker, Run(w), FirstRowThere, PairsMutual,
         \/ SameRows /\ ~AddFriend1(w) /\ ~AddFriend2(w)
         \/ AddFriend1(w) /\ RowAdded(Asker(w), Asked(w))
         \/ AddFriend2(w) /\ RowAdded(Asked(w), Asker(w))
  PROVE  FirstRowThere' /\ PairsMutual'
<1>1. \A u, f : AreFriends(u, f) => AreFriends(u, f)'  BY DEF SameRows, RowAdded
<1>2. \A v \in Worker : \A u, f : AtSecondRow(v, u, f) => AreFriends(u, f)
  BY FirstRowByPairs
<1>3. ~(AddFriend1(w) /\ AddFriend2(w))  BY DEF AddFriend1, AddFriend2, InDb
<1>4. ASSUME NEW v \in Worker, NEW u, NEW f, AtSecondRow(v, u, f)'
      PROVE  AreFriends(u, f)'
  <2>1. CASE AtSecondRow(v, u, f)  BY <1>1, <1>2, <2>1
  <2>2. CASE AddFriend1(w) /\ u = Asker(w) /\ f = Asked(w)
    BY <1>3, <2>2 DEF RowAdded
  <2> QED  BY <1>4, <2>1, <2>2, SecondRowStep
<1>5. ASSUME NEW u, NEW f, AreFriends(u, f)'
      PROVE  AreFriends(f, u)' \/ \E v \in Worker : AtSecondRow(v, u, f)'
  <2>1. CASE AreFriends(u, f)
    <3>1. CASE AreFriends(f, u)  BY <1>1, <3>1
    <3>2. ASSUME NEW v \in Worker, AtSecondRow(v, u, f)
          PROVE  AreFriends(f, u)' \/ AtSecondRow(v, u, f)'
      <4>1. CASE v = w /\ AddFriend2(w)
        <5>1. u = Asker(w) /\ f = Asked(w)  BY <3>2, <4>1 DEF AtSecondRow
        <5> QED  BY <1>3, <4>1, <5>1 DEF RowAdded
      <4> QED  BY <3>2, <4>1, SecondRowStep
    <3> QED  BY <2>1, <3>1, <3>2 DEF PairsMutual
  <2>2. CASE AddFriend1(w) /\ u = Asker(w) /\ f = Asked(w)
    BY <2>2, AddFriend1Comes
  <2>3. CASE AddFriend2(w) /\ u = Asked(w) /\ f = Asker(w)
    <3>1. AtSecondRow(w, f, u)  BY <2>3 DEF AtSecondRow, AddFriend2, InDb
    <3> QED  BY <1>1, <1>2, <3>1
  <2> QED  BY <1>5, <2>1, <2>2, <2>3 DEF SameRows, RowAdded
<1>6. FirstRowThere'
  BY <1>4 DEF FirstRowThere, AtSecondRow
<1>7. PairsMutual'  BY <1>5 DEF PairsMutual
<1> QED  BY <1>6, <1>7

LEMMA RunMutual ==
  ASSUME TypeOK, [Next]_vars, NEW w \in Worker, Run(w), FirstRowThere, PairsMutual,
         faults' = 0, ~SomeFriendDeleted'
  PROVE  FirstRowThere' /\ PairsMutual'
<1>1. CASE UNCHANGED friends /\ ~AddFriend1(w) /\ ~AddFriend2(w)
  <2>1. SameRows  BY <1>1 DEF SameRows, AreFriends
  <2> QED  BY <1>1, <2>1, MutualMoves
<1>2. CASE SetBlocked(w)
  <2>1. SameRows  BY <1>2, Blocked DEF SetBlocked
  <2>2. ~AddFriend1(w) /\ ~AddFriend2(w)  BY <1>2 DEF SetBlocked, AddFriend1, AddFriend2, InDb
  <2> QED  BY <2>1, <2>2, MutualMoves
<1>3. CASE AddFriend1(w)
  <2>1. PICK ok \in BOOLEAN : addFriend(Asker(w), Asked(w), ok)  BY <1>3 DEF AddFriend1
  <2>2. ok = TRUE  BY <2>1, NoFailure DEF addFriend
  <2>3. RowAdded(Asker(w), Asked(w))  BY <2>1, <2>2, Added
  <2> QED  BY <1>3, <2>3, MutualMoves
<1>4. CASE AddFriend2(w)
  <2>1. PICK ok \in BOOLEAN : addFriend(Asked(w), Asker(w), ok)  BY <1>4 DEF AddFriend2
  <2>2. ok = TRUE  BY <2>1, NoFailure DEF addFriend
  <2>3. RowAdded(Asked(w), Asker(w))  BY <2>1, <2>2, Added
  <2> QED  BY <1>4, <2>3, MutualMoves
<1>5. CASE DeleteFriend(w)
  <2>1. PICK ok \in BOOLEAN : deleteFriend(Req(w).userId, Req(w).friendId, ok) /\ Answer(w, ok)
    BY <1>5 DEF DeleteFriend
  <2>2. ok = TRUE  BY <2>1, NoFailure DEF deleteFriend
  <2>3. Req(w).type = "DELETE_FRIEND_REQ"
    BY <1>5, AtCall, CallType DEF DeleteFriend, InDb
  <2>4. pc'[w] = "respond" /\ result'[w] = TRUE /\ task' = task
    BY <1>5, <2>1, <2>2 DEF DeleteFriend, Answer, Goto, DbCallOnly, TypeOK, ServerTypeOK
  <2>5. SomeFriendDeleted'  BY <2>3, <2>4 DEF SomeFriendDeleted, Req
  <2> QED  BY <2>5
<1> QED  BY <1>1, <1>2, <1>3, <1>4, <1>5, FriendsKinds

LEMMA StepMutual ==
  ASSUME TypeOK, MutualInv, [Next]_vars  PROVE MutualInv'
<1> SUFFICES ASSUME Undisturbed'  PROVE FirstRowThere' /\ PairsMutual'
  BY MutualByPairs DEF MutualInv, FriendsMutual, Undisturbed, PairsMutual, AtSecondRow, AreFriends
<1>1. faults' = 0 /\ crashes' = 0 /\ ~SomeFriendDeleted'  BY DEF Undisturbed
<1>2. ASSUME NEW w \in Worker, Run(w)  PROVE FirstRowThere' /\ PairsMutual'
  <2>1. faults = 0 /\ crashes = 0 /\ ~SomeFriendDeleted
    BY <1>1, <1>2, FaultsStay, RunCrashes, DeletionStays
  <2>2. FirstRowThere /\ PairsMutual  BY <2>1, MutualByPairs DEF MutualInv, Undisturbed
  <2> QED  BY <1>1, <1>2, <2>2, RunMutual
<1>3. ASSUME UNCHANGED <<tables, faults, pc, task, result, sent, crashes>>
      PROVE  FirstRowThere' /\ PairsMutual'
  <2>1. Undisturbed  BY <1>1, <1>3 DEF Undisturbed, SomeFriendDeleted, Req
  <2>2. FirstRowThere /\ PairsMutual  BY <2>1, MutualByPairs DEF MutualInv
  <2> QED
    BY <1>3, <2>2 DEF tables, FirstRowThere, PairsMutual, AtSecondRow, AreFriends, Asker, Asked,
       Req
<1>4. UNCHANGED vars \/ (\E r \in Requests : Receive(r))
      => UNCHANGED <<tables, faults, pc, task, result, sent, crashes>>
  BY DEF vars, Receive
<1>5. CASE Crash
  <2>1. crashes' # 0  BY <1>5 DEF Crash, TypeOK, ServerTypeOK
  <2> QED  BY <1>1, <2>1
<1> QED  BY <1>2, <1>3, <1>4, <1>5 DEF Next, Quiet

(* Where friendship was mutual at the start, it stays mutual up to the     *)
(* second row of an acceptance that is under way, as long as no statement  *)
(* fails, nothing is killed and nobody deletes a friend, however many      *)
(* handlers overlap (respondFriendRequest).                                *)
THEOREM FriendsStayMutual == InitMutual => (Spec => []FriendsMutual)
<1> SUFFICES ASSUME InitMutual  PROVE Spec => []FriendsMutual
  OBVIOUS
<1>1. Init => TypeOK /\ MutualInv  BY InitTypeOK, InitMutualInv
<1>2. TypeOK /\ MutualInv /\ [Next]_vars => (TypeOK /\ MutualInv)'
  BY StepType, StepMutual
<1>3. MutualInv => FriendsMutual  BY DEF MutualInv
<1> QED  BY <1>1, <1>2, <1>3, PTL DEF Spec

-----------------------------------------------------------------------------
(* Pending requests.  PendingBounded is not inductive: a thread that has   *)
(* looked and is on its way to the INSERT adds one more.  A request counts *)
(* three, and a thread on its way one for each look behind it: a look that *)
(* finds nothing adds one.  Where it is right that nothing waits, the      *)
(* threads alone count no more than three each; where it is wrong, a       *)
(* statement has failed.                                                   *)
Once == {"exists2", "exists3", "insert"}
Twice == {"exists3", "insert"}
Thrice == {"insert"}

Looked(calls, u, f) ==
  {w \in Worker : pc[w] \in calls /\ {Req(w).userId, Req(w).friendId} = {u, f}}

Looks(u, f) ==
  Cardinality(Looked(Once, u, f)) + Cardinality(Looked(Twice, u, f))
    + Cardinality(Looked(Thrice, u, f))

PendingInv ==
  \A u, f \in UserId :
    3 * Cardinality(PendingBetween(u, f)) + Looks(u, f) <= 3 * Cardinality(Worker) + faults

(* What the file holds at the start keeps the bound.                       *)
InitBounded ==
  \A u, f \in UserId :
    Cardinality({i \in DOMAIN InitRequests :
                   /\ InitRequests[i].status = 0
                   /\ {InitRequests[i].userId, InitRequests[i].friendId} = {u, f}})
      <= Cardinality(Worker)

LEMMA SetsFinite ==
  ASSUME NEW requests \in Seq(FriendRequest), NEW P \in SUBSET DOMAIN requests,
         NEW I \in SUBSET Worker
  PROVE  /\ IsFiniteSet(P) /\ Cardinality(P) \in Nat
         /\ IsFiniteSet(I) /\ Cardinality(I) \in Nat
         /\ Cardinality(I) <= Cardinality(Worker) /\ Cardinality(Worker) \in Nat
<1>1. DOMAIN requests = 1..Len(requests) /\ Len(requests) \in Int  OBVIOUS
<1>2. IsFiniteSet(DOMAIN requests)  BY <1>1, FS_Interval
<1>3. IsFiniteSet(P)  BY <1>2, FS_Subset
<1>4. IsFiniteSet(I) /\ Cardinality(I) <= Cardinality(Worker)
  BY ThreadsAssumption, FS_Subset
<1> QED  BY <1>3, <1>4, ThreadsAssumption, FS_CardinalityType

LEMMA CountsTyped ==
  ASSUME TypeOK, NEW u, NEW f
  PROVE  /\ IsFiniteSet(PendingBetween(u, f)) /\ Cardinality(PendingBetween(u, f)) \in Nat
         /\ \A calls : /\ IsFiniteSet(Looked(calls, u, f))
                       /\ Cardinality(Looked(calls, u, f)) \in Nat
                       /\ Cardinality(Looked(calls, u, f)) <= Cardinality(Worker)
         /\ Cardinality(Worker) \in Nat
<1>1. friendRequests \in Seq(FriendRequest)  BY DEF TypeOK, DatabaseTypeOK
<1>2. PendingBetween(u, f) \subseteq DOMAIN friendRequests  BY DEF PendingBetween
<1>3. \A calls : Looked(calls, u, f) \subseteq Worker  BY DEF Looked
<1> QED  BY <1>1, <1>2, <1>3, SetsFinite

LEMMA InitPending == InitBounded /\ Init => PendingInv
<1> SUFFICES ASSUME InitBounded, Init, NEW u \in UserId, NEW f \in UserId
             PROVE  3 * Cardinality(PendingBetween(u, f)) + Looks(u, f)
                      <= 3 * Cardinality(Worker) + faults
  BY DEF PendingInv
<1>1. Looked(Once, u, f) = {} /\ Looked(Twice, u, f) = {} /\ Looked(Thrice, u, f) = {}
  BY DEF Init, Looked, Once, Twice, Thrice
<1>2. Looks(u, f) = 0  BY <1>1, FS_EmptySet DEF Looks
<1>3. Cardinality(PendingBetween(u, f)) <= Cardinality(Worker)
  BY DEF InitBounded, Init, InitTables, PendingBetween
<1>4. faults = 0  BY DEF Init, InitTables
<1> QED  BY <1>2, <1>3, <1>4, InitTypeOK, CountsTyped

(* The statements that write FriendRequests, and the ways to the INSERT.   *)
LEMMA RequestKinds ==
  ASSUME TypeOK, NEW w \in Worker, Run(w)
  PROVE  /\ UNCHANGED friendRequests \/ InsertRequest(w) \/ UpdateStatus(w)
         /\ pc[w] = "insert" => InsertRequest(w)
         /\ pc'[w] = "exists2" => CheckPending(w, "exists1", "exists2")
         /\ pc'[w] = "exists3" => CheckPending(w, "exists2", "exists3")
         /\ pc'[w] = "insert" => CheckPending(w, "exists3", "insert")
<1>0. pc \in [Worker -> Call \cup {"idle"}]  BY DEF TypeOK, ServerTypeOK
<1>1. UNCHANGED friendRequests \/ InsertRequest(w) \/ UpdateStatus(w)
  BY DEF Run, Login, HandleFriendRequest, FriendRequestAction, PrivateMessage, tables,
     DbCallOnly, Dequeue, Drop, Respond, RegisterUser, registerUser, UpdateUser, updateUser,
     DeleteUser, deleteUser, EraseDeleted, Logout, VerifyUser, GoOnline, LoginResp,
     LoadOffline, MarkDelivered, markDelivered, PushOffline, SelfRequest, CheckPending,
     AddFriend1, AddFriend2, addFriend, DeleteFriend, deleteFriend, SetBlocked, setBlocked,
     List, CheckFriend, Deliver, StoreMessage, storeMessage, CreateGroup, JoinGroup, LockTwice,
     selectRows, selectFound
<1>2. pc[w] = "insert" => InsertRequest(w)
  BY DEF Run, Login, HandleFriendRequest, FriendRequestAction, PrivateMessage, InDb, Dequeue,
     Drop, Respond, RegisterUser, UpdateUser, DeleteUser, EraseDeleted, Logout, VerifyUser,
     GoOnline, LoginResp, LoadOffline, MarkDelivered, PushOffline, SelfRequest, CheckPending,
     UpdateStatus, AddFriend1, AddFriend2, DeleteFriend, SetBlocked, List, CheckFriend,
     Deliver, StoreMessage, CreateGroup, JoinGroup, LockTwice
<1>3. ASSUME pc'[w] \in Once, Dequeue(w)  PROVE FALSE
  <2>1. \A type : handlePacket(type) \notin Once  BY DEF handlePacket, Once
  <2> QED  BY <1>0, <1>3, <2>1 DEF Dequeue, Goto
<1>4. ASSUME pc'[w] \in Once, ~Dequeue(w)
      PROVE  \/ pc'[w] = "exists2" /\ CheckPending(w, "exists1", "exists2")
             \/ pc'[w] = "exists3" /\ CheckPending(w, "exists2", "exists3")
             \/ pc'[w] = "insert" /\ CheckPending(w, "exists3", "insert")
  BY <1>0, <1>4, FinishLocals
  DEF Run, Login, HandleFriendRequest, FriendRequestAction, PrivateMessage, Answer, Goto, InDb,
      Drop, Respond, RegisterUser, UpdateUser, DeleteUser, EraseDeleted, Logout, VerifyUser,
      GoOnline, LoginResp, LoadOffline, MarkDelivered, PushOffline, SelfRequest, CheckPending,
      InsertRequest, UpdateStatus, AddFriend1, AddFriend2, DeleteFriend, SetBlocked, List,
      CheckFriend, Deliver, StoreMessage, CreateGroup, JoinGroup, LockTwice, Once
<1> QED  BY <1>1, <1>2, <1>3, <1>4 DEF Once

(* A look that lets its handler go on: nothing waits, or it has failed.    *)
LEMMA LookPasses ==
  ASSUME TypeOK, NEW w \in Worker, NEW call, NEW next, next # "respond",
         CheckPending(w, call, next), pc'[w] = next,
         NEW u, NEW f, {Req(w).userId, Req(w).friendId} = {u, f}
  PROVE  /\ UNCHANGED <<task, friendRequests>> /\ pc[w] = call
         /\ PendingBetween(u, f) = {} \/ faults' = faults + 1
<1>1. PICK found \in BOOLEAN :
        /\ selectFound(isFriendRequestExists(Req(w).userId, Req(w).friendId), found)
        /\ IF found THEN Answer(w, FALSE) ELSE Goto(w, next)
  BY DEF CheckPending
<1>2. ~found  BY <1>1 DEF Answer, Goto, TypeOK, ServerTypeOK
<1>3. ~isFriendRequestExists(Req(w).userId, Req(w).friendId) \/ faults' = faults + 1
  BY <1>1, <1>2 DEF selectFound
<1>4. UNCHANGED <<task, friendRequests>> /\ pc[w] = call
  BY <1>1 DEF CheckPending, InDb, DbCallOnly, selectFound, tables
<1>5. ASSUME NEW a, NEW b, {a, b} = {Req(w).userId, Req(w).friendId}
      PROVE  \/ a = Req(w).userId /\ b = Req(w).friendId
             \/ a = Req(w).friendId /\ b = Req(w).userId
  BY <1>5
<1>6. ~isFriendRequestExists(Req(w).userId, Req(w).friendId) => PendingBetween(u, f) = {}
  BY <1>5 DEF PendingBetween, isFriendRequestExists
<1> QED  BY <1>3, <1>4, <1>6

(* What a step of w does to the threads that have looked: w has passed one *)
(* look more, or is not among them any more.                               *)
LEMMA LookedStep ==
  ASSUME TypeOK, NEW w \in Worker, Run(w), NEW u, NEW f
  PROVE  \/ \A calls \in {Once, Twice, Thrice} :
              Looked(calls, u, f)' \subseteq Looked(calls, u, f) \ {w}
         \/ /\ UNCHANGED friendRequests
            /\ PendingBetween(u, f) = {} \/ faults' = faults + 1
            /\ \E more \in {Once, Twice, Thrice} :
                 /\ Looked(more, u, f)' \subseteq Looked(more, u, f) \cup {w}
                 /\ \A calls \in {Once, Twice, Thrice} \ {more} :
                      Looked(calls, u, f)' \subseteq Looked(calls, u, f)
<1>1. ASSUME NEW calls, NEW v \in Worker, v # w, v \in Looked(calls, u, f)'
      PROVE  v \in Looked(calls, u, f)
  BY <1>1, StepLocals DEF LocalsKeep, OthersKeep, Looked, Req
<1>2. CASE w \notin Looked(Once, u, f)'
  <2>1. \A calls \in {Once, Twice, Thrice} : w \notin Looked(calls, u, f)'
    BY <1>2 DEF Looked, Once, Twice, Thrice
  <2>2. \A calls : Looked(calls, u, f)' \subseteq Worker  BY DEF Looked
  <2> QED  BY <1>1, <2>1, <2>2
<1>3. ASSUME NEW call, NEW next, NEW more \in {Once, Twice, Thrice},
             w \in Looked(Once, u, f)', CheckPending(w, call, next), pc'[w] = next,
             next # "respond",
             \A calls \in {Once, Twice, Thrice} \ {more} : next \in calls => call \in calls
      PROVE  /\ UNCHANGED friendRequests
             /\ PendingBetween(u, f) = {} \/ faults' = faults + 1
             /\ Looked(more, u, f)' \subseteq Looked(more, u, f) \cup {w}
             /\ \A calls \in {Once, Twice, Thrice} \ {more} :
                  Looked(calls, u, f)' \subseteq Looked(calls, u, f)
  <2>1. task' = task  BY <1>3 DEF CheckPending, DbCallOnly
  <2>2. {Req(w).userId, Req(w).friendId} = {u, f}  BY <1>3, <2>1 DEF Looked, Req
  <2>3. /\ UNCHANGED <<task, friendRequests>> /\ pc[w] = call
        /\ PendingBetween(u, f) = {} \/ faults' = faults + 1
    BY <1>3, <2>2, LookPasses
  <2>4. ASSUME NEW calls \in {Once, Twice, Thrice} \ {more}, w \in Looked(calls, u, f)'
        PROVE  w \in Looked(calls, u, f)
    BY <1>3, <2>2, <2>3, <2>4 DEF Looked
  <2>5. \A calls : Looked(calls, u, f)' \subseteq Worker  BY DEF Looked
  <2> QED  BY <1>1, <2>3, <2>4, <2>5
<1>4. CASE w \in Looked(Once, u, f)'
  <2>1. pc'[w] \in Once  BY <1>4 DEF Looked
  <2>2. CASE pc'[w] = "exists2" /\ CheckPending(w, "exists1", "exists2")
    BY <1>3, <1>4, <2>2 DEF Once, Twice, Thrice
  <2>3. CASE pc'[w] = "exists3" /\ CheckPending(w, "exists2", "exists3")
    BY <1>3, <1>4, <2>3 DEF Once, Twice, Thrice
  <2>4. CASE pc'[w] = "insert" /\ CheckPending(w, "exists3", "insert")
    BY <1>3, <1>4, <2>4 DEF Once, Twice, Thrice
  <2> QED  BY <2>1, <2>2, <2>3, <2>4, RequestKinds DEF Once
<1> QED  BY <1>2, <1>3, <1>4

LEMMA AnswerShrinks ==
  ASSUME TypeOK, NEW w \in Worker, UpdateStatus(w), NEW u, NEW f
  PROVE  PendingBetween(u, f)' \subseteq PendingBetween(u, f)
<1>1. CASE UNCHANGED friendRequests  BY <1>1 DEF PendingBetween
<1>2. ASSUME NEW i \in DOMAIN friendRequests, NEW status \in {1, 2},
             friendRequests' = [friendRequests EXCEPT ![i].status = status]
      PROVE  PendingBetween(u, f)' \subseteq PendingBetween(u, f)
  <2>1. friendRequests \in Seq(FriendRequest)  BY DEF TypeOK, DatabaseTypeOK
  <2>2. friendRequests[i] \in FriendRequest  BY <2>1
  <2>3. /\ DOMAIN friendRequests' = DOMAIN friendRequests
        /\ friendRequests'[i].status = status
        /\ \A j \in DOMAIN friendRequests : j # i => friendRequests'[j] = friendRequests[j]
    BY <1>2, <2>1, <2>2 DEF FriendRequest
  <2> QED  BY <2>3 DEF PendingBetween
<1>3. \/ UNCHANGED friendRequests
      \/ \E i \in DOMAIN friendRequests, status \in {1, 2} :
           friendRequests' = [friendRequests EXCEPT ![i].status = status]
  BY DEF UpdateStatus, updateRequestStatus, tables
<1> QED  BY <1>1, <1>2, <1>3

LEMMA InsertAdds ==
  ASSUME TypeOK, NEW w \in Worker, InsertRequest(w), NEW u, NEW f
  PROVE  \/ PendingBetween(u, f)' \subseteq PendingBetween(u, f)
         \/ /\ w \in Looked(Thrice, u, f)
            /\ \E x : PendingBetween(u, f)' \subseteq PendingBetween(u, f) \cup {x}
<1> DEFINE row == [userId |-> Req(w).userId, friendId |-> Req(w).friendId, status |-> 0]
<1>1. friendRequests' = friendRequests \/ friendRequests' = Append(friendRequests, row)
  BY DEF InsertRequest, insertFriendRequest
<1>2. row.userId = Req(w).userId /\ row.friendId = Req(w).friendId  OBVIOUS
<1>3. friendRequests \in Seq(FriendRequest)  BY DEF TypeOK, DatabaseTypeOK
<1> HIDE DEF row
<1>4. CASE friendRequests' = friendRequests  BY <1>4 DEF PendingBetween
<1>5. CASE friendRequests' = Append(friendRequests, row)
  <2>1. /\ DOMAIN friendRequests' = DOMAIN friendRequests \cup {Len(friendRequests) + 1}
        /\ friendRequests'[Len(friendRequests) + 1] = row
        /\ \A j \in DOMAIN friendRequests : friendRequests'[j] = friendRequests[j]
    BY <1>3, <1>5
  <2>2. PendingBetween(u, f)' \subseteq PendingBetween(u, f) \cup {Len(friendRequests) + 1}
    BY <2>1 DEF PendingBetween
  <2>3. CASE {Req(w).userId, Req(w).friendId} = {u, f}
    BY <2>2, <2>3 DEF Looked, Thrice, InsertRequest
  <2>4. CASE {Req(w).userId, Req(w).friendId} # {u, f}
    BY <1>2, <2>1, <2>4 DEF PendingBetween
  <2> QED  BY <2>3, <2>4
<1> QED  BY <1>1, <1>4, <1>5

(* The sizes of the sets after such a step.                                *)
LEMMA SetSizes ==
  ASSUME NEW S, IsFiniteSet(S), NEW T, NEW x
  PROVE  /\ T \subseteq S => Cardinality(T) <= Cardinality(S)
         /\ T \subseteq S \cup {x} => Cardinality(T) <= Cardinality(S) + 1
         /\ x \in S /\ T \subseteq S \ {x} => Cardinality(T) <= Cardinality(S) - 1
<1>1. T \subseteq S => Cardinality(T) <= Cardinality(S)  BY FS_Subset
<1>2. ASSUME T \subseteq S \cup {x}  PROVE Cardinality(T) <= Cardinality(S) + 1
  <2>1. /\ IsFiniteSet(S \cup {x}) /\ Cardinality(S) \in Nat
        /\ Cardinality(S \cup {x}) = IF x \in S THEN Cardinality(S) ELSE Cardinality(S) + 1
    BY FS_AddElement, FS_CardinalityType
  <2>2. /\ Cardinality(T) <= Cardinality(S \cup {x})
        /\ Cardinality(T) \in Nat /\ Cardinality(S \cup {x}) \in Nat
    BY <1>2, <2>1, FS_Subset, FS_CardinalityType
  <2> QED  BY <2>1, <2>2
<1>3. ASSUME x \in S, T \subseteq S \ {x}  PROVE Cardinality(T) <= Cardinality(S) - 1
  <2>1. IsFiniteSet(S \ {x}) /\ Cardinality(S \ {x}) = Cardinality(S) - 1
    BY <1>3, FS_RemoveElement
  <2> QED  BY <1>3, <2>1, FS_Subset
<1> QED  BY <1>1, <1>2, <1>3

LEMMA StepPending ==
  ASSUME TypeOK, PendingInv, [Next]_vars  PROVE PendingInv'
<1> SUFFICES ASSUME NEW u \in UserId, NEW f \in UserId
             PROVE  3 * Cardinality(PendingBetween(u, f)') + Looks(u, f)'
                      <= 3 * Cardinality(Worker) + faults'
  BY DEF PendingInv
<1> DEFINE P == PendingBetween(u, f)
           A == Looked(Once, u, f)
           B == Looked(Twice, u, f)
           C == Looked(Thrice, u, f)
           N == Cardinality(Worker)
<1>1. /\ IsFiniteSet(P) /\ IsFiniteSet(A) /\ IsFiniteSet(B) /\ IsFiniteSet(C)
      /\ Cardinality(P) \in Nat /\ Cardinality(A) \in Nat /\ Cardinality(B) \in Nat
      /\ Cardinality(C) \in Nat /\ N \in Nat
  BY CountsTyped
<1>2. /\ Cardinality(P') \in Nat
      /\ Cardinality(A') \in Nat /\ Cardinality(B') \in Nat /\ Cardinality(C') \in Nat
      /\ Cardinality(A') <= N /\ Cardinality(B') <= N /\ Cardinality(C') <= N
  <2>1. friendRequests' \in Seq(FriendRequest)  BY StepType DEF TypeOK, DatabaseTypeOK
  <2>2. P' \subseteq DOMAIN friendRequests'  BY DEF PendingBetween
  <2>3. A' \subseteq Worker /\ B' \subseteq Worker /\ C' \subseteq Worker  BY DEF Looked
  <2> HIDE DEF P, A, B, C
  <2> QED  BY <2>1, <2>2, <2>3, SetsFinite
<1>3. 3 * Cardinality(P) + (Cardinality(A) + Cardinality(B) + Cardinality(C)) <= 3 * N + faults
  BY DEF PendingInv, Looks
<1>4. faults \in Nat /\ faults' \in Nat /\ faults <= faults'  BY FaultsStay
<1>5. SUFFICES 3 * Cardinality(P') + (Cardinality(A') + Cardinality(B') + Cardinality(C'))
                 <= 3 * N + faults'
  BY DEF Looks
<1>6. C \subseteq B /\ B \subseteq A  BY DEF Looked, Once, Twice, Thrice
<1>7. friendRequests' = friendRequests => P' = P  BY DEF PendingBetween
<1>8. ASSUME NEW w \in Worker, Run(w)
      PROVE  3 * Cardinality(P') + (Cardinality(A') + Cardinality(B') + Cardinality(C'))
               <= 3 * N + faults'
  <2>1. CASE A' \subseteq A \ {w} /\ B' \subseteq B \ {w} /\ C' \subseteq C \ {w}
    <3>1. CASE P' \subseteq P
      <4> HIDE DEF P, A, B, C, N
      <4>1. /\ Cardinality(P') <= Cardinality(P) /\ Cardinality(A') <= Cardinality(A)
            /\ Cardinality(B') <= Cardinality(B) /\ Cardinality(C') <= Cardinality(C)
        BY <1>1, <2>1, <3>1, FS_Subset
      <4> QED  BY <1>1, <1>2, <1>3, <1>4, <4>1
    <3>2. ASSUME w \in C, NEW x, P' \subseteq P \cup {x}
          PROVE  3 * Cardinality(P') + (Cardinality(A') + Cardinality(B') + Cardinality(C'))
                   <= 3 * N + faults'
      <4> HIDE DEF P, A, B, C, N
      <4>1. /\ Cardinality(P') <= Cardinality(P) + 1
            /\ Cardinality(A') <= Cardinality(A) - 1 /\ Cardinality(B') <= Cardinality(B) - 1
            /\ Cardinality(C') <= Cardinality(C) - 1
        BY <1>1, <1>6, <2>1, <3>2, SetSizes
      <4> QED  BY <1>1, <1>2, <1>3, <1>4, <4>1
    <3>3. CASE UNCHANGED friendRequests  BY <1>7, <3>1, <3>3
    <3>4. CASE UpdateStatus(w)  BY <3>1, <3>4, AnswerShrinks
    <3>5. CASE InsertRequest(w)
      <4>1. P' \subseteq P \/ (w \in C /\ \E x : P' \subseteq P \cup {x})
        BY <3>5, InsertAdds
      <4> QED  BY <3>1, <3>2, <4>1
    <3> QED  BY <1>8, <3>3, <3>4, <3>5, RequestKinds
  <2>2. CASE UNCHANGED friendRequests /\ P = {}
    <3>1. P' = {}  BY <1>7, <2>2
    <3> HIDE DEF P, A, B, C, N
    <3>2. Cardinality(P') = 0  BY <3>1, FS_EmptySet
    <3> QED  BY <1>1, <1>2, <1>4, <3>2
  <2>3. ASSUME UNCHANGED friendRequests, faults' = faults + 1,
               \/ A' \subseteq A \cup {w} /\ B' \subseteq B /\ C' \subseteq C
               \/ A' \subseteq A /\ B' \subseteq B \cup {w} /\ C' \subseteq C
               \/ A' \subseteq A /\ B' \subseteq B /\ C' \subseteq C \cup {w}
        PROVE  3 * Cardinality(P') + (Cardinality(A') + Cardinality(B') + Cardinality(C'))
                 <= 3 * N + faults'
    <3>1. P' = P  BY <1>7, <2>3
    <3> HIDE DEF P, A, B, C, N
    <3>2. Cardinality(A') + Cardinality(B') + Cardinality(C')
            <= Cardinality(A) + Cardinality(B) + Cardinality(C) + 1
      <4>1. /\ A' \subseteq A => Cardinality(A') <= Cardinality(A)
            /\ A' \subseteq A \cup {w} => Cardinality(A') <= Cardinality(A) + 1
        BY <1>1, SetSizes
      <4>2. /\ B' \subseteq B => Cardinality(B') <= Cardinality(B)
            /\ B' \subseteq B \cup {w} => Cardinality(B') <= Cardinality(B) + 1
        BY <1>1, SetSizes
      <4>3. /\ C' \subseteq C => Cardinality(C') <= Cardinality(C)
            /\ C' \subseteq C \cup {w} => Cardinality(C') <= Cardinality(C) + 1
        BY <1>1, SetSizes
      <4> QED  BY <1>1, <1>2, <2>3, <4>1, <4>2, <4>3
    <3> QED  BY <1>1, <1>2, <1>3, <1>4, <2>3, <3>1, <3>2
  <2>4. Once # Twice /\ Once # Thrice /\ Twice # Thrice
    <3>1. "exists2" \in Once /\ "exists2" \notin Twice /\ "exists2" \notin Thrice
          /\ "exists3" \in Twice /\ "exists3" \notin Thrice
      BY DEF Once, Twice, Thrice
    <3> QED  BY <3>1
  <2>5. \/ A' \subseteq A \ {w} /\ B' \subseteq B \ {w} /\ C' \subseteq C \ {w}
        \/ UNCHANGED friendRequests /\ P = {}
        \/ /\ UNCHANGED friendRequests /\ faults' = faults + 1
           /\ \/ A' \subseteq A \cup {w} /\ B' \subseteq B /\ C' \subseteq C
              \/ A' \subseteq A /\ B' \subseteq B \cup {w} /\ C' \subseteq C
              \/ A' \subseteq A /\ B' \subseteq B /\ C' \subseteq C \cup {w}
    BY <1>8, <2>4, LookedStep
  <2> QED  BY <2>1, <2>2, <2>3, <2>5
<1>9. CASE Crash \/ UNCHANGED vars \/ \E r \in Requests : Receive(r)
  <2>1. /\ friendRequests' = friendRequests
        /\ A' \subseteq A /\ B' \subseteq B /\ C' \subseteq C
    BY <1>9 DEF Crash, vars, tables, Receive, Looked, Req, Once, Twice, Thrice
  <2>2. P' = P  BY <1>7, <2>1
  <2> HIDE DEF P, A, B, C, N
  <2>3. /\ Cardinality(A') <= Cardinality(A) /\ Cardinality(B') <= Cardinality(B)
        /\ Cardinality(C') <= Cardinality(C)
    BY <1>1, <2>1, FS_Subset
  <2> QED  BY <1>1, <1>2, <1>3, <1>4, <2>2, <2>3
<1> QED  BY <1>8, <1>9 DEF Next, Quiet

(* Two users have no more pending requests between them than the pool has  *)
(* threads, and one more for every three failed looks, if the file has no  *)
(* more at the start: the looks before the INSERT, outside its lock, let   *)
(* in one request of each thread at most, whatever dies or is answered     *)
(* (sendFriendRequest).                                                    *)
THEOREM PendingStaysBounded == InitBounded => (Spec => []PendingBounded)
<1> SUFFICES ASSUME InitBounded  PROVE Spec => []PendingBounded
  OBVIOUS
<1>1. Init => TypeOK /\ PendingInv  BY InitTypeOK, InitPending
<1>2. TypeOK /\ PendingInv /\ [Next]_vars => (TypeOK /\ PendingInv)'
  BY StepType, StepPending
<1>3. TypeOK /\ PendingInv => PendingBounded
  <2> SUFFICES ASSUME TypeOK, PendingInv, NEW u \in UserId, NEW f \in UserId
               PROVE  3 * Cardinality(PendingBetween(u, f)) <= 3 * Cardinality(Worker) + faults
    BY DEF PendingBounded
  <2>1. faults \in Nat  BY DatabaseAssumption DEF TypeOK, DatabaseTypeOK
  <2>2. Looks(u, f) \in Nat  BY CountsTyped DEF Looks
  <2> QED  BY <2>1, <2>2, CountsTyped DEF PendingInv
<1> QED  BY <1>1, <1>2, <1>3, PTL DEF Spec

-----------------------------------------------------------------------------
(* What one thread cannot do two can: with a single thread, and statements  *)
(* that fail less than three times, no two requests wait between the same  *)
(* users, which is the rule that the code states (DatabaseManager.cpp:118) *)
(* and that a pool of four threads breaks.                                 *)
THEOREM OneThreadNoDuplicate ==
  InitBounded /\ Cardinality(Worker) = 1 /\ MaxFaults < 3 => (Spec => []NoDuplicatePending)
<1> SUFFICES ASSUME InitBounded, Cardinality(Worker) = 1, MaxFaults < 3
             PROVE  Spec => []NoDuplicatePending
  OBVIOUS
<1>1. TypeOK /\ PendingBounded => NoDuplicatePending
  <2> SUFFICES ASSUME TypeOK, PendingBounded,
                      NEW i \in DOMAIN friendRequests, NEW j \in DOMAIN friendRequests,
                      friendRequests[i].status = 0, friendRequests[j].status = 0,
                      {friendRequests[i].userId, friendRequests[i].friendId}
                        = {friendRequests[j].userId, friendRequests[j].friendId}
               PROVE  i = j
    BY DEF NoDuplicatePending
  <2> DEFINE u == friendRequests[i].userId
             f == friendRequests[i].friendId
             P == PendingBetween(u, f)
  <2>1. friendRequests \in Seq(FriendRequest) /\ u \in UserId /\ f \in UserId
    <3>1. friendRequests \in Seq(FriendRequest)  BY DEF TypeOK, DatabaseTypeOK
    <3>2. friendRequests[i] \in FriendRequest  BY <3>1
    <3> QED  BY <3>1, <3>2 DEF FriendRequest
  <2>2. P \subseteq DOMAIN friendRequests /\ i \in P /\ j \in P
    BY DEF PendingBetween
  <2>3. 3 * Cardinality(P) <= 3 + faults /\ faults \in 0..MaxFaults
    BY <2>1 DEF PendingBounded, TypeOK, DatabaseTypeOK
  <2> HIDE DEF P
  <2>4. IsFiniteSet(P)  BY <2>1, <2>2, SetsFinite
  <2>5. Cardinality({i}) = 1 /\ IsFiniteSet({i})  BY FS_Singleton
  <2>6. Cardinality({i}) <= Cardinality(P) /\ (Cardinality(P) = Cardinality({i}) => P = {i})
    BY <2>2, <2>4, FS_Subset
  <2>7. Cardinality(P) \in Nat  BY <2>4, FS_CardinalityType
  <2>8. Cardinality(P) <= 1  BY <2>3, <2>7, DatabaseAssumption
  <2> QED  BY <2>2, <2>5, <2>6, <2>7, <2>8
<1>2. Spec => []PendingBounded  BY PendingStaysBounded
<1> QED  BY TypeCorrect, <1>1, <1>2, PTL

-----------------------------------------------------------------------------
(* The lists that handlers send are finite: the file is, a statement adds  *)
(* one row at most, and the position of a request is a row's.              *)
ListResponse == {"FRIEND_LIST_RESP", "FRIEND_REQUEST_LIST_RESP"}

FiniteInv ==
  /\ IsFiniteSet(friends)
  /\ \A d \in sent : d.type \in ListResponse => IsFiniteSet(d.body)

LEMMA InitFinite == Init => FiniteInv
BY FileAssumption DEF Init, InitTables, FiniteInv

(* The image of a finite set, by the function that maps it.                *)
LEMMA ImageFinite ==
  ASSUME NEW S, IsFiniteSet(S), NEW T, NEW f \in [S -> T], T = {f[x] : x \in S}
  PROVE  IsFiniteSet(T)
<1>1. f \in Surjection(S, T)  BY DEF Surjection
<1> QED  BY <1>1, FS_Surjection

LEMMA BlockedFinite ==
  ASSUME IsFiniteSet(friends), NEW u, NEW v, NEW flag, NEW ok, setBlocked(u, v, flag, ok)
  PROVE  IsFiniteSet(friends')
<1> DEFINE row(r) == IF r.userId = u /\ r.friendId = v
                     THEN [userId |-> u, friendId |-> v, isBlocked |-> flag]
                     ELSE r
           f == [r \in friends |-> row(r)]
           T == {row(r) : r \in friends}
<1>1. f \in [friends -> T] /\ T = {f[r] : r \in friends}  OBVIOUS
<1>2. IsFiniteSet(T)
  <2> HIDE DEF f, T
  <2> QED  BY <1>1, ImageFinite
<1>3. friends' = T \/ friends' = friends  BY DEF setBlocked
<1> QED  BY <1>2, <1>3

LEMMA AddedFinite ==
  ASSUME IsFiniteSet(friends), NEW u, NEW v, NEW ok, addFriend(u, v, ok)
  PROVE  IsFiniteSet(friends')
<1> DEFINE row == [userId |-> u, friendId |-> v, isBlocked |-> FALSE]
<1>1. friends' = friends \cup {row} \/ friends' = friends  BY DEF addFriend
<1> HIDE DEF row
<1> QED  BY <1>1, FS_AddElement

LEMMA RowsFinite ==
  ASSUME IsFiniteSet(friends), NEW w \in Worker, Run(w)
  PROVE  IsFiniteSet(friends')
<1>1. CASE DeleteFriend(w)
  <2>1. friends' \subseteq friends  BY <1>1 DEF DeleteFriend, deleteFriend
  <2> QED  BY <2>1, FS_Subset
<1>2. CASE SetBlocked(w)
  BY <1>2, BlockedFinite DEF SetBlocked
<1>3. CASE AddFriend1(w) \/ AddFriend2(w)
  BY <1>3, AddedFinite DEF AddFriend1, AddFriend2
<1> QED  BY <1>1, <1>2, <1>3, FriendsKinds

LEMMA BodyFinite ==
  ASSUME TypeOK, IsFiniteSet(friends), NEW r \in Request,
         r.type \in {"FRIEND_LIST_REQ", "FRIEND_REQUEST_LIST_REQ"}
  PROVE  IsFiniteSet(ListBody(r))
<1>1. CASE r.type = "FRIEND_LIST_REQ"
  <2> DEFINE S == getFriends(r.userId)
             f == [x \in S |-> <<x.friendId, IF x.isBlocked THEN 1 ELSE 0>>]
             T == {<<x.friendId, IF x.isBlocked THEN 1 ELSE 0>> : x \in S}
  <2>1. IsFiniteSet(S)
    <3>1. S \subseteq friends  BY DEF getFriends
    <3> HIDE DEF S
    <3> QED  BY <3>1, FS_Subset
  <2>2. f \in [S -> T] /\ T = {f[x] : x \in S}  OBVIOUS
  <2>3. ListBody(r) = T  BY <1>1 DEF ListBody
  <2> HIDE DEF S, f, T
  <2> QED  BY <2>1, <2>2, <2>3, ImageFinite
<1>2. CASE r.type = "FRIEND_REQUEST_LIST_REQ"
  <2> DEFINE S == getFriendRequests(r.userId)
             f == [i \in S |-> <<i, friendRequests[i].userId>>]
             T == {<<i, friendRequests[i].userId>> : i \in S}
  <2>1. IsFiniteSet(S)
    <3>1. DOMAIN friendRequests = 1..Len(friendRequests) /\ Len(friendRequests) \in Int
      BY DEF TypeOK, DatabaseTypeOK
    <3>2. IsFiniteSet(DOMAIN friendRequests)  BY <3>1, FS_Interval
    <3>3. S \subseteq DOMAIN friendRequests  BY DEF getFriendRequests
    <3> HIDE DEF S
    <3> QED  BY <3>2, <3>3, FS_Subset
  <2>2. f \in [S -> T] /\ T = {f[i] : i \in S}  OBVIOUS
  <2>3. ListBody(r) = T  BY <1>2 DEF ListBody
  <2> HIDE DEF S, f, T
  <2> QED  BY <2>1, <2>2, <2>3, ImageFinite
<1> QED  BY <1>1, <1>2

(* Who sends a datagram of these types: the handler of its request, with   *)
(* an empty body when it refuses.                                          *)
LEMMA ListsAsked ==
  ASSUME NEW r \in Request, r.type # "GROUP_MSG", Response(r.type) \in ListResponse
  PROVE  r.type \in {"FRIEND_LIST_REQ", "FRIEND_REQUEST_LIST_REQ"}
BY SMTT(30) DEF Request, Response, ListResponse

LEMMA SentFinite ==
  ASSUME TypeOK, IsFiniteSet(friends), NEW w \in Worker, Run(w),
         NEW d \in sent', d \notin sent, d.type \in ListResponse
  PROVE  IsFiniteSet(d.body)
<1>1. CASE Respond(w)
  <2>1. d.body = {}  BY <1>1 DEF Respond, Send, Datagram
  <2> QED  BY <2>1, FS_EmptySet
<1>2. CASE List(w)
  <2>1. d.type = Response(Req(w).type) /\ d.body \subseteq ListBody(Req(w))
    BY <1>2 DEF List, Send, Datagram
  <2>2. Req(w) \in Request /\ Req(w).type # "GROUP_MSG"
    BY <1>2, AtCall, CallType DEF List, InDb
  <2>3. IsFiniteSet(ListBody(Req(w)))  BY <2>1, <2>2, ListsAsked, BodyFinite
  <2> QED  BY <2>1, <2>3, FS_Subset
<1>3. CASE LoginResp(w)
  <2>1. Req(w).type = "LOGIN_REQ"  BY <1>3, AtCall, CallType DEF LoginResp
  <2>2. d.type = "LOGIN_RESP"  BY <1>3, <2>1 DEF LoginResp, Send, Datagram, Response
  <2> QED  BY <2>2 DEF ListResponse
<1>4. d.type \notin {"PRIVATE_MSG_RESP", "OFFLINE_MSG_LIST_RESP"}  BY DEF ListResponse
<1>5. d # Datagram(Req(w).addr, task[w].n, "OFFLINE_MSG_LIST_RESP", TRUE, payload[w])
  BY <1>4 DEF Datagram
<1> QED  BY <1>1, <1>2, <1>3, <1>4, <1>5, SentBy

LEMMA StepFinite == ASSUME TypeOK, FiniteInv, [Next]_vars  PROVE FiniteInv'
<1>1. ASSUME NEW w \in Worker, Run(w)  PROVE FiniteInv'
  BY <1>1, RowsFinite, SentFinite DEF FiniteInv
<1>2. ASSUME UNCHANGED <<friends, sent>>  PROVE FiniteInv'
  BY <1>2 DEF FiniteInv
<1>3. (\E r \in Requests : Receive(r)) \/ Crash \/ Quiet \/ UNCHANGED vars => UNCHANGED <<friends, sent>>
  BY DEF Receive, Crash, Quiet, vars, tables
<1> QED  BY <1>1, <1>2, <1>3 DEF Next

LEMMA ListsFinite == Spec => []FiniteInv
<1>1. TypeOK /\ FiniteInv /\ [Next]_vars => FiniteInv'  BY StepFinite
<1> QED  BY InitFinite, TypeCorrect, <1>1, PTL DEF Spec

=============================================================================
