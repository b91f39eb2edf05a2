# A TLA+ model of the linux-qq chat server

The repository is a small instant-messaging system in C++: a UDP server with a
pool of four threads and a SQLite file, a console client, and the headers of a
Qt client that was never written. This directory holds TLA+ modules that follow
the server call by call and the console client step by step, and compose them over
an unreliable network; TLC runs over small instances of them; and theorems checked
by TLAPS for every instance.

    tlc -workers 2 -config Messaging.cfg MCChatServer.tla
    tlc -workers 2 -config LinuxQQ.cfg MCLinuxQQ.tla
    tlapm ChatServerProofs.tla

## 1. Inventory

| component | state | operations | interacts with |
|---|---|---|---|
| `DatabaseManager` (`server/src/DatabaseManager.cpp`) | the tables Users, Friends, FriendRequests, Messages, Groups, GroupMembers, FileTransfers; the mutex `mtx` | one or a few SQL statements per method, each method under `mtx` | called by the handlers, on any thread of the pool |
| `ChatServer` (`server/src/ChatServer.cpp`) | `onlineClients` and `clientsMutex`; the locals of each handler that runs | `receiveLoop`, `handlePacket`, sixteen handlers | reads datagrams, enqueues tasks, calls the database, sends datagrams |
| `ThreadPool` (`server/src/ThreadPool.cpp`) | queue of tasks, `stop`, `queueMutex`, `condition`, the threads | worker loop, `enqueue`, `shutdown`, destructor | `receiveLoop` enqueues; the tasks are `handlePacket` |
| `main` | the `ChatServer` object | init, start, destruction | shuts the pool down through two destructors |
| `Protocol` | none | `PacketHeader`, message types, body layouts | between client and server |
| `Utils` | none | `sha256` | `registerUser`, `verifyUser`, `updateUser` |
| `TestClient` (`client/src/TestClient.cpp`) | `currentUserId`, the datagrams in its socket | fourteen menu entries, one read after each, what is read taken by its type, logout on SIGINT and on entry 0 | the server, over UDP |
| Qt client (`client/include`) | none | declarations without an implementation | none |

What is hard about it, and what makes each part correct:

* **Threads.** Any two handlers run at the same time, and a handler is a sequence
  of database calls with `mtx` released in between. What one call found may be gone
  at the next (`handlePrivateMessage` checks the friend row, then delivers;
  `handleLogin` verifies a row that a deletion removes). *Correct:* an effect only
  with the authorisation it needs, and no request left without an answer.
* **Two mutexes.** `handlePrivateMessage` waits for `mtx` inside `clientsMutex`;
  `createGroup` and `addUserToGroup` lock `mtx` twice. *Correct:* nobody waits for
  ever.
* **Offline messages.** A message goes to the receiver's address or to the table,
  and the table is read when the receiver logs in, while other logins of the same
  user may be at it. *Correct:* no message stays behind while its receiver is
  online, none is marked that was in no list, none is accepted and lost.
* **Friendship in three statements.** Status, first row, second row, each in its own
  lock; a statement may fail, the process may be killed. *Correct:* rows of Friends
  and messages only between users with an answered request.
* **Failures.** A statement that fails (SQLite busy, disk full; a SELECT that fails is
  taken for the end of its rows), a process that is
  killed between two statements and comes back with the file and without
  `onlineClients`, datagrams that are duplicated and reordered.
* **The pool.** A notify outside the lock, a wait that may wake up on its own, a
  shutdown with tasks in the queue. *Correct:* a task queue: first in, first out,
  each task once, shutdown returns with all tasks done.
* **The client.** One blocking read per request without a timeout, and whatever
  arrives is taken for the answer, also what belongs to an earlier request or was
  pushed. SIGINT may come anywhere, between the two writes of `currentUserId` too.
  *Correct:* it never takes itself for somebody the server did not let in at its
  address, and never believes in a session that was taken away.
* **The network.** UDP: datagrams are late, lost, repeated or out of order, and the
  pool's threads reorder what the network did not. *Correct:* who logged out and left
  does not come back online.
* **The wire.** User ids are sent in host order and answered in network order; a list
  is cut at 2048 bytes. *Correct:* an id arrives as the id it was; a list is shown
  whole or refused.

## 2. Plan

Done, in this order, the most important behaviour first:

1. `DatabaseManager`: the tables and the methods the handlers call.
2. `ChatServer` on top of it: receive loop, pool as a queue, handlers, mutexes,
   kills. `MCChatServer`: its instances.
3. `ThreadPool` with the condition variable, and `TaskQueue`, what it promises.
4. `DatabaseProofs`, `ChatServerProofs`, `ThreadPoolProofs`.
5. `WireFormat`: byte order and lists in a buffer. `TestClient`, and `LinuxQQ`, which
   composes clients, network and server; `MCLinuxQQ`: its instances.
6. The missing link between pool and server: `UsesTaskQueue`, proved in `QueueProofs`.
7. Symmetry of Friends: `FriendsMutual`, proved in `FriendsProofs`.
8. `WireFormatProofs`, and `LinuxQQProofs`: the system implements the server's
   specification, types, sessions.
9. `Mailbox`, what the server promises of a message, and the proof that it keeps it;
   answers (once, and before a handler returns), locks, and the bound on pending
   requests, as properties and theorems; `ListsWhole` as a theorem.

Left, and worth it in this order: an abstract session (who is online where) that login,
logout and deletion refine, and its proof; a variant of `LinuxQQ` with more than three
packets, which needs a smaller server to stay in TLC's reach; the sizes of offline
lists, which need contents with a size.

## 3. Modules

| module | lines of code it follows | what it is |
|---|---|---|
| `DatabaseManager` | `DatabaseManager.cpp` 17-541 | tables as variables, one operator per method |
| `ChatServer` | `ChatServer.cpp` 10-417, worker loop | the server; `EXTENDS DatabaseManager` |
| `MCChatServer` | | constants of the instances, requests of each scenario |
| `TaskQueue` | | abstract specification: what the pool promises |
| `Mailbox` | | abstract specification: what the server promises of a message |
| `ThreadPool` | `ThreadPool.cpp` 1-40 | the pool, `Queue == INSTANCE TaskQueue WITH ...` |
| `DatabaseProofs` | | each method preserves the types of the tables |
| `WireFormat` | `TestClient.cpp` 34-36, 54-55, 85-120, `Protocol.h` 57 | ids and lists in a datagram, as operators |
| `TestClient` | `TestClient.cpp` 17-406 | a console client; `EXTENDS WireFormat` |
| `LinuxQQ` | | clients, network and server; `EXTENDS ChatServer`, `Client == INSTANCE TestClient` |
| `MCLinuxQQ` | | constants of its instances, what users type |
| `ChatServerProofs` | | types, authorisation, offline messages, locks, logins and lists |
| `AcceptedProofs` | | accepted messages are lost only to failed statements; the server keeps `Mailbox` |
| `ThreadPoolProofs` | | the pool implements the queue |
| `QueueProofs` | | the server uses the pool as that queue; answers to requests |
| `FriendsProofs` | | friendship is mutual; pending requests are bounded; lists are finite |
| `WireFormatProofs` | | lists of any length, ids of any value |
| `LinuxQQProofs` | | theorems about the whole system |

### DatabaseManager

`users`, `friends` are sets of rows. `friendRequests` and `messages` are sequences: no
statement of the code deletes a row of theirs, so that the rowid SQLite picks is the
next position. A method that writes takes `ok`: the statement is committed, or SQLite
fails it (`executePrepared`, at most `MaxFaults` times), or a constraint refuses it
(UNIQUE name, which costs no fault). A read that fails counts as a fault too: no method
looks at the error of a SELECT, so that the loop ends with the rows got so far
(`selectRows`) and a look finds nothing (`selectFound`). A failed look lets a second
friend request through, a failed load leaves a part of the messages in the table, a
failed `getFriends` refuses a message. An error after the last row changes nothing and
is not counted. Users.user_id is INTEGER PRIMARY KEY *without* AUTOINCREMENT, so that
`NextRowId` is the largest id in the table now plus one: an id is used again when the
newest account was deleted.

A password stands for its hash (only compared). The text of a message is the arrival
number of the request that carried it. Timestamps and the limit of 50 in
`getChatHistory` are left out: the order of a list is not a property here, lists are
sets. `UserId` bounds the registrations: a registration that would need a larger id
does not happen in the model.

`Groups` and `GroupMembers` are constants. The two methods that write them lock
`mtx` a second time before they write (`createGroup` line 356, `addUserToGroup` line
382) and never come to it.

### ChatServer

Each worker has a `pc`: the call its handler makes next, named after the method.
One action per call, in the order of the code:

| code | actions |
|---|---|
| `receiveLoop`, worker loop, `handlePacket` | `Receive`, `Dequeue`, `handlePacket`, `Drop` |
| `handleRegister`, `handleUpdateUser` | `RegisterUser`, `UpdateUser`, then `Respond` |
| `handleDeleteUser` | `DeleteUser`, `Respond`, then `EraseDeleted` (the code answers first) |
| `handleLogout` | `Logout`, `Respond` |
| `handleLogin` | `VerifyUser`, `GoOnline`, `LoginResp`, `LoadOffline`, `MarkDelivered` once per row, `PushOffline` |
| `handleFriendRequest` | `CheckPending` three times (twice in the handler, once in `sendFriendRequest`), `InsertRequest`, which runs *without* `mtx`, `Respond` |
| `handleFriendRequestAction` | `UpdateStatus`, `AddFriend1`, `AddFriend2`, `Respond` |
| `handleDeleteFriend`, `handleBlockUser`, `handleUnblockUser` | `DeleteFriend`, `SetBlocked`, `Respond` |
| `handleFriendList`, `handleFriendRequestList`, `handleChatHistory` | `List` |
| `handlePrivateMessage` | `CheckFriend`, `Deliver`, `StoreMessage`, `Respond` |
| `handleCreateGroup`, `handleJoinGroup` | `CreateGroup`, `JoinGroup`, `LockTwice` |

*Mutexes.* A method of `DatabaseManager` holds `mtx` from its start to its end and
nobody sees its middle, so it is one step that needs `mtx` free. The exceptions are
the two group methods: `LockTwice` takes `mtx` and nothing follows (to lock a
`std::mutex` that the thread holds is undefined; the build blocks). `clientsMutex` is
held over more than one step only by `handlePrivateMessage`, which stores inside it.

*Workers and queue.* The pool is used as `TaskQueue` promises it. A task carries the
number of its arrival, which tells two copies of a datagram apart.

*Network.* In `ChatServer` alone, `Receive` takes any request of `Requests`, any number
of times and in any order: this covers every client and every duplication and
reordering. Loss on the way to the server is a `Receive` that does not happen. `sent`
keeps every datagram that left; what becomes of it is the network's (`LinuxQQ`). Bodies
are those the client of the repository builds; the early returns for short bodies are
not modelled.

*Messages, abstractly.* `Mail == INSTANCE Mailbox` maps a private message to the number
of the request that brought it: it is *pushed* when it left for an online receiver,
*waiting* or *marked* when a row of the table has it, *listed* when it was in an offline
list. A message may be listed more than once (two logins that overlap, a mark that
failed), and pushed or stored only once.

*Kills.* `Crash` empties everything but the tables: `onlineClients` is in memory.

*History.* `sent`, and `skipped`: the messages that the last load for their receiver
missed because the SELECT failed. Nothing in the server reads them.

### ThreadPool

Every critical section of `queueMutex` is one step, since nothing in it blocks but
the wait, which releases the mutex. The notify comes after the release and is a step
of its own. `owner` is the place of the thread that owns the pool (inside `enqueue`
before its notify, inside `shutdown` before its notify or its joins, and so on). It
is one thread: `receiveLoop` is the only caller of `enqueue`, and the destructors run
in the same thread. A worker is at its loop, asleep in the wait, at a task, or has
returned. That a pool with tasks in the queue is shut down is in the pool's contract;
this server reaches `shutdown` only when it could not start.

### WireFormat

`HeaderSize` is 8: `PacketHeader` is a byte and an aligned `uint32_t`. `ntohl` is the
byte swap with the sign of an `int`. `Shown` is what the client's loop makes of the
bytes that `recvfrom` left in the buffer; the size of a list is eight bytes, the
status, and five bytes for each friend or eight for each request. `BufferAssumption`
asks of the buffer what 2048 gives: the 2039 bytes that remain of a list that was cut
are no multiple of five or of eight.

### TestClient

`place` says where the main thread is: at the menu, in the `recvfrom` after a packet
(`reply`) or after an empty datagram (`unasked`), between the two writes of
`currentUserId` (`convert`), in entry 0 after its `sendto` (`quit`), in the `recvfrom` of
`handleSigint` (`sigint`), or gone.

| code | actions |
|---|---|
| `main`, a menu entry up to `sendto` | `Choose` (what is sent: `Packet`, `Built`) |
| `sendRequest` after `recvfrom` | `Reply`, and `Convert` for line 55 |
| entry 0 | `Quit` up to its `sendto`, then `Close` |
| the end of the input | `EndOfInput` |
| `handleSigint` | `Interrupt`, `Farewell` |

An entry that needs a login, without one, leaves `pkt` empty, sends it and waits; the
server drops an empty datagram, so that it is left out of `wire`, but the client waits.
The answer is taken by its type and not by what was asked. `currentUserId` is written
twice in a login (`memcpy`, then `ntohl`), and a signal between the two makes
`handleSigint` log out an id in network order; for an id whose low byte is 128 or more
that number is negative, and the handler ends without a logout, as for nobody logged in.
A signal in entry 0 between its `sendto` and the reset sends a second logout and waits.
The handler never returns, so that what it interrupts is over. A socket that is closed
loses what waits in it, and a client that is gone does not come back: a new process is
another member of `Addr` (the address of a socket is its identity here, and no port is
used again).

`asked` is the history of the packets of each process, `wire` the positions of it that are
on their way.

### LinuxQQ

`Client == INSTANCE TestClient WITH Process <- Addr`. The network is `wire` and
`sent \ arrived`: `ToServer` is a `Receive` of one packet, `ToClient` puts a datagram
into the socket's buffer, both in any order; `LoseRequest`, `DuplicateRequest`,
`LoseAnswer`, `DuplicateAnswer` cost one of `MaxNetFaults`. A step is one of a client,
of the network or of one worker, with everything else unchanged. `SystemAssumption`
says that an id fits an `int`, that what users type gives requests of `Requests`, and that
`Requests` has the logouts with an id in network order that `handleSigint` may send (where
it is not negative). It asks nothing else of the ids: the network order of an id need not
be one, and may be negative.

## 4. Runs

| run | cfg | checks | states |
|---|---|---|---|
| messaging | `Messaging` | `OnlineInboxCovered`, `DeliveredWasPushed`, `AcceptedNotLost`, `OnlineWasGranted`, `ListedForReceiver`, `KeepsMailbox` | 3.1 million |
| social | `Social` | `FriendRowsAuthorised`, `MessagesAuthorised`, `FriendsMutual`, `PendingBounded` | 2.4 million |
| everything | `Everything` | `TypeOK`, `AnsweredOnce`, `NeverStuck`, `ReturnsAnswered`, `UsesTaskQueue`, `EveryRequestAnswered` | 752 thousand |
| linuxqq | `LinuxQQ` | `SystemTypeOK`, `GrantedOnly`, `SessionHeld`, `ListsWhole`, `ServerBehaves`, `EveryWaitEnds`, `LeavesForGood` | 672 thousand |
| pool | `ThreadPool` | `Implements`, `EveryTaskRuns`, `ShutdownReturns` | 2 thousand |
| group_lock, duplicate_request, blocked_sender, ghost_login, reused_id, second_shutdown | one each | one property each that the code violates | small |
| message_shown | `MessageShown` | `MessageShownSent`, which the code violates | 0.7 million |

Bounds, and why they are enough for the question asked:

* **Workers: 2** (the code has 4). The properties of messages are about two handlers
  that meet (a sender and a login, two logins); a third actor is a later request on
  the same worker. The theorems hold for any number. Symmetry of the workers is used
  in the safety runs only.
* **Users 1 and 2**, a third id for registrations in *everything*; **two addresses**,
  so that one user can log in from two places.
* **MaxRequests** 4 (messaging: a message, a login, a logout and the login after it, in
  any order and with repetitions, of alice at one address and bob at two, who write to
  each other, so that the table holds messages to both), 4 (social: request, two answers
  or a deletion, a message), 3 (everything: every pair of handlers, with a third before
  or after).
* **MaxCrashes, MaxFaults** 1 in *messaging* and *social*: a kill, a failed statement, a
  read or a write, or both, anywhere. In *everything* a statement may fail and there is
  no kill, which its liveness property excuses anyway.
* **Pool**: 3 workers and 4 tasks: more tasks than workers, and idle workers besides
  busy ones.

* **linuxqq**: two clients that both log in as alice. One of them also asks for her
  friends and her requests and logs out, the other may log in as bob too, instead or in
  the middle of her session; three events in all, of which an event is a packet, a lost
  or repeated datagram or a kill (`MaxEvents`; at most one datagram and one kill). Three
  packets are a login, what follows it and what a second client does meanwhile;
  `MaxRequests` = 4 is beyond what they can bring. SIGINT, entry 0 and the end of the
  input come at any moment. `Ids` is {1, 128}: in network order 1 is another positive
  number, which no user has, and 128 is negative, so that a signal in the middle of a
  login does either of the two things it can do. `BufferSize` is 15 in place of 2048, so
  that one friend fits and one request does not: lists that fit and lists that are cut
  both occur. Deadlock is not checked here: a client that waits for a datagram that was
  lost, or that the server dropped, waits for ever, and the system stops.
  `EveryWaitEnds` says when that may be.
* **message_shown**: two clients, alice and bob, four packets, no faults.

What the properties say:

* `OnlineInboxCovered`: an undelivered row whose receiver is online was pushed, or a
  login of that user that is under way will push it, or the last load for that user
  failed before it came to this row (`skipped`). It holds because
  `handlePrivateMessage` looks at `onlineClients` and stores in *one* lock, and
  `handleLogin` loads after it went online; with the lock released before the
  INSERT (`DeliverUnlocked`) it is violated.
* `DeliveredWasPushed`: without a kill, a marked row is in a list that went out or is
  about to. With a kill between the marks and the datagram the messages of the list
  are gone; the property says so by its premise, and the hazard is listed.
* `AcceptedNotLost`: a failed statement loses one message whose sender was told success
  at most, and nothing else loses any, kills included. One it may lose: the code does
  not look at the result of `storeMessage`.
* `FriendRowsAuthorised`, `MessagesAuthorised`: neither kills, failures, double
  answers nor deletions produce a friendship or a message between users without an
  answered request. (Answered, and not accepted: a request that was accepted can be
  refused later, which leaves the rows.)
* `EveryRequestAnswered`: a datagram with a handler is answered and its handler
  returns, unless the process is killed or a worker has locked `mtx` twice. It is stated
  as two things together: no handler returns unanswered (`ReturnsAnswered`), and again
  and again no datagram waits (`Waiting`); a datagram that stops waiting stays so.
* `FriendsMutual`: without a failed statement, a kill or a deletion, a row of Friends
  has its counterpart, or is the first row of a handler that is about to write the
  second, however many answers to the same and to opposite requests overlap.
* `KeepsMailbox`: the server implements `Mailbox`. What could break it is a message that
  is pushed *and* stored, or stored twice, when the receiver's presence changes under
  the handler; a mark of a row that is not in the table; a list made of something that
  is not. A duplicated datagram is another request, and so another message.
* `OnlineWasGranted`: who is in `onlineClients` was told so at this address, or the
  worker that put it there is about to say so. With the entry written before the look
  at who is online (`GoOnlineFirst`) a refused login stays in the map.
* `AnsweredOnce`, `ReturnsAnswered`: the handlers answer on many paths (refusals with an
  early return, the end, lists) and from more than one place. No path answers twice, and
  a handler that returns has answered, unless the packet is dropped or the process dies.
  The text pushed to a receiver and the offline list are not answers.
* `NeverStuck`: of the threads with work, one finds the locks of its next call free,
  unless a group handler waits for itself. It is the safety half of
  `EveryRequestAnswered`, and unlike it can be proved.
* `ListedForReceiver`: an offline list holds messages to the user whose login it belongs
  to, which was granted, at the same address, before. In *messaging* both users get
  lists, and bob at two addresses; a load that does not look at the receiver
  (`loadOfflineOfAll`) violates it.
* `PendingBounded`: the finding `NoDuplicatePending` has a bound. Two users have no more
  pending requests between them than the pool has threads, since a thread that looks
  after an insert finds it, and one more for every three looks that fail: a handler looks
  three times, and one look that does not fail is enough to stop it.
* `UsesTaskQueue`: what handlers are run for is what the loop enqueued, in that order
  and once. It ties `ChatServer` to the specification `ThreadPool` implements; a kill
  empties the queue, which `TaskQueue` does not promise, and *everything* has no kill.
* `ServerBehaves`: every behaviour of the system is one of `ChatServer` as seen by the
  server. It is what makes the server's properties, checked for arbitrary datagrams,
  properties of the system.
* `GrantedOnly`: the user a client takes itself for is one the server let in *at this
  address*, whatever the client took for its answer. It is not obvious: an answer
  may be late or repeated, or belong to an earlier login. Answers carry the id they
  grant, which is why it holds. It covers every place: in the middle of a login, and in a
  handler that interrupted it there, `currentUserId` is the network order of such an id
  (`IdsOf`), positive or negative.
* `SessionHeld`: without a kill, the user is in `onlineClients` at this address as long
  as nobody sent a logout or deletion of it. It rests on `handleLogin` refusing a user
  that is online; with the second login let in (`GoOnlineAnyway`) the first client
  believes in a session the other one took.
* `ListsWhole`: lists of the system in the buffer at hand; the theorem `ListsNeverCut`
  has the same for every buffer that `BufferAssumption` allows.
* `EveryWaitEnds`: who sent a packet and waits gets something to read, unless a
  datagram was lost or repeated, the server was killed or a group handler is stuck:
  again and again no client waits. As users send finitely many packets, and no client
  sends one while it waits, a client that waited for ever would violate it.
  After an empty datagram (`unasked`) the client may wait for ever.
* `LeavesForGood`: who logged out and ended is offline for good. Excused are clients
  that asked to log in twice: a login that overtakes the logout brings them back.
* `Implements`, `EveryTaskRuns`, `ShutdownReturns`: the pool is a task queue, loses
  no wakeup, and its shutdown returns.

**Fairness.** `ChatServer`: weak fairness of each worker's `Run`, since a thread that
can run does, and of nothing else: datagrams need not arrive. Weak fairness of one
worker would not do if it had to compete for a mutex that others take and release
again and again; here the requests are bounded, so that a mutex is free for good at
some point. In the code there is no such bound, and what is shown is that no request
waits for ever on a circle of waits. `ThreadPool`: weak fairness of the owner once it
is inside a call, and of each worker, whose task returns (which *everything* shows of
the handlers); none of `Enqueue`, `Shutdown` and spurious wakeups.

`LinuxQQ`: weak fairness of `Progress` as a whole: as long as some thread can run, some
client can read what has come or some datagram is on its way, something of it happens.
This is weaker than fairness of each thread and each datagram, and enough because the
bounds make every run of it finite. That a datagram on its way arrives, unless it is
counted as lost, is what the loopback address `SERVER_IP` of `Config.h` justifies. What
users type, signals, faults and kills are not fair.

**Deadlock** is checked in every run except *linuxqq*, *message_shown* (see the bounds),
*everything* and *group_lock*, where self-locked group handlers may stop every worker,
which is what the code does. Where it is checked, the end (all requests received and
done, or the process gone) is a stuttering disjunct of its own (`Quiet`, `Ended`).

## 5. Findings

Each is a run that TLC finds violated, against what the code itself says:

1. `CreateGroupAnswered` (group_lock): a worker that creates a group locks `mtx` twice
   and is stuck, and all others behind it at their next database call.
2. `NoDuplicatePending` (duplicate_request): check and INSERT of a friend request are
   two critical sections; two users that ask each other at the same time leave two
   pending requests.
3. `BlockedIsRefused` (blocked_sender): the check reads the sender's row only; the row
   that says the receiver blocked the sender is not looked at.
4. `DeletedIsOffline` (ghost_login): a login that verified its password before the
   account was deleted goes online after the removal.
5. `NewAccountStartsEmpty` (reused_id): the id of a deleted account is given to the
   next one, with its friends and undelivered messages.
6. `NeverAborts` (second_shutdown): both destructors join the threads; the second join
   throws and the process aborts instead of returning -1.
7. `MessageShownSent` (message_shown): a message is pushed with the type of the answer
   to a message that was sent. A client that waits for its answer takes what was
   pushed for it and reports that its own message was sent, when it was refused.

## 6. Proofs

All theorems are about any sets of workers, users, clients and requests, and any bounds;
those about the system are about ids that fit an `int`, as `currentUserId` does (and
`MaxEvents <= MaxRequests`, a bound of the model).
They use the assumptions of the modules (`DatabaseAssumption`, `ServerAssumption`,
`FileAssumption`, `ThreadsAssumption`, `PoolAssumption`, `BufferAssumption`,
`SystemAssumption`): the constants have their types, the model values for "none" are no
members of the sets they are added to, in the file the server starts with every row of
Friends has an answered request, and the rows of that file and the threads are finitely
many. Three theorems have a premise about the file besides (`InitMutual`, `InitBounded`),
which an empty file meets; a file that a server with as many threads left behind meets
`InitBounded` too, since `PendingStaysBounded` is proved with kills.

* `TypeCorrect` : `Spec => []TypeOK`. Inductive as it stands, because `WorkerTypeOK`
  ties `pc` to the type of the request and says which locals are set at which call.
  Its lemmas, one per action, also give `TablesGrow` (rows of requests and messages
  are never removed and keep sender, receiver, asker and asked), which the other
  proofs use.
* `FriendRowsAlwaysAuthorised`: both social invariants. Neither is inductive: an
  insert of a row in `AddFriend1` relies on what `UpdateStatus` did earlier, a stored
  message on what `CheckFriend` saw. `AuthorisedInv` adds `HandlersAuthorised`: a
  handler at `addFriend1`, `addFriend2`, `deliver` or `storeMessage` is between users
  with an answered request. An answered request stays answered, so that it survives
  whatever other workers do.
* `MailNeverStranded`: `OnlineInboxCovered` and `DeliveredWasPushed`. `MailInv` adds
  who holds `clientsMutex` (a worker at `storeMessage`, and only it), that its
  receiver is offline as long as it holds it, that a login beyond its answer has sent
  it, and that the rows of an inbox belong to the user that logs in.
* `AcceptedNeverLost`: `AcceptedNotLost`, in `AcceptedProofs`. The bound looks only at
  answers that left; `LossInv` counts the workers that are about to answer with success
  as well. A step adds nothing to the lost messages, or one and a failed statement.
* `PoolImplementsQueue`: `Spec => Queue!Spec`. `PoolInv`: the queue holds the last
  tasks in the order of their numbers, a worker has a task exactly while it runs, a
  worker leaves only a stopped and empty pool, and the owner is past the joins only
  when all have left.

* `MessagesAlwaysAuthorised`, `MarkedWasPushed`: the second halves of the two theorems
  with two properties, under names of their own.
* `PoolUsedAsPromised`: `MaxCrashes = 0 => (Spec => UsesTaskQueue)`. Every step of the
  server is a submission, a start, a return or a stutter of the queue: the one thing
  it needs besides `TypeCorrect` is that the numbers in the queue are the last ones,
  in order. With `PoolImplementsQueue`, the pool gives what the server relies on.
* `FriendsStayMutual`: `InitMutual => (Spec => []FriendsMutual)`; `InitMutual` says that
  the file has mutual rows at the start. `MutualInv` adds `FirstRowThere`: a handler
  at its second row finds its first one, without which the second would stand alone.
* `ThreadsNeverStuck`: `NeverStuck`. `MtxHeld` and the part of `MailInv` about
  `clientsMutex` say who holds which lock at which call: the holder of `clientsMutex` is
  at `storeMessage`, which waits for `mtx` only, and the holder of `mtx` is a group
  handler at `relock`. So a thread that waits for `clientsMutex` has one ahead of it
  that does not.
* `OnlineAlwaysGranted`, `ListsForReceiver`: by the step that adds the entry or sends the
  list. The second needs `ListedOwn`: what a login has collected so far are messages to
  its user, whose receiver no statement changes, and its answer is out.
* `NeverAnsweredTwice`, `HandlersReturnAnswered`: in `QueueProofs`, because they rest on
  the numbers of the tasks. `Numbered` says that no two tasks, waiting or running, have
  the same number, and no datagram has the number of one that waits; `AnswerInv` says of
  each call whether the handler that is at it has answered (`After`).
* `MailboxKept`: `Spec => KeepsMailbox`. A step of the server is one of `Mailbox` or a
  stutter. `TextInv` ties the numbers to the handlers: what was pushed or stored has the
  number of a task that was started, no two rows have the same one, and a handler that
  is about to push or store has done neither. `ListedOwn` gives that lists come from the
  table.
* `PendingStaysBounded`: `InitBounded => (Spec => []PendingBounded)`; `InitBounded` says
  that the file has no more than the threads at the start. `PendingBounded` is not
  inductive: in `PendingInv` a pending row counts three, and a thread one for each look
  behind it (`Looked`). A look that is right to find nothing happens only when no row is
  there, and then the threads, three looks each, are all that counts; a look that is
  wrong adds one, and so does the failed statement to the bound; an insert turns a
  thread's three looks into a row. `OneThreadNoDuplicate` is its case of a pool with one
  thread and fewer than three failed statements, where the rule that the code states
  holds.
* `ServerImplements`: `SystemSpec => ServerBehaves`. The step is a case split over
  clients, network and workers; it needs that what is on the wire is in `Requests`,
  that is `TypeInv`. By it every theorem above holds of the system;
  `MessagesKept` and `RequestsServed` state most of them.
* `SystemTypeCorrect`, `NeverSomeoneElse`: `SystemTypeOK` and `GrantedOnly` from one
  invariant, `TypeInv`: a successful login names one user (`LoginsNamed`), and a client
  has, in the order of bytes that its place allows, the id of a user that was granted to
  it (`IdentityOK`). `ConvertsBack` gives that the second write makes of the first one
  that id again, also when the first one left a negative number. The types of ids and
  the identity of the client prove each other, since ids that are sent are what was read
  before.
* `SessionsHold`: `SessionHeld`. `SessionInv` adds that a request in the server was
  asked by a client (`RequestsAsked`), that a client in `handleSigint` asked to log
  out (`LeavingAsked`), and that a login that was granted is in `onlineClients` or its
  end was asked for (`GrantsHeld`), also while a worker is about to answer it.
* `ListsNeverCut`: `ListsWhole`. A list is finite (`FiniteInv`, in `FriendsProofs`: the
  file is, a statement adds one row at most, and a block maps the rows), so that it has a
  length, and `ListNeverCut` speaks of every length.
* `ListNeverCut`, `ConvertsBack`: for every list length and buffer, and for every `int`
  that is not negative, by its four bytes.

Only model-checked: the liveness properties (`EveryRequestAnswered`, `EveryTaskRuns`,
`ShutdownReturns`, `EveryWaitEnds`, `LeavesForGood`), which need fairness and are out of
the prover's reach; and the violations, which are counterexamples. Every invariant,
action property and refinement that a passing run checks has a theorem.

## 7. Not modelled

* The size of a list of offline messages (beyond 65507 bytes `sendto` fails and its
  result is not looked at): contents are abstract. The client has no case for its type.
* What the client prints, but for lists and the success of a message; a failing
  `cin >> fid` inside a menu entry (any id of `UserId` may be typed).
* File transfers and group messages: methods no handler calls, and a message type
  `handlePacket` has no case for (it is dropped, as in the code).
* `init`, `socket` and `bind`: straight-line code. The abort of a server that could
  not start is `second_shutdown`. After a failed `bind` the descriptor is closed twice.
* Undefined reads of bodies that are too short or not terminated. Of the bodies the
  client builds only the text of a message lacks its final zero byte: what the server
  reads behind it becomes part of the text, which is abstract. Empty texts, whose push
  would be a datagram without a body.
* The methods of `DatabaseManager` that no handler calls (`getPendingFriendRequests`,
  `getGroupMembers`, `getPrivateMessages`, ...), and two menu entries' requests that do
  not exist: the client can neither join a group nor ask for a history, so that these
  two handlers are run from `MCChatServer` only.
* `sha256` (only equality matters), logging, and the headers of the Qt client.
