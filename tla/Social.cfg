SPECIFICATION Spec

CONSTANTS
  w1 = w1  w2 = w2
  a1 = a1  a2 = a2
  alice = alice  bob = bob  pw = pw  team = team  guild = guild
  Worker = {w1, w2}
  NoWorker = NoWorker
  Addr = {a1, a2}
  NoAddr = NoAddr
  NoTask = NoTask
  UserId = {1, 2}
  Name = {alice, bob, pw, guild}
  Password = {pw, alice}
  GroupName = {team, guild}
  Groups <- OneGroup
  GroupMembers <- OneMember
  InitUsers <- AliceAndBob
  InitFriends <- NoRows
  InitRequests <- Pending
  Requests <- Social
  MaxRequests = 4
  MaxCrashes = 1
  MaxFaults = 1

SYMMETRY WorkerSymmetry
INVARIANTS
  FriendRowsAuthorised
  MessagesAuthorised
  FriendsMutual
  PendingBounded
