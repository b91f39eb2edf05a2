SPECIFICATION FairSystemSpec

CONSTANTS
  w1 = w1  w2 = w2
  a1 = a1  a2 = a2
  alice = alice  bob = bob  pw = pw  empty = empty
  Worker = {w1, w2}
  NoWorker = NoWorker
  Addr = {a1, a2}
  NoAddr = NoAddr
  NoTask = NoTask
  UserId <- Ids
  Name = {alice, bob, empty}
  Password = {pw, empty}
  GroupName = {empty}
  Groups <- NoGroups
  GroupMembers <- NoGroups
  InitUsers <- AliceAndBob
  InitFriends <- Friends
  InitRequests <- AskedAgain
  Requests <- ClientRequests
  MaxRequests = 4
  MaxCrashes = 1
  MaxFaults = 0
  BufferSize = 15
  Typed <- Sessions
  NoName = empty
  NoPacket = NoPacket
  MaxNetFaults = 1
  MaxEvents = 3

INVARIANTS
  SystemTypeOK
  GrantedOnly
  SessionHeld
  ListsWhole
PROPERTIES
  ServerBehaves
  EveryWaitEnds
  LeavesForGood
CHECK_DEADLOCK FALSE
