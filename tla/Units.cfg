SPECIFICATION FairSpec
CONSTANTS
  Null = Null
  NoLink = NoLink
  NoClient = NoClient
  Raw = Raw
  Zero = Zero
  Element <- MapElements
  Default = 1
  Maker = {u, c}
  Updater = u
  MaxRequests = 4
  Numbers = 3
  Patience = 1
  Item = {1, 2, 3, 4}
  MaxCount = 5
  Queues = {q1, q2}
  Customer = {1, 2}
  MaxClients = 3
  Bits = 3
  Node = {1, 2, 4, 6}
  Key = {2, 6, 7}
  MaxFiles = 2
  MaxLost = 1
  Thread = {t1, t2, t3, t4}
  Timed = {t1, t2}
  Arrays = {a, b}
  Value = {1, 2}
  MaxSize = 4
  NoWorker = NoWorker
  MinBlock = 1
  LastBucket = 2
  Blocks = 1
  MaxPools = 4
  SortKey = {1, 2, 3}
  MaxLength = 5
  MaxText = 130
  Worker = {w1, w2}
  Heeding = {w1}
  Probe <- Probes
  Turn <- Turns
  MaxSquares = 8
CHECK_DEADLOCK FALSE
INVARIANTS
  TreeSound
  RequestsAccounted
  TwiceOnDisk
  OwnersAnswer
  ReplicasRestored
  BroadcastWakes
  ListSound
  QueuesApart
  BuffersSound
  PoolsSound
  SortsRight
  DigestsWhole
  ThreadsEndFirst
  AlgebraRight
PROPERTIES
  BagSteps
  TickReachesAll
  DequeSteps
  FifoSteps
  ArraySteps
  DestructorEnds
