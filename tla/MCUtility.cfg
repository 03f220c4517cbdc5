CONSTANTS
  Threads = {t1, t2, t3}
  Workers = {w1, w2}
  Tasks = {a, b, c}
  None = None
  MaxStarts = 4
  BlockSize = 7
  SlotSize = 2
  Header = 2
  MaxBlocks = 2
  bufferSize = 2
  FileSize = 5
  MaxPut = 5
  MaxOpens = 2
SPECIFICATION PartSpec
INVARIANTS
  CountersMatchHolders
  SleepersHaveAWaker
  StartedInOrder
  DrainedWhenDone
  QueueHasAWorker
  AtMostOneLateCallback
  CharactersPassOnce
PROPERTIES
  WaitsEnd
  ImplementsRWLock
  WorkGetsDone
  ResourcesAreApart
