SPECIFICATION Spec
CONSTANTS
  Workers = {w1, w2, w3}
  Bootstrap = boot
  DpcThread = dpc
  Bootstrap2 = w1
  NoThread = NoThread
  NUM_PRIORITIES = 5
  QUANTUM = 1
  Mutexes = {m1}
  Events = {e1}
  DpcEvent = dpc_event
  NoObject = NoObject
  MaxDelay = 1
  MutexTimeouts = {}
  Destroyable = {}
  EventTimeouts = {}
  AutoFlags = {TRUE}
  CreatePriorities = {2}
  SetPriorities = {9}
  SleepDelays = {}
  MaxCrit = 4
SYMMETRY WorkerSymmetry
INVARIANTS
  TypeOK
  RunQueuesExact
  OneRunning
  CriticalSectionsBalanced
  NoOrphanedWaiter
PROPERTIES
  DispatchesHighest
  MutexesAreFifoLocks
