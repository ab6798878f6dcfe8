SPECIFICATION Spec
CONSTANTS
  Workers = {w1, w2}
  Bootstrap = boot
  DpcThread = dpc
  Bootstrap2 = w1
  NoThread = NoThread
  NUM_PRIORITIES = 5
  QUANTUM = 1
  Mutexes = {}
  Events = {e1}
  DpcEvent = dpc_event
  NoObject = NoObject
  MaxDelay = 1
  MutexTimeouts = {}
  Destroyable = {}
  EventTimeouts = {1}
  AutoFlags = {TRUE, FALSE}
  CreatePriorities = {2}
  SetPriorities = {}
  SleepDelays = {1}
  MaxCrit = 4
INVARIANTS
  CriticalSectionsBalanced
