SPECIFICATION Spec
CONSTANTS
  Workers = {w1, w2}
  Bootstrap = boot
  DpcThread = dpc
  Bootstrap2 = w1
  NoThread = NoThread
  NUM_PRIORITIES = 5
  QUANTUM = 1
  Mutexes = {m1}
  Events = {e1}
  DpcEvent = dpc_event
  NoObject = NoObject
  MaxDelay = 2
  MutexTimeouts = {1}
  Destroyable = {m1, e1}
  EventTimeouts = {1}
  AutoFlags = {TRUE, FALSE}
  CreatePriorities = {2}
  SetPriorities = {}
  SleepDelays = {2}
  MaxCrit = 4
INVARIANTS
  KernelInv
  WaitQueuesExact
  MutualExclusion
  MutexCountExact
  TimersExact
  DeadThreadsQueued
  NoMissedSignal
PROPERTIES
  WakeReasonSettled
CHECK_DEADLOCK FALSE
