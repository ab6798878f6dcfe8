------------------------------- MODULE Kernel -------------------------------
(***************************************************************************)
(* The running kernel: boot (src/kernel/main.c), thread creation, sleeping *)
(* and exit (src/kernel/thread.c), the deferred procedure calls that free  *)
(* dead threads (src/kernel/dpc.c), and the timer interrupt                *)
(* (src/kernel/timer.c, src/arch/arm/exceptions.S), composed with the      *)
(* scheduler, the wait queues, the mutexes and the events.                 *)
(*                                                                         *)
(* A critical section excludes the timer interrupt as long as the count is *)
(* balanced.  When it is not (see CriticalSectionsBalanced), a thread that *)
(* runs with interrupts on and a non-zero count makes no further calls in  *)
(* the model (Calls requires crit = 0): its critical sections would no     *)
(* longer be atomic.                                                       *)
(*                                                                         *)
(* Names that end in _Faulty are variants with a bug; no action uses them. *)
(***************************************************************************)
EXTENDS Event

CONSTANTS
  CreatePriorities, \* priorities given to thread_create()
  SetPriorities,    \* arguments of thread_set_priority()
  SleepDelays,      \* delays of thread_sleep(), in ticks, not 0
  MaxCrit           \* bound on critical_section_count at which ticks stop

ASSUME KernelAssumption ==
  /\ CreatePriorities \subseteq Priorities
  /\ SetPriorities \subseteq Int
  /\ SleepDelays \subseteq 1 .. MaxDelay
  /\ MaxCrit \in Nat

VARIABLE dpc_list   \* the dead threads whose cleanup is queued

syncVars == <<mutexVars, destroyed, eventVars>>
vars == <<schedVars, callVars, waitVars, timerVars, syncVars, dpc_list>>

-----------------------------------------------------------------------------
(* Threads.                                                                *)

\* A thread_t as thread_create() fills it in, apart from its priority.
FreshThread(t) ==
  /\ quantum' = [quantum EXCEPT ![t] = 0]
  /\ saved' = [saved EXCEPT ![t] = 1]
  /\ blocking' = [blocking EXCEPT ![t] = NoObject]
  /\ block_ret' = [block_ret EXCEPT ![t] = NO_ERROR]
  /\ UNCHANGED <<current, idle_thread, crit, ints, run_queue, run_queue_bitmap,
                 wait, wcount, timerVars, syncVars, dpc_list>>

\* thread_create(): the new thread will start in initial_thread_func(), and
\* its creator goes on to call thread_resume() with it.
thread_create(t, p, then) ==
  /\ state[t] = "NONE"
  /\ state' = [state EXCEPT ![t] = "SUSPENDED"]
  /\ priority' = [priority EXCEPT ![t] = p]
  /\ pc' = [pc EXCEPT ![t] = "initial_thread_func", ![current] = then]
  /\ obj' = [obj EXCEPT ![current] = t]
  /\ FreshThread(t)
  /\ UNCHANGED irq

CreateThread ==
  /\ Calls("user")
  /\ \E t \in Workers, p \in CreatePriorities : thread_create(t, p, "thread_resume")

\* thread_resume() looks at the state before it enters the critical section.
ResumeCheck ==
  /\ Calls("thread_resume")
  /\ IF state[obj[current]] \in {"READY", "RUNNING"}
       THEN InCall("user", NoObject)
       ELSE InCall("thread_resume_enter", obj[current])
  /\ UNCHANGED <<schedVars, waitVars, timerVars, syncVars, dpc_list>>

\* The rest of thread_resume(t), up to the switch of its thread_yield().
thread_resume(t, then) ==
  /\ disable_ints
  /\ thread_yield(insert_in_run_queue_head(run_queue, t),
                  run_queue_bitmap \cup {priority[t]},
                  [state EXCEPT ![t] = "READY"], crit + 1)
  /\ InCall(then, NoObject)
  /\ UNCHANGED <<idle_thread, priority, waitVars, timerVars, syncVars, dpc_list>>

ResumeEnter == /\ Calls("thread_resume_enter")
               /\ thread_resume(obj[current], "thread_resume_return")

ResumeReturn ==
  /\ Returns("thread_resume_return")
  /\ exit_critical_sections(2)
  /\ InCall("user", NoObject)
  /\ UNCHANGED <<current, idle_thread, state, priority, quantum, saved, run_queue,
                 run_queue_bitmap, waitVars, timerVars, syncVars, dpc_list>>

\* initial_thread_func() leaves the critical section a thread is born in.
initial_thread_func ==
  /\ Returns("initial_thread_func")
  /\ exit_critical_sections(1)
  /\ InCall(IF current = DpcThread THEN "dpc_wait" ELSE "user", NoObject)
  /\ UNCHANGED <<current, idle_thread, state, priority, quantum, saved, run_queue,
                 run_queue_bitmap, waitVars, timerVars, syncVars, dpc_list>>

Yield ==
  /\ Calls("user")
  /\ disable_ints
  /\ thread_yield(run_queue, run_queue_bitmap, state, crit)
  /\ InCall("switch_return", NoObject)
  /\ UNCHANGED <<idle_thread, priority, waitVars, timerVars, syncVars, dpc_list>>

thread_sleep ==
  /\ Calls("user")
  /\ \E delay \in SleepDelays :
       timer_set_oneshot(current, delay, "thread_sleep_handler")
  /\ disable_ints
  /\ thread_resched(run_queue, run_queue_bitmap,
                    [state EXCEPT ![current] = "SLEEPING"], quantum, crit + 1)
  /\ InCall("switch_return", NoObject)
  /\ UNCHANGED <<idle_thread, priority, waitVars, syncVars, dpc_list>>

\* thread_yield() and thread_sleep() after their thread_resched().
SwitchReturn ==
  /\ Returns("switch_return")
  /\ exit_critical_sections(1)
  /\ InCall("user", NoObject)
  /\ UNCHANGED <<current, idle_thread, state, priority, quantum, saved, run_queue,
                 run_queue_bitmap, waitVars, timerVars, syncVars, dpc_list>>

\* thread_set_priority() clamps its argument.
Clamp_Faulty(p) == IF p < LOWEST_PRIORITY THEN LOWEST_PRIORITY ELSE p

Clamp(p) == IF p < LOWEST_PRIORITY THEN LOWEST_PRIORITY
            ELSE IF p > HIGHEST_PRIORITY THEN HIGHEST_PRIORITY ELSE p

thread_set_priority(p) ==
  /\ priority' = [priority EXCEPT ![current] = Clamp(p)]
  /\ UNCHANGED <<current, idle_thread, state, quantum, saved, crit, ints, run_queue,
                 run_queue_bitmap, waitVars, timerVars, syncVars, dpc_list>>

SetPriority == /\ Calls("user")
               /\ \E p \in SetPriorities : thread_set_priority(p)
               /\ UNCHANGED callVars

-----------------------------------------------------------------------------
(* Exit and the dpc thread.                                                *)

\* As below, but dpc_queue() is called without DPC_FLAG_NORESCHED.
thread_exit_Resched_Faulty ==
  /\ Calls("user") /\ owned[current] \subseteq destroyed
  /\ dpc_list' = Append(dpc_list, current)
  /\ signalled' = [signalled EXCEPT ![DpcEvent] = TRUE]
  /\ wait_queue_wake_all_begin(DpcEvent, "signal_all")
  /\ UNCHANGED <<waitVars, timerVars, mutexVars, destroyed, autounsignal>>

\* As below, but nobody signals the dpc thread.
thread_exit_NoSignal_Faulty ==
  /\ Calls("user") /\ owned[current] \subseteq destroyed
  /\ enter_critical_section
  /\ state' = [state EXCEPT ![current] = "DEATH"]
  /\ dpc_list' = Append(dpc_list, current)
  /\ InCall("exit_resched", DpcEvent)
  /\ UNCHANGED <<current, idle_thread, priority, quantum, saved, run_queue,
                 run_queue_bitmap, waitVars, timerVars, mutexVars, destroyed,
                 eventVars>>

\* thread_exit() queues its own cleanup and signals dpc_event (which has no
\* auto-unsignal flag) without a reschedule; then it reschedules for good.
thread_exit ==
  /\ Calls("user") /\ owned[current] \subseteq destroyed
  /\ enter_critical_section
  /\ state' = [state EXCEPT ![current] = "DEATH"]
  /\ dpc_list' = Append(dpc_list, current)
  /\ signalled' = [signalled EXCEPT ![DpcEvent] = TRUE]
  /\ InCall(IF signalled[DpcEvent] THEN "exit_resched" ELSE "exit_signal", DpcEvent)
  /\ UNCHANGED <<current, idle_thread, priority, quantum, saved, run_queue,
                 run_queue_bitmap, waitVars, timerVars, mutexVars, destroyed,
                 autounsignal>>

ExitResched ==
  /\ \/ Returns("exit_resched")
     \/ Returns("exit_signal") /\ wait[DpcEvent] = <<>>
  /\ thread_resched(run_queue, run_queue_bitmap, state, quantum, crit)
  /\ InCall("dead", NoObject)
  /\ UNCHANGED <<idle_thread, priority, ints, waitVars, timerVars, syncVars, dpc_list>>

\* dpc_thread_routine(): event_wait(), then take one item; only an empty list
\* unsignals the event.
DpcWait ==
  /\ Calls("dpc_wait")
  /\ \/ event_wait_through(DpcEvent) /\ InCall("dpc_pop", NoObject)
     \/ event_wait_block(DpcEvent, INFINITE_TIME, "dpc_event_wait")
  /\ UNCHANGED dpc_list

DpcWaitReturn ==
  /\ Returns("dpc_event_wait")
  /\ event_wait_return("dpc_pop")
  /\ UNCHANGED <<timerVars, dpc_list>>

DpcPop ==
  /\ Calls("dpc_pop")
  /\ IF dpc_list = <<>>
       THEN /\ signalled' = [signalled EXCEPT ![DpcEvent] = FALSE]
            /\ InCall("dpc_wait", NoObject)
            /\ UNCHANGED dpc_list
       ELSE /\ dpc_list' = Tail(dpc_list)
            /\ InCall("thread_cleanup_dpc", Head(dpc_list))
            /\ UNCHANGED signalled
  /\ UNCHANGED <<schedVars, waitVars, timerVars, mutexVars, destroyed, autounsignal>>

\* thread_cleanup_dpc(): unlink the dead thread and free its thread_t.
thread_cleanup_dpc ==
  /\ Calls("thread_cleanup_dpc")
  /\ state' = [state EXCEPT ![obj[current]] = "NONE"]
  /\ priority' = [priority EXCEPT ![obj[current]] = LOWEST_PRIORITY]
  /\ FreshThread(obj[current])
  /\ InCall("dpc_wait", NoObject)

-----------------------------------------------------------------------------
(* kmain(): the boot thread starts inside a critical section and with the  *)
(* highest priority, starts the dpc thread and bootstrap2, enables         *)
(* interrupts and turns into the idle thread.                              *)

BootCreate(from, t, p, then) ==
  /\ Returns(from) /\ current = Bootstrap
  /\ thread_create(t, p, then)

BootResume(from, then) ==
  /\ Returns(from) /\ current = Bootstrap
  /\ thread_resume(obj[current], then)

BootReturn(from, n, then) ==
  /\ Returns(from)
  /\ exit_critical_sections(n)
  /\ InCall(then, NoObject)
  /\ UNCHANGED <<current, idle_thread, state, priority, quantum, saved, run_queue,
                 run_queue_bitmap, waitVars, timerVars, syncVars, dpc_list>>

kmain ==
  \/ BootCreate("boot", DpcThread, DPC_PRIORITY, "boot_resume_dpc")
  \/ BootResume("boot_resume_dpc", "boot_dpc_return")
  \/ BootReturn("boot_dpc_return", 2, "boot_bootstrap2")
  \/ BootCreate("boot_bootstrap2", Bootstrap2, DEFAULT_PRIORITY, "boot_resume_bootstrap2")
  \/ BootResume("boot_resume_bootstrap2", "boot_bootstrap2_return")
  \/ BootReturn("boot_bootstrap2_return", 2, "boot_enable")
  \/ BootReturn("boot_enable", 1, "become_idle")

thread_become_idle ==
  \/ /\ Returns("become_idle") /\ thread_set_priority(IDLE_PRIORITY)
     /\ InCall("set_idle_thread", NoObject)
  \/ /\ Returns("set_idle_thread") /\ idle_thread' = current
     /\ InCall("idle", NoObject)
     /\ UNCHANGED <<current, state, priority, quantum, saved, crit, ints, run_queue,
                    run_queue_bitmap, waitVars, timerVars, syncVars, dpc_list>>

-----------------------------------------------------------------------------
(* The timer interrupt: arm_irq counts a critical section, timer_tick()    *)
(* runs the due timers and then thread_timer_tick(), and as its result is  *)
(* always INT_RESCHEDULE, arm_irq calls thread_preempt() before it returns *)
(* to the interrupted code, with interrupts enabled as they were there.    *)

arm_irq ==
  /\ ints /\ irq[current] = "none" /\ crit < MaxCrit
  /\ crit' = crit + 1
  /\ ints' = FALSE
  /\ irq' = [irq EXCEPT ![current] = "timer_tick"]
  /\ left' = [t \in Threads |-> IF left[t] > 0 THEN left[t] - 1 ELSE 0]
  /\ UNCHANGED <<current, idle_thread, state, priority, quantum, saved, run_queue,
                 run_queue_bitmap, pc, obj, waitVars, timer_queue, callback,
                 syncVars, dpc_list>>

TimerDue == timer_queue # <<>> /\ left[Head(timer_queue)] = 0

\* One turn of the loop of timer_tick().
timer_tick ==
  LET t == Head(timer_queue) IN
  /\ irq[current] = "timer_tick" /\ TimerDue
  /\ timer_queue' = Tail(timer_queue)
  /\ callback' = [callback EXCEPT ![t] = "none"]
  /\ IF callback[t] = "thread_sleep_handler"
       THEN /\ state' = [state EXCEPT ![t] = "READY"]
            /\ run_queue' = insert_in_run_queue_head(run_queue, t)
            /\ run_queue_bitmap' = run_queue_bitmap \cup {priority[t]}
            /\ UNCHANGED <<waitVars, crit>>
       ELSE thread_unblock_from_wait_queue(t, ERR_TIMED_OUT)
  /\ UNCHANGED <<current, idle_thread, priority, quantum, saved, ints, callVars,
                 left, syncVars, dpc_list>>

IrqPreempt ==
  /\ irq[current] = "timer_tick" /\ ~TimerDue
  /\ thread_preempt(run_queue, run_queue_bitmap, thread_timer_tick, crit)
  /\ irq' = [irq EXCEPT ![current] = "preempted"]
  /\ UNCHANGED <<idle_thread, priority, ints, pc, obj, waitVars, timerVars, syncVars,
                 dpc_list>>

\* As below, but thread_preempt() returns without exit_critical_section().
IrqReturn_Faulty ==
  /\ irq[current] = "preempted"
  /\ crit' = crit - 1
  /\ ints' = TRUE
  /\ irq' = [irq EXCEPT ![current] = "none"]
  /\ UNCHANGED <<current, idle_thread, state, priority, quantum, saved, run_queue,
                 run_queue_bitmap, pc, obj, waitVars, timerVars, syncVars, dpc_list>>

IrqReturn ==
  /\ irq[current] = "preempted"
  /\ crit' = crit - 2
  /\ ints' = TRUE
  /\ irq' = [irq EXCEPT ![current] = "none"]
  /\ UNCHANGED <<current, idle_thread, state, priority, quantum, saved, run_queue,
                 run_queue_bitmap, pc, obj, waitVars, timerVars, syncVars, dpc_list>>

-----------------------------------------------------------------------------
Init ==
  /\ current = Bootstrap /\ idle_thread = NoThread
  /\ state = [t \in Threads |-> IF t = Bootstrap THEN "RUNNING" ELSE "NONE"]
  /\ priority = [t \in Threads |-> IF t = Bootstrap THEN HIGHEST_PRIORITY
                                                    ELSE LOWEST_PRIORITY]
  /\ quantum = [t \in Threads |-> 0] /\ saved = [t \in Threads |-> 1]
  /\ crit = 1 /\ ints = FALSE
  /\ run_queue = [p \in Priorities |-> <<>>] /\ run_queue_bitmap = {}
  /\ pc = [t \in Threads |-> IF t = Bootstrap THEN "boot" ELSE "dead"]
  /\ obj = [t \in Threads |-> NoObject] /\ irq = [t \in Threads |-> "none"]
  /\ wait = [o \in Queues |-> <<>>] /\ wcount = [o \in Queues |-> 0]
  /\ blocking = [t \in Threads |-> NoObject]
  /\ block_ret = [t \in Threads |-> NO_ERROR]
  /\ timer_queue = <<>> /\ left = [t \in Threads |-> 0]
  /\ callback = [t \in Threads |-> "none"]
  /\ count = [m \in Mutexes |-> 0] /\ holder = [m \in Mutexes |-> NoThread]
  /\ owned = [t \in Threads |-> {}] /\ destroyed = {}
  /\ signalled = [e \in AllEvents |-> FALSE]
  /\ autounsignal \in {f \in [AllEvents -> BOOLEAN] :
                         f[DpcEvent] = FALSE /\ \A e \in Events : f[e] \in AutoFlags}
  /\ dpc_list = <<>>

\* Calls that a worker is free to make or not to make.  It initializes an object again
\* only when no thread is in a call about it: mutex_init() and event_init() do not look.
UserCall ==
  \/ CreateThread \/ Yield \/ thread_sleep \/ SetPriority \/ thread_exit
  \/ /\ \/ \E m \in Mutexes : \/ mutex_acquire_free(m) \/ mutex_acquire(m)
                              \/ mutex_acquire_timeout(m) \/ mutex_release(m)
                              \/ mutex_destroy(m) \/ (Quiescent(m) /\ mutex_init(m))
     /\ UNCHANGED <<eventVars, dpc_list>>
  \/ /\ \E e \in Events : \/ event_wait(e) \/ event_unsignal(e)
                          \/ event_signal(e, TRUE) \/ event_signal(e, FALSE)
                          \/ event_destroy(e) \/ (Quiescent(e) /\ event_init(e))
     /\ UNCHANGED dpc_list

\* What the kernel does by itself once it has been entered.
KernelStep ==
  \/ ResumeCheck \/ ResumeEnter \/ ResumeReturn \/ initial_thread_func \/ SwitchReturn
  \/ ExitResched \/ DpcWait \/ DpcWaitReturn \/ DpcPop \/ thread_cleanup_dpc
  \/ kmain \/ thread_become_idle
  \/ /\ \/ WakeAllStep \/ WakeAllResched \/ WakeAllDone \/ WakeReturn
     /\ UNCHANGED <<syncVars, dpc_list>>
  \/ /\ mutex_acquire_return \/ mutex_acquire_timeout_return
     /\ UNCHANGED <<eventVars, dpc_list>>
  \/ event_wait_returns /\ UNCHANGED dpc_list

IrqStep == timer_tick \/ IrqPreempt \/ IrqReturn

Next == UserCall \/ KernelStep \/ arm_irq \/ IrqStep

Spec == Init /\ [][Next]_vars

-----------------------------------------------------------------------------
(* Properties.                                                             *)

BootPCs ==
  {"boot", "boot_resume_dpc", "boot_dpc_return", "boot_bootstrap2",
   "boot_resume_bootstrap2", "boot_bootstrap2_return", "boot_enable",
   "become_idle", "set_idle_thread", "idle"}
DpcPCs == {"dpc_wait", "dpc_event_wait", "dpc_pop", "thread_cleanup_dpc"}
ResumePCs ==
  {"thread_resume", "thread_resume_enter", "boot_resume_dpc", "boot_resume_bootstrap2"}
TimedPCs == {"mutex_acquire_timeout", "event_wait_timeout"}
LoopPCs  == WakeLoops \cup {"exit_resched"}
PCs == BootPCs \cup DpcPCs \cup ResumePCs \cup TimedPCs \cup LoopPCs \cup
  {"initial_thread_func", "user", "thread_resume_return", "switch_return",
   "wake_return", "mutex_acquire", "event_wait", "dead"}

\* Every variable holds a value of the C type it stands for.
TypeOK ==
  /\ current \in Threads /\ idle_thread \in {NoThread, Bootstrap}
  /\ state \in [Threads -> ThreadStates]
  /\ priority \in [Threads -> Priorities]
  /\ quantum \in [Threads -> 0 .. QUANTUM]
  /\ saved \in [Threads -> Int] /\ crit \in Int /\ ints \in BOOLEAN
  /\ run_queue \in [Priorities -> Seq(Threads)]
  /\ run_queue_bitmap \in SUBSET Priorities
  /\ pc \in [Threads -> PCs]
  /\ obj \in [Threads -> Queues \cup Threads \cup {NoObject}]
  /\ irq \in [Threads -> {"none", "timer_tick", "preempted"}]
  /\ wait \in [Queues -> Seq(Threads)] /\ wcount \in [Queues -> Int]
  /\ blocking \in [Threads -> Queues \cup {NoObject}]
  /\ block_ret \in [Threads -> BlockReturns]
  /\ timer_queue \in Seq(Threads) /\ left \in [Threads -> 0 .. MaxDelay]
  /\ callback \in [Threads ->
       {"none", "wait_queue_timeout_handler", "thread_sleep_handler"}]
  /\ count \in [Mutexes -> Int] /\ holder \in [Mutexes -> Threads \cup {NoThread}]
  /\ owned \in [Threads -> SUBSET Mutexes]
  /\ destroyed \in SUBSET (Mutexes \cup Events)
  /\ signalled \in [AllEvents -> BOOLEAN] /\ autounsignal \in [AllEvents -> BOOLEAN]
  /\ dpc_list \in Seq(Threads)

\* Only the current thread is RUNNING; it is anything else only between the
\* assignment of its new state and the thread_resched() of the same call.  The
\* boot thread can always run, so thread_resched() finds a thread (it has no
\* branch for an empty bitmap).
OneRunning ==
  /\ \A t \in Threads : state[t] = "RUNNING" => t = current
  /\ state[current] = CASE pc[current] \in {"signal_all", "destroy_all"} -> "READY"
                        [] pc[current] \in {"exit_signal", "exit_resched"} -> "DEATH"
                        [] OTHER -> "RUNNING"
  /\ state[Bootstrap] \in {"READY", "RUNNING"}

\* What the calls that threads are in say of the state: the part of the
\* inductive invariant that the queue invariants rest on.
CallsConsistent ==
  /\ \A t \in Threads :
       /\ pc[t] \in BootPCs <=> t = Bootstrap
       /\ pc[t] \in DpcPCs => t = DpcThread
       /\ pc[t] \in LoopPCs => t = current /\ irq[t] = "none" /\ ~ints
       /\ pc[t] \in WakeLoops => obj[t] \in Queues
       /\ irq[t] = "timer_tick" => t = current /\ ~ints
       /\ state[t] = "BLOCKED" => obj[t] \in Queues /\ blocking[t] = obj[t]
       /\ pc[t] \in {"mutex_acquire", "mutex_acquire_timeout"} => obj[t] \in Mutexes
       /\ pc[t] \in TimedPCs => state[t] \in {"BLOCKED", "READY", "RUNNING"}
       /\ pc[t] \in ResumePCs => obj[t] \in Threads /\ state[obj[t]] = "SUSPENDED"
       /\ pc[t] = "thread_cleanup_dpc" =>
            obj[t] \in Threads /\ state[obj[t]] = "DEATH" /\ ~OccursIn(obj[t], dpc_list)
       /\ OccursIn(t, dpc_list) => state[t] = "DEATH"
  /\ \A t, u \in Threads :
       pc[t] \in ResumePCs /\ pc[u] \in ResumePCs /\ obj[t] = obj[u] => t = u
  /\ Distinct(dpc_list)

\* Interrupts are enabled exactly outside of critical sections (the contract of
\* enter/exit_critical_section() in thread.h).
CriticalSectionsBalanced == ints <=> crit = 0

\* A queued timer is that of a thread that sleeps, or that is in a call with a
\* timeout (blocked, or woken and not yet come to timer_cancel()): never one on
\* a stack frame that is gone.
TimersOwned ==
  /\ Distinct(timer_queue)
  /\ \A t \in Threads : OccursIn(t, timer_queue) =>
       \/ state[t] = "SLEEPING" /\ callback[t] = "thread_sleep_handler"
       \/ pc[t] \in TimedPCs /\ callback[t] = "wait_queue_timeout_handler"

\* The timer queue is TimersOwned, in order of expiry, and has a timer for
\* every thread that sleeps or is blocked with a timeout.
TimersExact ==
  /\ TimersOwned
  /\ \A i, j \in 1 .. Len(timer_queue) :
       i <= j => left[timer_queue[i]] <= left[timer_queue[j]]
  /\ \A t \in Threads :
       state[t] = "SLEEPING" \/ (state[t] = "BLOCKED" /\ pc[t] \in TimedPCs)
       => OccursIn(t, timer_queue)

Acquiring(t, m) ==
  obj[t] = m /\ pc[t] \in {"mutex_acquire", "mutex_acquire_timeout"}

\* mutex_acquire*() returned NO_ERROR to one thread at a time, and m->holder
\* names that thread (mutex_release() panics otherwise).
MutualExclusion ==
  \A m \in Mutexes \ destroyed : \A t \in Threads : m \in owned[t] =>
     holder[m] = t /\ \A u \in Threads \ {t} : m \notin owned[u]

\* m->count is the number of threads that have the mutex or are in a call to
\* acquire it, those included that timed out and have not yet backed out.
MutexCountExact ==
  \A m \in Mutexes \ destroyed :
    count[m] = Cardinality({t \in Threads : m \in owned[t] \/ Acquiring(t, m)})

\* "This function waits for a mutex to become available" (mutex_acquire()): if
\* anyone is blocked on a mutex, then somebody has it, or is on the way out of
\* the wait for it.
NoOrphanedWaiter ==
  \A m \in Mutexes \ destroyed : wait[m] # <<>> =>
    \E t \in Threads : m \in owned[t] \/ (Acquiring(t, m) /\ state[t] # "BLOCKED")

\* The mutexes implement FifoLock: a thread has its turn from the time it takes
\* a free mutex, or mutex_release() hands it over, until it releases it.
Turn(m) ==
  {t \in Threads : \/ m \in owned[t]
                   \/ /\ Acquiring(t, m) /\ state[t] # "BLOCKED"
                      /\ block_ret[t] = NO_ERROR}

Lock == INSTANCE FifoLock WITH
  Locks <- Mutexes, Clients <- Threads, Nobody <- NoThread,
  turn <- [m \in Mutexes |-> IF m \in destroyed \/ Turn(m) = {} THEN NoThread
                             ELSE CHOOSE t \in Turn(m) : TRUE],
  line <- [m \in Mutexes |-> IF m \in destroyed THEN <<>> ELSE wait[m]]

MutexesAreFifoLocks == Lock!Spec

\* No thread is left blocked on a signalled event: event_wait_timeout() blocks
\* only on an unsignalled one, and event_signal() leaves no waiter behind.
NoMissedSignal ==
  \A e \in AllEvents : signalled[e] /\ wait[e] # <<>> =>
    obj[current] = e /\ pc[current] \in WakeLoops

\* dpc.c: while a cleanup is queued dpc_event is signalled, so the dpc thread
\* does not sleep on it; every dead thread is queued (or being cleaned up) once,
\* and is cleaned up only when it has left its stack for good.
DeadThreadsQueued ==
  LET cleaning == {t \in Threads : /\ pc[DpcThread] = "thread_cleanup_dpc"
                                   /\ obj[DpcThread] = t}
  IN  /\ dpc_list # <<>> => signalled[DpcEvent]
      /\ Distinct(dpc_list)
      /\ \A t \in Threads :
           /\ state[t] = "DEATH" <=> OccursIn(t, dpc_list) \/ t \in cleaning
           /\ t \in cleaning => pc[t] = "dead" /\ ~OccursIn(t, dpc_list)

\* The inductive invariant: with it thread_resched() finds a thread to run, and
\* every thread is in the queue that its state says.
KernelInv ==
  /\ TypeOK /\ RunQueuesExact /\ WaitQueuesExact /\ OneRunning
  /\ TimersOwned /\ CallsConsistent

\* Once a waiter is woken, what wait_queue_block() will return to it is settled:
\* a timer that fires before the thread runs does not turn NO_ERROR into
\* ERR_TIMED_OUT, which would lose the signal or the mutex handed to it.
WakeReasonSettled ==
  [][\A t \in Threads :
       pc[t] \in {"mutex_acquire", "mutex_acquire_timeout", "event_wait",
                  "event_wait_timeout", "dpc_event_wait"} /\ state[t] # "BLOCKED"
       => block_ret'[t] = block_ret[t]]_vars

\* thread_resched() switches to a thread of the highest priority that is READY.
DispatchesHighest ==
  [][current' # current =>
       \A t \in Threads : state'[t] = "READY" => priority[t] <= priority[current']]_vars

-----------------------------------------------------------------------------
(* Fairness.  Kernel code that gets the CPU again and again is executed,   *)
(* as timer interrupts come 10 ms apart; a pending timer interrupt is      *)
(* delivered once interrupts are on, and its handler runs to the end.      *)
(* Nothing is assumed of the calls that workers choose to make.            *)

Fairness == SF_vars(KernelStep) /\ SF_vars(arm_irq) /\ WF_vars(IrqStep)

FairSpec == Spec /\ Fairness

\* A thread that exited is freed: thread_exit() did wake the dpc thread.
DeadThreadsFreed == \A t \in Threads : state[t] = "DEATH" ~> state[t] = "NONE"

\* Workers of one priority share the CPU: a READY thread gets to run although
\* wakers and thread_resume() put others in front of it.
NoStarvation == \A t \in Workers : state[t] = "READY" ~> state[t] # "READY"

=============================================================================
