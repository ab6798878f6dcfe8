----------------------------- MODULE SyncProofs -----------------------------
(***************************************************************************)
(* What the mutexes, events, timers and the dpc list promise, proved on    *)
(* top of KernelInv (module KernelProofs).                                 *)
(*                                                                         *)
(* Nothing here depends on which of the READY threads runs, so the first   *)
(* part replaces the steps of the kernel by their effects: what a step     *)
(* does to the states (READY and RUNNING taken as one), the calls and the  *)
(* queues.  StepEffects says that every step has one of these effects, and *)
(* each of the invariants is then shown to survive each of the effects.    *)
(***************************************************************************)
EXTENDS KernelProofs, FiniteSetTheorems

EventPCs == {"event_wait", "event_wait_timeout", "dpc_event_wait"}
WaitPCs  == MutexPCs \cup EventPCs

\* Where a thread is outside of waits, loops and the cleanup of a thread.
MovePCs == PCs \ (WaitPCs \cup LoopPCs \cup
                  {"dead", "initial_thread_func", "thread_cleanup_dpc"})

Runs(x) == x \in {"READY", "RUNNING"}

\* Only the threads of S change their state, apart from who runs.
KeepStates(S) ==
  \A u \in Threads \ S : state'[u] = state[u] \/ (Runs(state[u]) /\ Runs(state'[u]))

Go(p, o) == /\ pc' = [pc EXCEPT ![current] = p]
            /\ obj' = [obj EXCEPT ![current] = o]
KeepCalls == pc' = pc /\ obj' = obj
KeepWaits == wait' = wait /\ block_ret' = block_ret
KeepTimers == timer_queue' = timer_queue /\ left' = left /\ callback' = callback
KeepMutexes == count' = count /\ holder' = holder /\ owned' = owned /\ destroyed' = destroyed
KeepEvents == signalled' = signalled /\ autounsignal' = autounsignal
KeepDpcs == dpc_list' = dpc_list

-----------------------------------------------------------------------------
(* The effects.                                                            *)

\* Interrupts come and go; SetPriority, and steps that change nothing.
Interrupt ==
  /\ KeepStates({}) /\ KeepCalls /\ KeepWaits /\ KeepMutexes /\ KeepEvents /\ KeepDpcs
  /\ current' = current \/ pc[current] \notin LoopPCs
  /\ timer_queue' = timer_queue /\ callback' = callback
  /\ left' = left \/ left' = [t \in Threads |-> IF left[t] > 0 THEN left[t] - 1 ELSE 0]

\* A call returns, or goes on outside of waits and loops.
Move ==
  /\ pc[current] \in MovePCs \cup {"initial_thread_func"}
  /\ KeepStates({})
  /\ \E p \in MovePCs, o \in Threads \cup {NoObject} : Go(p, o)
  /\ KeepWaits /\ KeepTimers /\ KeepMutexes /\ KeepEvents /\ KeepDpcs

\* The end of a wake loop, or of thread_exit().
LoopEnd ==
  /\ pc[current] \in LoopPCs
  /\ \/ pc[current] = "exit_resched"
     \/ pc[current] = "exit_signal" /\ wait[DpcEvent] = <<>>
     \/ pc[current] # "exit_signal" /\ wait[obj[current]] = <<>>
  /\ KeepStates({})
  /\ Go(CASE pc[current] \in {"exit_signal", "exit_resched"} -> "dead"
          [] pc[current] = "signal_all_noresched" -> "user"
          [] OTHER -> "wake_return", NoObject)
  /\ KeepWaits /\ KeepTimers /\ KeepMutexes /\ KeepEvents /\ KeepDpcs

\* thread_resume() of a new thread.
Resume ==
  /\ pc[current] \in ResumePCs
  /\ obj[current] \in Threads /\ state[obj[current]] = "SUSPENDED"
  /\ Runs(state'[obj[current]]) /\ KeepStates({obj[current]})
  /\ \E p \in MovePCs : Go(p, NoObject)
  /\ KeepWaits /\ KeepTimers /\ KeepMutexes /\ KeepEvents /\ KeepDpcs

Create ==
  \E t \in Threads, p \in ResumePCs :
    /\ pc[current] \in MovePCs /\ state[t] = "NONE"
    /\ state' = [state EXCEPT ![t] = "SUSPENDED"] /\ current' = current
    /\ pc' = [pc EXCEPT ![t] = "initial_thread_func", ![current] = p]
    /\ obj' = [obj EXCEPT ![current] = t]
    /\ wait' = wait /\ block_ret' = [block_ret EXCEPT ![t] = NO_ERROR]
    /\ KeepTimers /\ KeepMutexes /\ KeepEvents /\ KeepDpcs

Sleep ==
  /\ pc[current] = "user"
  /\ state'[current] = "SLEEPING" /\ KeepStates({current})
  /\ Go("switch_return", NoObject)
  /\ \E d \in 1 .. MaxDelay : timer_set_oneshot(current, d, "thread_sleep_handler")
  /\ KeepWaits /\ KeepMutexes /\ KeepEvents /\ KeepDpcs

\* The current thread blocks on o in the call p.
BlockOn(o, p) ==
  /\ o \notin destroyed
  /\ state'[current] = "BLOCKED" /\ KeepStates({current})
  /\ Go(p, o)
  /\ wait' = [wait EXCEPT ![o] = Append(@, current)]
  /\ block_ret' = [block_ret EXCEPT ![current] = NO_ERROR]
  /\ \/ p \notin TimedPCs /\ KeepTimers
     \/ p \in TimedPCs /\ \E d \in 1 .. MaxDelay :
          timer_set_oneshot(current, d, "wait_queue_timeout_handler")
  /\ KeepDpcs

MutexBlock ==
  \E m \in Mutexes, p \in MutexPCs :
    /\ pc[current] = "user" /\ holder[m] # current /\ count[m] >= 1
    /\ p = "mutex_acquire_timeout" => MutexTimeouts # {}
    /\ BlockOn(m, p)
    /\ count' = [count EXCEPT ![m] = @ + 1]
    /\ holder' = holder /\ owned' = owned /\ destroyed' = destroyed
    /\ KeepEvents

EventBlock ==
  \E e \in AllEvents, p \in EventPCs :
    /\ pc[current] \in {"user", "dpc_wait"} /\ ~signalled[e]
    /\ p = "event_wait_timeout" => EventTimeouts # {}
    /\ BlockOn(e, p)
    /\ KeepMutexes /\ KeepEvents

\* The waiter t of o is woken with ret, and list remains.
Woken(o, t, list, ret) ==
  /\ t \in Threads /\ OccursIn(t, wait[o]) /\ state[t] = "BLOCKED" /\ obj[t] = o
  /\ Runs(state'[t]) /\ KeepStates({t})
  /\ wait' = [wait EXCEPT ![o] = list]
  /\ block_ret' = [block_ret EXCEPT ![t] = ret]

MutexHandOver ==
  \E m \in Mutexes :
    /\ pc[current] = "user" /\ m \in owned[current] /\ m \notin destroyed
    /\ wait[m] # <<>>
    /\ Woken(m, Head(wait[m]), Tail(wait[m]), NO_ERROR)
    /\ Go("wake_return", NoObject)
    /\ holder' = [holder EXCEPT ![m] = NoThread]
    /\ count' = [count EXCEPT ![m] = @ - 1]
    /\ owned' = [owned EXCEPT ![current] = @ \ {m}]
    /\ destroyed' = destroyed
    /\ KeepTimers /\ KeepEvents /\ KeepDpcs

EventHandOver ==
  \E e \in Events :
    /\ pc[current] = "user" /\ ~signalled[e] /\ wait[e] # <<>>
    /\ Woken(e, Head(wait[e]), Tail(wait[e]), NO_ERROR)
    /\ Go("wake_return", NoObject) \/ (KeepCalls /\ current' = current)
    /\ KeepTimers /\ KeepMutexes /\ KeepEvents /\ KeepDpcs

\* One turn of a wake loop.
WakeTurn ==
  LET o == obj[current] IN
  /\ pc[current] \in WakeLoops /\ o \in Queues /\ wait[o] # <<>>
  /\ Woken(o, Head(wait[o]), Tail(wait[o]), WakeRet(pc[current]))
  /\ current' = current
  /\ KeepCalls /\ KeepTimers /\ KeepMutexes /\ KeepEvents /\ KeepDpcs

\* A timer is due: a sleeper wakes up, a wait times out, or neither.
TimerFires ==
  LET t == Head(timer_queue) IN
  /\ timer_queue # <<>> /\ t \in Threads /\ left[t] = 0
  /\ pc[current] \notin LoopPCs /\ current' = current
  /\ timer_queue' = Tail(timer_queue) /\ left' = left
  /\ callback' = [callback EXCEPT ![t] = "none"]
  /\ \/ /\ state[t] = "SLEEPING"
        /\ Runs(state'[t]) /\ KeepStates({t}) /\ KeepWaits
     \/ /\ pc[t] \in TimedPCs /\ callback[t] = "wait_queue_timeout_handler"
        /\ Woken(obj[t], t, Without(wait[obj[t]], t), ERR_TIMED_OUT)
     \/ /\ pc[t] \in TimedPCs /\ state[t] # "BLOCKED"
        /\ KeepStates({}) /\ KeepWaits
  /\ KeepCalls /\ KeepMutexes /\ KeepEvents /\ KeepDpcs

\* The current thread enters the wake loop p of o.
LoopBegin(o, p) ==
  /\ pc[current] = "user" /\ current' = current
  /\ KeepStates({}) /\ Go(p, o)
  /\ KeepWaits /\ KeepTimers /\ KeepDpcs

MutexDestroy ==
  \E m \in Mutexes, p \in {"destroy_all", "signal_all_noresched"} :
    /\ LoopBegin(m, p)
    /\ count' = [count EXCEPT ![m] = 0] /\ destroyed' = destroyed \cup {m}
    /\ holder' = holder /\ owned' = owned
    /\ KeepEvents

EventDestroy ==
  \E e \in Events, p \in {"destroy_all", "signal_all_noresched"} :
    /\ LoopBegin(e, p)
    /\ signalled' = [signalled EXCEPT ![e] = FALSE]
    /\ autounsignal' = [autounsignal EXCEPT ![e] = FALSE]
    /\ destroyed' = destroyed \cup {e}
    /\ count' = count /\ holder' = holder /\ owned' = owned

EventSignalAll ==
  \E e \in Events, p \in {"signal_all", "signal_all_noresched"} :
    /\ LoopBegin(e, p)
    /\ signalled' = [signalled EXCEPT ![e] = TRUE] /\ autounsignal' = autounsignal
    /\ KeepMutexes

\* An event changes and wakes nobody.
EventSet ==
  \E e \in Events, b \in BOOLEAN :
    /\ b => signalled[e] \/ wait[e] = <<>>
    /\ KeepStates({}) /\ KeepCalls /\ current' = current
    /\ signalled' = [signalled EXCEPT ![e] = b] /\ autounsignal' = autounsignal
    /\ KeepWaits /\ KeepTimers /\ KeepMutexes /\ KeepDpcs

EventInit ==
  \E e \in Events, b \in BOOLEAN, f \in BOOLEAN :
    /\ pc[current] = "user" /\ e \in destroyed /\ Quiescent(e)
    /\ KeepStates({}) /\ KeepCalls /\ current' = current
    /\ signalled' = [signalled EXCEPT ![e] = b]
    /\ autounsignal' = [autounsignal EXCEPT ![e] = f]
    /\ wait' = [wait EXCEPT ![e] = <<>>] /\ block_ret' = block_ret
    /\ destroyed' = destroyed \ {e}
    /\ count' = count /\ holder' = holder /\ owned' = owned
    /\ KeepTimers /\ KeepDpcs

MutexInit ==
  \E m \in Mutexes :
    /\ pc[current] = "user" /\ m \in destroyed /\ Quiescent(m)
    /\ KeepStates({}) /\ KeepCalls /\ current' = current
    /\ count' = [count EXCEPT ![m] = 0] /\ holder' = [holder EXCEPT ![m] = NoThread]
    /\ owned' = [t \in Threads |-> owned[t] \ {m}] /\ destroyed' = destroyed \ {m}
    /\ wait' = [wait EXCEPT ![m] = <<>>] /\ block_ret' = block_ret
    /\ KeepTimers /\ KeepEvents /\ KeepDpcs

MutexTake ==
  \E m \in Mutexes :
    /\ pc[current] = "user" /\ m \notin destroyed /\ count[m] <= 0
    /\ KeepStates({}) /\ KeepCalls /\ current' = current
    /\ count' = [count EXCEPT ![m] = @ + 1] /\ holder' = [holder EXCEPT ![m] = current]
    /\ owned' = [owned EXCEPT ![current] = @ \cup {m}] /\ destroyed' = destroyed
    /\ KeepWaits /\ KeepTimers /\ KeepEvents /\ KeepDpcs

\* mutex_release() that wakes nobody.
MutexGive ==
  \E m \in Mutexes :
    /\ pc[current] = "user" /\ m \notin destroyed /\ m \in owned[current]
    /\ count[m] <= 1 \/ wait[m] = <<>>
    /\ KeepStates({}) /\ KeepCalls /\ current' = current
    /\ count' = [count EXCEPT ![m] = @ - 1] /\ holder' = [holder EXCEPT ![m] = NoThread]
    /\ owned' = [owned EXCEPT ![current] = @ \ {m}] /\ destroyed' = destroyed
    /\ KeepWaits /\ KeepTimers /\ KeepEvents /\ KeepDpcs

\* The acquire functions return from their wait.
MutexReturn ==
  LET m == obj[current] IN
  /\ pc[current] \in MutexPCs /\ m \in Mutexes
  /\ KeepStates({}) /\ Go("user", NoObject) /\ current' = current
  /\ \/ /\ block_ret[current] = NO_ERROR
        /\ holder' = [holder EXCEPT ![m] = current]
        /\ owned' = [owned EXCEPT ![current] = @ \cup {m}] /\ count' = count
     \/ /\ block_ret[current] = ERR_TIMED_OUT /\ pc[current] = "mutex_acquire_timeout"
        /\ count' = [count EXCEPT ![m] = @ - 1] /\ holder' = holder /\ owned' = owned
     \/ /\ block_ret[current] = ERR_TIMED_OUT /\ pc[current] = "mutex_acquire"
        /\ count' = count /\ holder' = holder /\ owned' = owned
     \/ /\ block_ret[current] = ERR_OBJECT_DESTROYED
        /\ holder' = holder \/ holder' = [holder EXCEPT ![m] = current]
        /\ count' = count /\ owned' = owned
  /\ \/ pc[current] \notin TimedPCs /\ KeepTimers
     \/ pc[current] \in TimedPCs /\ timer_cancel(current)
  /\ destroyed' = destroyed
  /\ KeepWaits /\ KeepEvents /\ KeepDpcs

EventReturn ==
  /\ pc[current] \in EventPCs /\ current' = current
  /\ KeepStates({})
  /\ Go(IF pc[current] = "dpc_event_wait" THEN "dpc_pop" ELSE "user", NoObject)
  /\ \/ pc[current] \notin TimedPCs /\ KeepTimers
     \/ pc[current] \in TimedPCs /\ timer_cancel(current)
  /\ KeepWaits /\ KeepMutexes /\ KeepEvents /\ KeepDpcs

Exit ==
  /\ pc[current] = "user" /\ current' = current
  /\ state' = [state EXCEPT ![current] = "DEATH"]
  /\ Go(IF signalled[DpcEvent] THEN "exit_resched" ELSE "exit_signal", DpcEvent)
  /\ dpc_list' = Append(dpc_list, current)
  /\ signalled' = [signalled EXCEPT ![DpcEvent] = TRUE] /\ autounsignal' = autounsignal
  /\ KeepWaits /\ KeepTimers /\ KeepMutexes

\* The dpc thread: a signalled event, an empty list, a dead thread to clean up,
\* and its cleanup.
DpcThrough ==
  /\ pc[current] = "dpc_wait" /\ current' = current /\ signalled[DpcEvent]
  /\ KeepStates({}) /\ Go("dpc_pop", NoObject)
  /\ signalled' = [signalled EXCEPT ![DpcEvent] = ~autounsignal[DpcEvent]]
  /\ autounsignal' = autounsignal
  /\ KeepWaits /\ KeepTimers /\ KeepMutexes /\ KeepDpcs

DpcNone ==
  /\ pc[current] = "dpc_pop" /\ current' = current /\ dpc_list = <<>>
  /\ KeepStates({}) /\ Go("dpc_wait", NoObject)
  /\ signalled' = [signalled EXCEPT ![DpcEvent] = FALSE] /\ autounsignal' = autounsignal
  /\ KeepWaits /\ KeepTimers /\ KeepMutexes /\ KeepDpcs

DpcTake ==
  /\ pc[current] = "dpc_pop" /\ current' = current /\ dpc_list # <<>>
  /\ KeepStates({}) /\ Go("thread_cleanup_dpc", Head(dpc_list))
  /\ dpc_list' = Tail(dpc_list)
  /\ KeepWaits /\ KeepTimers /\ KeepMutexes /\ KeepEvents

Cleanup ==
  /\ pc[current] = "thread_cleanup_dpc" /\ current' = current
  /\ obj[current] \in Threads /\ state[obj[current]] = "DEATH"
  /\ state' = [state EXCEPT ![obj[current]] = "NONE"] /\ Go("dpc_wait", NoObject)
  /\ wait' = wait /\ block_ret' = [block_ret EXCEPT ![obj[current]] = NO_ERROR]
  /\ KeepTimers /\ KeepMutexes /\ KeepEvents /\ KeepDpcs

Effect ==
  \/ Interrupt \/ Move \/ LoopEnd \/ Resume \/ Create \/ Sleep
  \/ MutexBlock \/ EventBlock \/ MutexHandOver \/ EventHandOver \/ WakeTurn \/ TimerFires
  \/ MutexDestroy \/ EventDestroy \/ EventSignalAll \/ EventSet \/ EventInit \/ MutexInit
  \/ MutexTake \/ MutexGive \/ MutexReturn \/ EventReturn
  \/ Exit \/ DpcThrough \/ DpcNone \/ DpcTake \/ Cleanup

-----------------------------------------------------------------------------
(* Every step has one of the effects.  First the calls that end in         *)
(* thread_resched(): it changes no state but those of the threads that     *)
(* stop and go on running.                                                 *)

\* thread_resched() changes no state but between READY and RUNNING.
LEMMA ReschedKeeps ==
  ASSUME KernelInv, NEW rq \in RunQueues, NEW bm \in SUBSET Priorities,
         NEW st \in StateFunctions, NEW q \in [Threads -> 0 .. QUANTUM], NEW c \in Int,
         RunQueuesMatch(rq, bm, st, priority), thread_resched(rq, bm, st, q, c)
  PROVE  /\ current' \in Threads
         /\ \A u \in Threads : state'[u] = st[u] \/ (Runs(st[u]) /\ Runs(state'[u]))
<1>1. /\ current' \in Threads /\ st[current'] = "READY"
      /\ state' = [st EXCEPT ![current'] = "RUNNING"]
  BY ReschedFacts DEF KernelInv
<1> QED BY <1>1 DEF Runs, StateFunctions

\* A thread that is running stops with state x, which is not READY.
LEMMA StopKeeps ==
  ASSUME KernelInv, pc[current] \notin LoopPCs, NEW x \in {"BLOCKED", "SLEEPING"},
         NEW c \in Int,
         thread_resched(run_queue, run_queue_bitmap, [state EXCEPT ![current] = x],
                        quantum, c)
  PROVE  state'[current] = x /\ KeepStates({current})
<1>1. /\ SchedTypes /\ OtherTypes /\ state[current] = "RUNNING"
      /\ RunQueuesMatch(run_queue, run_queue_bitmap, state, priority)
  BY CurrentFacts
<1> DEFINE st == [state EXCEPT ![current] = x]
<1>2. /\ st \in StateFunctions /\ st[current] = x /\ current \in Threads
      /\ \A u \in Threads : u # current => st[u] = state[u]
  BY <1>1 DEF SchedTypes, StateFunctions, ThreadStates
<1>3. RunQueuesMatch(run_queue, run_queue_bitmap, st, priority)
  BY <1>1, RunQueuesOtherState DEF SchedTypes
<1> HIDE DEF st
<1>4. \A u \in Threads : state'[u] = st[u] \/ (Runs(st[u]) /\ Runs(state'[u]))
  BY <1>1, <1>2, <1>3, ReschedKeeps DEF SchedTypes, st
<1> QED BY <1>2, <1>4 DEF KeepStates, Runs

\* A thread that is running goes back to a run queue, where the states st differ
\* from the present ones only for threads that start to run.
LEMMA YieldKeeps ==
  ASSUME KernelInv, pc[current] \notin LoopPCs,
         NEW rq \in RunQueues, NEW bm \in SUBSET Priorities, NEW st \in StateFunctions,
         RunQueuesMatch(rq, bm, st, priority), st[current] = "RUNNING",
         NEW q \in [Threads -> 0 .. QUANTUM], NEW c \in Int,
         LET bm1 == bm \cup {priority[current]}
             st1 == [st EXCEPT ![current] = "READY"]
         IN  \/ thread_resched(insert_in_run_queue_head(rq, current), bm1, st1, q, c)
             \/ thread_resched(insert_in_run_queue_tail(rq, current), bm1, st1, q, c)
  PROVE  \A u \in Threads : state'[u] = st[u] \/ (Runs(st[u]) /\ Runs(state'[u]))
<1>1. SchedTypes /\ OtherTypes
  BY CurrentFacts
<1> DEFINE st1 == [st EXCEPT ![current] = "READY"]
           bm1 == bm \cup {priority[current]}
           rh == insert_in_run_queue_head(rq, current)
           rt == insert_in_run_queue_tail(rq, current)
<1>2. current \in Threads /\ priority \in [Threads -> Priorities]
  BY <1>1 DEF SchedTypes, OtherTypes
<1>3. /\ rh \in RunQueues /\ rt \in RunQueues
      /\ RunQueuesMatch(rh, bm1, st1, priority) /\ RunQueuesMatch(rt, bm1, st1, priority)
      /\ st1 \in StateFunctions /\ bm1 \in SUBSET Priorities
  BY <1>2, InsertInRunQueue
<1>4. st1[current] = "READY" /\ \A u \in Threads : u # current => st1[u] = st[u]
  BY <1>2 DEF StateFunctions
<1>5. thread_resched(rh, bm1, st1, q, c) \/ thread_resched(rt, bm1, st1, q, c)
  OBVIOUS
<1> HIDE DEF st1, bm1, rh, rt
<1>6. \A u \in Threads : state'[u] = st1[u] \/ (Runs(st1[u]) /\ Runs(state'[u]))
  BY <1>3, <1>5, ReschedKeeps
<1> QED BY <1>2, <1>4, <1>6 DEF Runs

\* wait_queue_block().
LEMMA BlockEffect ==
  ASSUME KernelInv, pc[current] \notin LoopPCs, NEW o \in Queues \ destroyed,
         NEW timeout, NEW p, wait_queue_block(o, timeout), InCall(p, o), KeepDpcs,
         \/ timeout = INFINITE_TIME /\ p \notin TimedPCs
         \/ timeout \in 1 .. MaxDelay /\ p \in TimedPCs
  PROVE  BlockOn(o, p)
<1>1. SchedTypes
  BY CurrentFacts
<1>2. /\ wait' = [wait EXCEPT ![o] = Append(@, current)]
      /\ block_ret' = [block_ret EXCEPT ![current] = NO_ERROR]
      /\ thread_resched(run_queue, run_queue_bitmap,
                        [state EXCEPT ![current] = "BLOCKED"], quantum, crit + 2)
  BY DEF wait_queue_block
<1>3. state'[current] = "BLOCKED" /\ KeepStates({current})
  <2>1. crit + 2 \in Int
    BY <1>1 DEF SchedTypes
  <2> QED BY <1>2, <2>1, StopKeeps
<1>4. \/ p \notin TimedPCs /\ KeepTimers
      \/ p \in TimedPCs /\ \E d \in 1 .. MaxDelay :
           timer_set_oneshot(current, d, "wait_queue_timeout_handler")
  BY DEF wait_queue_block, INFINITE_TIME, timerVars, KeepTimers
<1> QED BY <1>2, <1>3, <1>4 DEF BlockOn, Go, InCall

\* wait_queue_wake_one() with a reschedule.
LEMMA WakeOneEffect ==
  ASSUME KernelInv, pc[current] \notin LoopPCs, NEW o \in Queues, NEW ret,
         wait[o] # <<>>, wait_queue_wake_one_resched(o, ret)
  PROVE  Woken(o, Head(wait[o]), Tail(wait[o]), ret)
<1> DEFINE t == Head(wait[o])
           st == [state EXCEPT ![t] = "READY"]
           rq == insert_in_run_queue_head(run_queue, t)
           bm == run_queue_bitmap \cup {priority[t]}
<1>1. /\ SchedTypes /\ OtherTypes /\ state[current] = "RUNNING"
      /\ RunQueuesMatch(run_queue, run_queue_bitmap, state, priority)
      /\ \A u \in Threads : state[u] = "RUNNING" => u = current
  BY CurrentFacts
<1>2. t \in Threads /\ OccursIn(t, wait[o]) /\ state[t] = "BLOCKED" /\ obj[t] = o
  BY FirstWaiter DEF KernelInv, CallsConsistent
<1>3. /\ current \in Threads /\ state \in StateFunctions /\ current # t
      /\ run_queue \in RunQueues /\ run_queue_bitmap \in SUBSET Priorities
      /\ priority \in [Threads -> Priorities]
      /\ quantum \in [Threads -> 0 .. QUANTUM] /\ crit + 1 \in Int
  BY <1>1, <1>2 DEF SchedTypes, OtherTypes
<1> DEFINE rq0 == insert_in_run_queue_head(run_queue, current)
           bm0 == run_queue_bitmap \cup {priority[current]}
           st0 == [state EXCEPT ![current] = "READY"]
           rq1 == insert_in_run_queue_head(rq0, t)
           bm1 == bm0 \cup {priority[t]}
           st1 == [st0 EXCEPT ![t] = "READY"]
<1>4. /\ rq0 \in RunQueues /\ RunQueuesMatch(rq0, bm0, st0, priority)
      /\ st0 \in StateFunctions /\ bm0 \in SUBSET Priorities
  BY <1>1, <1>3, InsertInRunQueue
<1>5. /\ \A u \in Threads : u # current => st0[u] = state[u]
      /\ st0[current] = "READY"
  BY <1>3 DEF StateFunctions
<1>6. /\ rq1 \in RunQueues /\ RunQueuesMatch(rq1, bm1, st1, priority)
      /\ st1 \in StateFunctions /\ bm1 \in SUBSET Priorities
  <2> HIDE DEF rq0, bm0, st0
  <2> QED BY <1>2, <1>3, <1>4, <1>5, InsertInRunQueue
<1>7. /\ st1[t] = "READY" /\ st1[current] = "READY"
      /\ \A u \in Threads : u # current /\ u # t => st1[u] = state[u]
  BY <1>2, <1>3 DEF StateFunctions
<1>8. bm1 = run_queue_bitmap \cup {priority[current], priority[t]}
  OBVIOUS
<1>9. /\ thread_resched(rq1, bm1, st1, quantum, crit + 1)
      /\ wait' = [wait EXCEPT ![o] = Tail(wait[o])]
      /\ block_ret' = [block_ret EXCEPT ![t] = ret]
  BY <1>8 DEF wait_queue_wake_one_resched, Unlink
<1> HIDE DEF rq1, bm1, st1, rq0, bm0, st0, t
<1>10. \A u \in Threads : state'[u] = st1[u] \/ (Runs(st1[u]) /\ Runs(state'[u]))
  BY <1>3, <1>6, <1>9, ReschedKeeps
<1>11. Runs(state'[t]) /\ KeepStates({t})
  BY <1>1, <1>2, <1>3, <1>7, <1>10 DEF Runs, KeepStates
<1> QED BY <1>2, <1>9, <1>11 DEF Woken, t

\* A waiter is made READY without a reschedule.
LEMMA MakeReadyEffect ==
  ASSUME KernelInv, NEW o \in Queues, NEW t \in Threads, NEW list, NEW ret,
         OccursIn(t, wait[o]), MakeReady(o, list, t, ret)
  PROVE  Woken(o, t, list, ret)
<1>1. state[t] = "BLOCKED" /\ obj[t] = o /\ state \in StateFunctions
  BY DEF KernelInv, WaitQueuesExact, WaitQueuesMatch, CallsConsistent, TypeOK, StateFunctions
<1>2. /\ state' = [state EXCEPT ![t] = "READY"]
      /\ wait' = [wait EXCEPT ![o] = list]
      /\ block_ret' = [block_ret EXCEPT ![t] = ret]
  BY DEF MakeReady, Unlink
<1>3. Runs(state'[t]) /\ KeepStates({t})
  BY <1>1, <1>2 DEF StateFunctions, Runs, KeepStates
<1> QED BY <1>1, <1>2, <1>3 DEF Woken

\* wait_queue_wake_all() up to its loop.
LEMMA LoopBeginEffect ==
  ASSUME KernelInv, pc[current] = "user", NEW o, NEW p,
         wait_queue_wake_all_begin(o, p), KeepWaits, KeepTimers, KeepDpcs
  PROVE  LoopBegin(o, p) \/ LoopBegin(o, "signal_all_noresched")
<1>0. "user" \notin LoopPCs
  BY DEF LoopPCs, WakeLoops
<1>1. SchedTypes /\ state[current] = "RUNNING"
  BY <1>0, CurrentFacts
<1>2. /\ current' = current
      /\ state' = state \/ state' = [state EXCEPT ![current] = "READY"]
      /\ InCall(p, o) \/ InCall("signal_all_noresched", o)
  BY DEF wait_queue_wake_all_begin
<1>3. KeepStates({})
  BY <1>1, <1>2 DEF KeepStates, Runs, SchedTypes, StateFunctions
<1> QED BY <1>2, <1>3 DEF LoopBegin, InCall, Go

\* The tuples of variables, taken apart.
LEMMA KeepAll ==
  /\ UNCHANGED waitVars => KeepWaits
  /\ UNCHANGED timerVars => KeepTimers
  /\ UNCHANGED <<mutexVars, destroyed>> => KeepMutexes
  /\ UNCHANGED eventVars => KeepEvents
  /\ UNCHANGED syncVars => KeepMutexes /\ KeepEvents
  /\ UNCHANGED dpc_list => KeepDpcs
  /\ UNCHANGED callVars => KeepCalls
  /\ UNCHANGED schedVars => current' = current /\ KeepStates({})
  /\ UNCHANGED state => KeepStates({})
  /\ \A p, o : InCall(p, o) => Go(p, o)
BY DEF waitVars, timerVars, mutexVars, eventVars, syncVars, callVars, schedVars,
       KeepWaits, KeepTimers, KeepMutexes, KeepEvents, KeepDpcs, KeepCalls, KeepStates,
       InCall, Go

\* Calls on a mutex.
LEMMA MutexEffects ==
  ASSUME KernelInv, NEW m \in Mutexes, UNCHANGED <<eventVars, dpc_list>>,
         \/ mutex_acquire_free(m) \/ mutex_acquire(m)
         \/ mutex_acquire_timeout(m) \/ mutex_release(m)
         \/ mutex_destroy(m) \/ (Quiescent(m) /\ mutex_init(m))
  PROVE  Effect
<1>0. /\ pc[current] = "user" /\ "user" \notin LoopPCs /\ m \in Queues
      /\ KeepEvents /\ KeepDpcs
  BY KeepAll DEF mutex_acquire_free, mutex_acquire, mutex_acquire_timeout, mutex_release,
         mutex_destroy, mutex_init, mutex_acquire_block, Calls, LoopPCs, WakeLoops, Queues
<1>t. count[m] \in Int
  BY DEF KernelInv, TypeOK
<1>1. CASE mutex_acquire_free(m)
  <2>1. /\ KeepStates({}) /\ KeepCalls /\ current' = current /\ KeepWaits /\ KeepTimers
        /\ m \notin destroyed /\ count[m] <= 0
        /\ count' = [count EXCEPT ![m] = @ + 1]
        /\ holder' = [holder EXCEPT ![m] = current]
        /\ owned' = [owned EXCEPT ![current] = @ \cup {m}] /\ destroyed' = destroyed
    BY <1>1, <1>t, KeepAll DEF mutex_acquire_free
  <2> QED BY <2>1, <1>0 DEF Effect, MutexTake
<1>2. ASSUME NEW timeout, NEW p \in MutexPCs, mutex_acquire_block(m, timeout, p),
             \/ timeout = INFINITE_TIME /\ p = "mutex_acquire"
             \/ timeout \in 1 .. MaxDelay /\ p = "mutex_acquire_timeout"
                /\ MutexTimeouts # {}
      PROVE  Effect
  <2>1. /\ m \notin destroyed /\ holder[m] # current /\ count[m] >= 1
        /\ wait_queue_block(m, timeout) /\ InCall(p, m)
        /\ count' = [count EXCEPT ![m] = @ + 1]
        /\ holder' = holder /\ owned' = owned /\ destroyed' = destroyed
    BY <1>2, <1>t DEF mutex_acquire_block
  <2>2. \/ timeout = INFINITE_TIME /\ p \notin TimedPCs
        \/ timeout \in 1 .. MaxDelay /\ p \in TimedPCs
    BY <1>2 DEF TimedPCs
  <2>3. BlockOn(m, p)
    BY <1>0, <2>1, <2>2, BlockEffect
  <2>4. p = "mutex_acquire_timeout" => MutexTimeouts # {}
    BY <1>2
  <2> QED BY <1>0, <2>1, <2>3, <2>4 DEF Effect, MutexBlock
<1>3. CASE mutex_acquire(m)
  BY <1>2, <1>3 DEF mutex_acquire, MutexPCs
<1>4. CASE mutex_acquire_timeout(m)
  <2>1. PICK timeout \in MutexTimeouts :
          mutex_acquire_block(m, timeout, "mutex_acquire_timeout")
    BY <1>4 DEF mutex_acquire_timeout
  <2>2. timeout \in 1 .. MaxDelay /\ "mutex_acquire_timeout" \in MutexPCs
    BY MutexAssumption DEF MutexPCs
  <2> QED BY <1>2, <2>1, <2>2
<1>5. CASE mutex_release(m)
  <2>1. /\ m \notin destroyed /\ m \in owned[current]
        /\ count' = [count EXCEPT ![m] = @ - 1]
        /\ holder' = [holder EXCEPT ![m] = NoThread]
        /\ owned' = [owned EXCEPT ![current] = @ \ {m}] /\ destroyed' = destroyed
        /\ KeepTimers
    BY <1>5, KeepAll DEF mutex_release
  <2>2. CASE count[m] - 1 >= 1 /\ wait[m] # <<>>
    <3>1. wait_queue_wake_one_resched(m, NO_ERROR) /\ InCall("wake_return", NoObject)
      BY <1>5, <2>2 DEF mutex_release
    <3>2. Woken(m, Head(wait[m]), Tail(wait[m]), NO_ERROR)
      BY <1>0, <2>2, <3>1, WakeOneEffect
    <3> QED BY <1>0, <2>1, <2>2, <3>1, <3>2, KeepAll DEF Effect, MutexHandOver
  <2>3. CASE ~(count[m] - 1 >= 1 /\ wait[m] # <<>>)
    <3>1. UNCHANGED <<schedVars, callVars, waitVars>>
      BY <1>5, <2>3 DEF mutex_release
    <3>2. current' = current /\ KeepStates({}) /\ KeepCalls /\ KeepWaits
      BY <3>1, KeepAll
    <3>3. count[m] <= 1 \/ wait[m] = <<>>
      BY <2>3, <1>t
    <3> QED BY <1>0, <2>1, <3>2, <3>3 DEF Effect, MutexGive
  <2> QED BY <2>2, <2>3
<1>6. CASE mutex_destroy(m)
  <2>1. /\ wait_queue_wake_all_begin(m, "destroy_all") /\ KeepWaits /\ KeepTimers
        /\ count' = [count EXCEPT ![m] = 0] /\ destroyed' = destroyed \cup {m}
        /\ holder' = holder /\ owned' = owned
    BY <1>6, KeepAll DEF mutex_destroy
  <2>2. LoopBegin(m, "destroy_all") \/ LoopBegin(m, "signal_all_noresched")
    BY <1>0, <2>1, LoopBeginEffect
  <2> QED BY <1>0, <2>1, <2>2 DEF Effect, MutexDestroy
<1>7. CASE Quiescent(m) /\ mutex_init(m)
  <2>1. /\ KeepStates({}) /\ KeepCalls /\ current' = current /\ KeepTimers
        /\ m \in destroyed /\ Quiescent(m)
        /\ count' = [count EXCEPT ![m] = 0] /\ holder' = [holder EXCEPT ![m] = NoThread]
        /\ owned' = [t \in Threads |-> owned[t] \ {m}] /\ destroyed' = destroyed \ {m}
        /\ wait' = [wait EXCEPT ![m] = <<>>] /\ block_ret' = block_ret
    BY <1>7, KeepAll DEF mutex_init
  <2> QED BY <2>1, <1>0 DEF Effect, MutexInit
<1> QED BY <1>1, <1>3, <1>4, <1>5, <1>6, <1>7

\* An event_wait_timeout() that blocks.
LEMMA EventBlockEffect ==
  ASSUME KernelInv, NEW e \in AllEvents, NEW timeout, NEW p \in EventPCs,
         event_wait_block(e, timeout, p), UNCHANGED dpc_list,
         pc[current] \in {"user", "dpc_wait"},
         \/ timeout = INFINITE_TIME /\ p # "event_wait_timeout"
         \/ timeout \in EventTimeouts /\ p = "event_wait_timeout"
  PROVE  Effect
<1>1. /\ e \notin destroyed /\ ~signalled[e]
      /\ wait_queue_block(e, timeout) /\ InCall(p, e)
      /\ KeepMutexes /\ KeepEvents /\ KeepDpcs
  BY KeepAll DEF event_wait_block
<1>2. \/ timeout = INFINITE_TIME /\ p \notin TimedPCs
      \/ timeout \in 1 .. MaxDelay /\ p \in TimedPCs
  BY EventAssumption DEF TimedPCs, EventPCs
<1>3. e \in Queues /\ pc[current] \notin LoopPCs
  BY DEF Queues, LoopPCs, WakeLoops
<1>4. BlockOn(e, p)
  BY <1>1, <1>2, <1>3, BlockEffect
<1>5. p = "event_wait_timeout" => EventTimeouts # {}
  OBVIOUS
<1> QED BY <1>1, <1>4, <1>5 DEF Effect, EventBlock

\* Calls on an event.
LEMMA EventEffects ==
  ASSUME KernelInv, NEW e \in Events, UNCHANGED dpc_list,
         \/ event_wait(e) \/ event_unsignal(e)
         \/ event_signal(e, TRUE) \/ event_signal(e, FALSE)
         \/ event_destroy(e) \/ (Quiescent(e) /\ event_init(e))
  PROVE  Effect
<1>0. /\ pc[current] = "user" /\ "user" \notin LoopPCs /\ e \in AllEvents /\ e \in Queues
      /\ KeepDpcs
  BY KeepAll DEF event_wait, event_unsignal, event_signal, event_destroy, event_init, Calls,
         LoopPCs, WakeLoops, AllEvents, Queues
<1>t. signalled[e] \in BOOLEAN /\ autounsignal[e] \in BOOLEAN
  BY <1>0 DEF KernelInv, TypeOK
<1>1. ASSUME NEW b \in BOOLEAN, b => signalled[e] \/ wait[e] = <<>>,
             UNCHANGED <<schedVars, callVars, waitVars, timerVars, mutexVars, destroyed,
                         autounsignal>>,
             signalled' = [signalled EXCEPT ![e] = b]
      PROVE  Effect
  <2>1. /\ KeepStates({}) /\ KeepCalls /\ current' = current
        /\ KeepWaits /\ KeepTimers /\ KeepMutexes /\ autounsignal' = autounsignal
    BY <1>1, KeepAll
  <2> QED BY <2>1, <1>0, <1>1 DEF Effect, EventSet
<1>2. CASE event_unsignal(e)
  BY <1>1, <1>2 DEF event_unsignal
<1>3. CASE event_wait(e)
  <2>1. CASE event_wait_through(e) /\ UNCHANGED callVars
    <3>1. (~autounsignal[e]) \in BOOLEAN
      BY <1>t, Zenon
    <3>2. /\ signalled[e] /\ signalled' = [signalled EXCEPT ![e] = ~autounsignal[e]]
          /\ UNCHANGED <<schedVars, callVars, waitVars, timerVars, mutexVars, destroyed,
                         autounsignal>>
      BY <2>1 DEF event_wait_through
    <3> QED BY <3>1, <3>2, <1>1
  <2>2. CASE event_wait_block(e, INFINITE_TIME, "event_wait")
    BY <1>0, <2>2, EventBlockEffect DEF EventPCs
  <2>3. ASSUME NEW timeout \in EventTimeouts, event_wait_block(e, timeout, "event_wait_timeout")
        PROVE  Effect
    BY <1>0, <2>3, EventBlockEffect DEF EventPCs
  <2> QED BY <2>1, <2>2, <2>3, <1>3 DEF event_wait
<1>4. CASE Quiescent(e) /\ event_init(e)
  <2>1. PICK b \in BOOLEAN, f \in AutoFlags :
          /\ signalled' = [signalled EXCEPT ![e] = b]
          /\ autounsignal' = [autounsignal EXCEPT ![e] = f]
    BY <1>4 DEF event_init
  <2>2. f \in BOOLEAN
    BY EventAssumption
  <2>3. /\ KeepStates({}) /\ KeepCalls /\ current' = current /\ KeepTimers
        /\ e \in destroyed /\ Quiescent(e) /\ destroyed' = destroyed \ {e}
        /\ wait' = [wait EXCEPT ![e] = <<>>] /\ block_ret' = block_ret
        /\ count' = count /\ holder' = holder /\ owned' = owned
    BY <1>4, KeepAll DEF event_init, mutexVars
  <2> QED BY <1>0, <2>1, <2>2, <2>3 DEF Effect, EventInit
<1>5. CASE event_destroy(e)
  <2>1. /\ wait_queue_wake_all_begin(e, "destroy_all") /\ KeepWaits /\ KeepTimers
        /\ signalled' = [signalled EXCEPT ![e] = FALSE]
        /\ autounsignal' = [autounsignal EXCEPT ![e] = FALSE]
        /\ destroyed' = destroyed \cup {e}
        /\ count' = count /\ holder' = holder /\ owned' = owned
    BY <1>5, KeepAll DEF event_destroy, mutexVars
  <2>2. LoopBegin(e, "destroy_all") \/ LoopBegin(e, "signal_all_noresched")
    BY <1>0, <2>1, LoopBeginEffect
  <2> QED BY <1>0, <2>1, <2>2 DEF Effect, EventDestroy
<1>6. ASSUME NEW r \in BOOLEAN, event_signal(e, r)
      PROVE  Effect
  <2>0. /\ ~signalled[e] /\ KeepTimers /\ KeepMutexes /\ autounsignal' = autounsignal
    BY <1>6, KeepAll DEF event_signal
  <2>1. CASE /\ wait[e] = <<>> /\ signalled' = [signalled EXCEPT ![e] = TRUE]
             /\ UNCHANGED <<schedVars, callVars, waitVars>>
    BY <2>1, <1>1, <1>6 DEF event_signal
  <2>2. CASE /\ wait[e] # <<>> /\ wait_queue_wake_one_resched(e, NO_ERROR)
             /\ InCall("wake_return", NoObject) /\ UNCHANGED signalled
    <3>1. Woken(e, Head(wait[e]), Tail(wait[e]), NO_ERROR)
      BY <1>0, <2>2, WakeOneEffect
    <3>2. Go("wake_return", NoObject) /\ KeepEvents
      BY <2>0, <2>2, KeepAll DEF KeepEvents
    <3> QED BY <1>0, <2>0, <2>2, <3>1, <3>2 DEF Effect, EventHandOver
  <2>3. CASE /\ wait[e] # <<>> /\ MakeReady(e, Tail(wait[e]), Head(wait[e]), NO_ERROR)
             /\ UNCHANGED <<current, callVars, signalled>>
    <3>1. Woken(e, Head(wait[e]), Tail(wait[e]), NO_ERROR)
      BY <1>0, <2>3, FirstWaiter, MakeReadyEffect
    <3>2. KeepCalls /\ KeepEvents /\ current' = current
      BY <2>0, <2>3, KeepAll DEF KeepEvents
    <3> QED BY <1>0, <2>0, <2>3, <3>1, <3>2 DEF Effect, EventHandOver
  <2>4. CASE /\ signalled' = [signalled EXCEPT ![e] = TRUE] /\ UNCHANGED waitVars
             /\ wait_queue_wake_all_begin(
                  e, IF r THEN "signal_all" ELSE "signal_all_noresched")
    <3>1. PICK p \in {"signal_all", "signal_all_noresched"} : wait_queue_wake_all_begin(e, p)
      BY <2>4
    <3>2. LoopBegin(e, p) \/ LoopBegin(e, "signal_all_noresched")
      BY <1>0, <2>0, <2>4, <3>1, KeepAll, LoopBeginEffect
    <3> QED BY <2>0, <2>4, <3>2 DEF Effect, EventSignalAll
  <2> QED BY <1>6, <2>1, <2>2, <2>3, <2>4 DEF event_signal
<1> QED BY <1>2, <1>3, <1>4, <1>5, <1>6

\* Returns from a wait.
LEMMA ReturnEffects ==
  ASSUME KernelInv, UNCHANGED dpc_list,
         \/ (mutex_acquire_return \/ mutex_acquire_timeout_return) /\ UNCHANGED eventVars
         \/ event_wait_returns
         \/ DpcWaitReturn
  PROVE  Effect
<1>t. /\ current \in Threads /\ block_ret[current] \in BlockReturns
      /\ pc[current] \in MutexPCs => obj[current] \in Mutexes
  BY DEF KernelInv, TypeOK, CallsConsistent, MutexPCs
<1>0. KeepDpcs
  BY DEF KeepDpcs
<1>1. CASE mutex_acquire_return /\ UNCHANGED eventVars
  <2>1. /\ pc[current] = "mutex_acquire" /\ InCall("user", NoObject)
        /\ UNCHANGED <<current, state, waitVars, timerVars, count, destroyed>>
        /\ IF block_ret[current] = NO_ERROR
             THEN /\ holder' = [holder EXCEPT ![obj[current]] = current]
                  /\ owned' = [owned EXCEPT ![current] = @ \cup {obj[current]}]
             ELSE UNCHANGED <<holder, owned>>
    BY <1>1 DEF mutex_acquire_return, Returns
  <2>2. /\ KeepStates({}) /\ Go("user", NoObject) /\ KeepWaits /\ KeepTimers /\ KeepEvents
        /\ current' = current /\ destroyed' = destroyed /\ count' = count
    BY <2>1, <1>1, KeepAll
  <2>3. pc[current] \in MutexPCs /\ pc[current] \notin TimedPCs /\ obj[current] \in Mutexes
    BY <2>1, <1>t DEF MutexPCs, TimedPCs
  <2>4. \/ /\ block_ret[current] = NO_ERROR
           /\ holder' = [holder EXCEPT ![obj[current]] = current]
           /\ owned' = [owned EXCEPT ![current] = @ \cup {obj[current]}]
        \/ /\ block_ret[current] \in {ERR_TIMED_OUT, ERR_OBJECT_DESTROYED}
           /\ holder' = holder /\ owned' = owned
    BY <2>1, <1>t DEF BlockReturns
  <2>5. MutexReturn
    BY <2>1, <2>2, <2>3, <2>4, <1>0 DEF MutexReturn
  <2> QED BY <2>5 DEF Effect
<1>2. CASE mutex_acquire_timeout_return /\ UNCHANGED eventVars
  <2>1. /\ pc[current] = "mutex_acquire_timeout" /\ InCall("user", NoObject)
        /\ timer_cancel(current)
        /\ UNCHANGED <<current, state, waitVars, destroyed>>
        /\ IF block_ret[current] = ERR_TIMED_OUT
             THEN /\ count' = [count EXCEPT ![obj[current]] = @ - 1]
                  /\ UNCHANGED <<holder, owned>>
             ELSE /\ holder' = [holder EXCEPT ![obj[current]] = current]
                  /\ owned' = IF block_ret[current] = NO_ERROR
                                THEN [owned EXCEPT ![current] = @ \cup {obj[current]}]
                                ELSE owned
                  /\ UNCHANGED count
    BY <1>2 DEF mutex_acquire_timeout_return, Returns
  <2>2. /\ KeepStates({}) /\ Go("user", NoObject) /\ KeepWaits /\ KeepEvents
        /\ current' = current /\ destroyed' = destroyed
    BY <2>1, <1>2, KeepAll
  <2>3. pc[current] \in MutexPCs /\ pc[current] \in TimedPCs /\ obj[current] \in Mutexes
    BY <2>1, <1>t DEF MutexPCs, TimedPCs
  <2>4. CASE block_ret[current] = ERR_TIMED_OUT
    <3>1. MutexReturn
      BY <2>1, <2>2, <2>3, <2>4, <1>0 DEF MutexReturn
    <3> QED BY <3>1 DEF Effect
  <2>5. CASE block_ret[current] = NO_ERROR
    <3>1. MutexReturn
      BY <2>1, <2>2, <2>3, <2>5, <1>0
         DEF MutexReturn, NO_ERROR, ERR_TIMED_OUT
    <3> QED BY <3>1 DEF Effect
  <2>6. CASE block_ret[current] = ERR_OBJECT_DESTROYED
    <3>1. MutexReturn
      BY <2>1, <2>2, <2>3, <2>6, <1>0
         DEF MutexReturn, NO_ERROR, ERR_TIMED_OUT, ERR_OBJECT_DESTROYED
    <3> QED BY <3>1 DEF Effect
  <2> QED BY <2>4, <2>5, <2>6, <1>t DEF BlockReturns
<1>3. CASE event_wait_returns \/ DpcWaitReturn
  <2>1. PICK p \in {"user", "dpc_pop"} :
          /\ event_wait_return(p)
          /\ \/ p = "user" /\ pc[current] = "event_wait" /\ UNCHANGED timerVars
             \/ p = "user" /\ pc[current] = "event_wait_timeout" /\ timer_cancel(current)
             \/ p = "dpc_pop" /\ pc[current] = "dpc_event_wait" /\ UNCHANGED timerVars
    BY <1>3 DEF event_wait_returns, DpcWaitReturn, Returns
  <2>2. /\ InCall(p, NoObject)
        /\ UNCHANGED <<current, state, waitVars, mutexVars, destroyed, eventVars>>
    BY <2>1 DEF event_wait_return
  <2>3. /\ KeepStates({}) /\ Go(p, NoObject) /\ KeepWaits /\ KeepEvents /\ KeepMutexes
        /\ current' = current
    BY <2>2, KeepAll
  <2>4. /\ pc[current] \in EventPCs
        /\ p = IF pc[current] = "dpc_event_wait" THEN "dpc_pop" ELSE "user"
        /\ \/ pc[current] \notin TimedPCs /\ KeepTimers
           \/ pc[current] \in TimedPCs /\ timer_cancel(current)
    BY <2>1, KeepAll DEF EventPCs, TimedPCs
  <2> QED BY <1>0, <2>3, <2>4 DEF Effect, EventReturn
<1> QED BY <1>1, <1>2, <1>3

\* Wake loops.
LEMMA LoopEffects ==
  ASSUME KernelInv,
         \/ /\ WakeAllStep \/ WakeAllResched \/ WakeAllDone
            /\ UNCHANGED <<syncVars, dpc_list>>
         \/ ExitResched
  PROVE  Effect
<1>0. irq[current] = "none" /\ KeepMutexes /\ KeepEvents /\ KeepDpcs
  BY KeepAll DEF WakeAllStep, WakeAllResched, WakeAllDone, ExitResched, Returns
<1>1. CASE WakeAllStep
  <2> DEFINE o == obj[current]
  <2>1. /\ pc[current] \in WakeLoops /\ wait[o] # <<>> /\ current' = current
        /\ MakeReady(o, Tail(wait[o]), Head(wait[o]), WakeRet(pc[current]))
        /\ KeepCalls /\ KeepTimers
    BY <1>1, KeepAll DEF WakeAllStep
  <2>2. o \in Queues
    BY <2>1 DEF KernelInv, CallsConsistent, TypeOK
  <2>3. Woken(o, Head(wait[o]), Tail(wait[o]), WakeRet(pc[current]))
    BY <2>1, <2>2, FirstWaiter, MakeReadyEffect
  <2> QED BY <1>0, <2>1, <2>2, <2>3 DEF Effect, WakeTurn
<1>2. ASSUME thread_resched(run_queue, run_queue_bitmap, state, quantum, crit)
      PROVE  KeepStates({})
  <2>1. /\ SchedTypes /\ OtherTypes
        /\ RunQueuesMatch(run_queue, run_queue_bitmap, state, priority)
    BY TypeParts DEF KernelInv, RunQueuesExact
  <2>2. \A u \in Threads : state'[u] = state[u] \/ (Runs(state[u]) /\ Runs(state'[u]))
    BY <1>2, <2>1, ReschedKeeps DEF SchedTypes
  <2> QED BY <2>2 DEF KeepStates
<1>3. CASE WakeAllResched
  <2>1. /\ pc[current] \in {"signal_all", "destroy_all"} /\ wait[obj[current]] = <<>>
        /\ KeepStates({}) /\ Go("wake_return", NoObject) /\ KeepWaits /\ KeepTimers
    BY <1>2, <1>3, KeepAll DEF WakeAllResched
  <2>2. pc[current] \in LoopPCs
    BY <2>1 DEF LoopPCs, WakeLoops
  <2> QED BY <1>0, <2>1, <2>2 DEF Effect, LoopEnd
<1>4. CASE WakeAllDone
  <2>1. /\ pc[current] = "signal_all_noresched" /\ wait[obj[current]] = <<>>
        /\ KeepStates({}) /\ Go("user", NoObject) /\ KeepWaits /\ KeepTimers
    BY <1>4, KeepAll DEF WakeAllDone, Returns
  <2>2. pc[current] \in LoopPCs
    BY <2>1 DEF LoopPCs, WakeLoops
  <2> QED BY <1>0, <2>1, <2>2 DEF Effect, LoopEnd
<1>5. CASE ExitResched
  <2>1. /\ \/ pc[current] = "exit_resched"
           \/ pc[current] = "exit_signal" /\ wait[DpcEvent] = <<>>
        /\ KeepStates({}) /\ Go("dead", NoObject) /\ KeepWaits /\ KeepTimers
    BY <1>2, <1>5, KeepAll DEF ExitResched, Returns
  <2>2. pc[current] \in LoopPCs
    BY <2>1 DEF LoopPCs, WakeLoops
  <2> QED BY <1>0, <2>1, <2>2 DEF Effect, LoopEnd
<1> QED BY <1>1, <1>3, <1>4, <1>5

\* Interrupts.
LEMMA IrqEffects ==
  ASSUME KernelInv, arm_irq \/ IrqPreempt \/ IrqReturn \/ SetPriority \/ UNCHANGED vars
  PROVE  Effect
<1>1. CASE arm_irq
  <2>1. /\ current' = current /\ UNCHANGED <<state, pc, obj, waitVars, timer_queue, callback,
                                              syncVars, dpc_list>>
        /\ left' = [t \in Threads |-> IF left[t] > 0 THEN left[t] - 1 ELSE 0]
    BY <1>1 DEF arm_irq
  <2> QED BY <2>1, KeepAll DEF Effect, Interrupt, KeepCalls
<1>2. CASE IrqPreempt
  <2> DEFINE q == thread_timer_tick
  <2>1. pc[current] \notin LoopPCs
    BY <1>2 DEF IrqPreempt, KernelInv, CallsConsistent, TypeOK
  <2>2. /\ SchedTypes /\ OtherTypes /\ state[current] = "RUNNING"
        /\ RunQueuesMatch(run_queue, run_queue_bitmap, state, priority)
    BY <2>1, CurrentFacts
  <2>3. q \in [Threads -> 0 .. QUANTUM] /\ crit + 1 \in Int
    BY <2>2, PrioritiesAssumption DEF thread_timer_tick, SchedTypes
  <2>4. LET bm1 == run_queue_bitmap \cup {priority[current]}
            st1 == [state EXCEPT ![current] = "READY"]
        IN  \/ thread_resched(insert_in_run_queue_head(run_queue, current), bm1, st1, q, crit + 1)
            \/ thread_resched(insert_in_run_queue_tail(run_queue, current), bm1, st1, q, crit + 1)
    BY <1>2 DEF IrqPreempt, thread_preempt
  <2> HIDE DEF q
  <2>5. \A u \in Threads : state'[u] = state[u] \/ (Runs(state[u]) /\ Runs(state'[u]))
    BY <2>1, <2>2, <2>3, <2>4, YieldKeeps DEF SchedTypes
  <2>6. /\ KeepStates({}) /\ KeepCalls /\ KeepWaits /\ KeepMutexes /\ KeepEvents /\ KeepDpcs
        /\ KeepTimers
    BY <1>2, <2>5, KeepAll DEF IrqPreempt, KeepStates, KeepCalls
  <2> QED BY <2>1, <2>6 DEF Effect, Interrupt, KeepTimers
<1>3. CASE IrqReturn \/ SetPriority \/ UNCHANGED vars
  <2>1. /\ current' = current
        /\ UNCHANGED <<state, pc, obj, waitVars, timerVars, syncVars, dpc_list>>
    BY <1>3 DEF IrqReturn, SetPriority, thread_set_priority, vars, callVars, schedVars
  <2> QED BY <2>1, KeepAll DEF Effect, Interrupt, KeepCalls, KeepTimers
<1> QED BY <1>1, <1>2, <1>3

\* One turn of the loop of timer_tick().
LEMMA TimerEffect ==
  ASSUME KernelInv, timer_tick
  PROVE  Effect
<1> DEFINE t == Head(timer_queue)
<1>1. /\ irq[current] = "timer_tick" /\ timer_queue # <<>> /\ left[t] = 0
      /\ timer_queue' = Tail(timer_queue)
      /\ callback' = [callback EXCEPT ![t] = "none"]
      /\ UNCHANGED <<current, callVars, left, syncVars, dpc_list>>
  BY DEF timer_tick, TimerDue
<1>2. /\ timer_queue \in Seq(Threads) /\ Distinct(timer_queue) /\ TimersOwned
      /\ CallsConsistent /\ WaitQueuesExact /\ current \in Threads
      /\ state \in StateFunctions /\ pc[current] \notin LoopPCs
  BY <1>1 DEF KernelInv, TypeOK, TimersOwned, CallsConsistent, StateFunctions
<1>3. t \in Threads /\ OccursIn(t, timer_queue)
  BY <1>1, <1>2, TailFacts
<1>4. /\ KeepCalls /\ KeepMutexes /\ KeepEvents /\ KeepDpcs /\ current' = current
      /\ left' = left
  BY <1>1, KeepAll
<1>5. CASE callback[t] = "thread_sleep_handler"
  <2>1. /\ state' = [state EXCEPT ![t] = "READY"] /\ KeepWaits
    BY <1>5, KeepAll DEF timer_tick
  <2>2. state[t] = "SLEEPING"
    BY <1>2, <1>3, <1>5 DEF TimersOwned
  <2>3. Runs(state'[t]) /\ KeepStates({t})
    BY <1>2, <1>3, <2>1 DEF StateFunctions, Runs, KeepStates
  <2> QED BY <1>1, <1>2, <1>3, <1>4, <2>1, <2>2, <2>3 DEF Effect, TimerFires
<1>6. CASE callback[t] # "thread_sleep_handler"
  <2>1. pc[t] \in TimedPCs /\ callback[t] = "wait_queue_timeout_handler"
    BY <1>2, <1>3, <1>6 DEF TimersOwned
  <2>2. thread_unblock_from_wait_queue(t, ERR_TIMED_OUT)
    BY <1>6 DEF timer_tick
  <2>3. CASE state[t] = "BLOCKED"
    <3>1. obj[t] \in Queues /\ blocking[t] = obj[t] /\ OccursIn(t, wait[obj[t]])
      BY <1>2, <1>3, <2>3 DEF CallsConsistent, WaitQueuesExact, WaitQueuesMatch
    <3>2. MakeReady(obj[t], Without(wait[obj[t]], t), t, ERR_TIMED_OUT)
      BY <2>2, <2>3, <3>1 DEF thread_unblock_from_wait_queue
    <3>3. Woken(obj[t], t, Without(wait[obj[t]], t), ERR_TIMED_OUT)
      BY <1>3, <3>1, <3>2, MakeReadyEffect
    <3> QED BY <1>1, <1>2, <1>3, <1>4, <2>1, <3>3 DEF Effect, TimerFires
  <2>4. CASE state[t] # "BLOCKED"
    <3>1. UNCHANGED waitVars /\ UNCHANGED state
      BY <2>2, <2>4 DEF thread_unblock_from_wait_queue
    <3>2. KeepStates({}) /\ KeepWaits
      BY <3>1, KeepAll
    <3> QED BY <1>1, <1>2, <1>3, <1>4, <2>1, <2>4, <3>2 DEF Effect, TimerFires
  <2> QED BY <2>3, <2>4
<1> QED BY <1>5, <1>6

\* thread_resume() of a new thread.
LEMMA ResumeEffect ==
  ASSUME KernelInv, pc[current] \in ResumePCs, NEW p \in MovePCs,
         thread_resume(obj[current], p)
  PROVE  Effect
<1> DEFINE t == obj[current]
           st == [state EXCEPT ![t] = "READY"]
           rq == insert_in_run_queue_head(run_queue, t)
           bm == run_queue_bitmap \cup {priority[t]}
           q == [quantum EXCEPT ![current] = 0]
<1>0. pc[current] \notin LoopPCs
  BY DEF ResumePCs, LoopPCs, WakeLoops
<1>1. /\ SchedTypes /\ OtherTypes /\ state[current] = "RUNNING"
      /\ RunQueuesMatch(run_queue, run_queue_bitmap, state, priority)
  BY <1>0, CurrentFacts
<1>2. /\ t \in Threads /\ state[t] = "SUSPENDED" /\ state \in StateFunctions
      /\ current \in Threads /\ current # t
  BY <1>1 DEF KernelInv, CallsConsistent, SchedTypes
<1>3. /\ RunQueuesMatch(rq, bm, st, priority) /\ rq \in RunQueues
      /\ st \in StateFunctions /\ bm \in SUBSET Priorities
  BY <1>1, <1>2, InsertInRunQueue DEF SchedTypes, OtherTypes
<1>4. st[t] = "READY" /\ \A u \in Threads : u # t => st[u] = state[u]
  BY <1>2 DEF StateFunctions
<1>5. q \in [Threads -> 0 .. QUANTUM] /\ crit + 1 + 1 \in Int
  BY <1>1, PrioritiesAssumption DEF SchedTypes
<1>6. /\ thread_resched(insert_in_run_queue_tail(rq, current), bm \cup {priority[current]},
                        [st EXCEPT ![current] = "READY"], q, crit + 1 + 1)
      /\ Go(p, NoObject) /\ KeepWaits /\ KeepTimers /\ KeepMutexes /\ KeepEvents /\ KeepDpcs
  BY KeepAll DEF thread_resume, thread_yield
<1> HIDE DEF st, rq, bm, q
<1>7. \A u \in Threads : state'[u] = st[u] \/ (Runs(st[u]) /\ Runs(state'[u]))
  BY <1>0, <1>1, <1>2, <1>3, <1>4, <1>5, <1>6, YieldKeeps
<1>8. Runs(state'[t]) /\ KeepStates({t})
  BY <1>2, <1>4, <1>7 DEF Runs, KeepStates
<1> QED BY <1>2, <1>6, <1>8 DEF Effect, Resume

\* thread_create().
LEMMA CreateEffect ==
  ASSUME KernelInv, pc[current] \in MovePCs, NEW t \in Threads, NEW x, NEW p \in ResumePCs,
         thread_create(t, x, p)
  PROVE  Effect
<1>1. /\ state[t] = "NONE" /\ state' = [state EXCEPT ![t] = "SUSPENDED"]
      /\ pc' = [pc EXCEPT ![t] = "initial_thread_func", ![current] = p]
      /\ obj' = [obj EXCEPT ![current] = t] /\ FreshThread(t)
  BY DEF thread_create
<1>2. /\ current' = current /\ wait' = wait /\ block_ret' = [block_ret EXCEPT ![t] = NO_ERROR]
      /\ KeepTimers /\ KeepMutexes /\ KeepEvents /\ KeepDpcs
  BY <1>1, KeepAll DEF FreshThread
<1> QED BY <1>1, <1>2 DEF Effect, Create

\* Steps that leave the queues alone.
LEMMA MoveEffect ==
  ASSUME KernelInv, pc[current] \in MovePCs \cup {"initial_thread_func"},
         UNCHANGED state, NEW p \in MovePCs, NEW o \in Threads \cup {NoObject}, InCall(p, o),
         UNCHANGED <<waitVars, timerVars, syncVars, dpc_list>>
  PROVE  Effect
<1>1. /\ KeepStates({}) /\ Go(p, o) /\ KeepWaits /\ KeepTimers /\ KeepMutexes /\ KeepEvents
      /\ KeepDpcs
  BY KeepAll
<1> QED BY <1>1 DEF Effect, Move

\* Where calls that touch no mutex and no event lead, and where they do not.
LEMMA MovePlaces ==
  /\ {"user", "dpc_wait", "dpc_pop", "switch_return", "wake_return", "thread_resume",
      "thread_resume_enter", "thread_resume_return"} \subseteq MovePCs
  /\ BootPCs \subseteq MovePCs /\ ResumePCs \subseteq MovePCs
  /\ MovePCs \cap (LoopPCs \cup WaitPCs \cup {"dead"}) = {}
BY DEF MovePCs, PCs, BootPCs, ResumePCs, DpcPCs, TimedPCs, LoopPCs, WakeLoops, WaitPCs,
       MutexPCs, EventPCs

\* The calls of workers.
LEMMA UserEffects ==
  ASSUME KernelInv, UserCall
  PROVE  Effect
<1>1. CASE CreateThread
  <2>1. PICK t \in Workers, x \in CreatePriorities : thread_create(t, x, "thread_resume")
    BY <1>1 DEF CreateThread
  <2>2. pc[current] \in MovePCs /\ t \in Threads /\ "thread_resume" \in ResumePCs
    BY <1>1, MovePlaces DEF CreateThread, Calls, Threads, ResumePCs
  <2> QED BY <2>1, <2>2, CreateEffect
<1>2. CASE Yield
  <2> DEFINE q == [quantum EXCEPT ![current] = 0]
  <2>1. /\ pc[current] = "user" /\ pc[current] \in MovePCs /\ pc[current] \notin LoopPCs
        /\ "switch_return" \in MovePCs
    BY <1>2, MovePlaces DEF Yield, Calls
  <2>2. /\ SchedTypes /\ OtherTypes /\ state[current] = "RUNNING"
        /\ RunQueuesMatch(run_queue, run_queue_bitmap, state, priority)
    BY <2>1, CurrentFacts
  <2>3. q \in [Threads -> 0 .. QUANTUM] /\ crit + 1 \in Int
    BY <2>2, PrioritiesAssumption DEF SchedTypes
  <2>4. /\ thread_resched(insert_in_run_queue_tail(run_queue, current),
                          run_queue_bitmap \cup {priority[current]},
                          [state EXCEPT ![current] = "READY"], q, crit + 1)
        /\ Go("switch_return", NoObject)
        /\ KeepWaits /\ KeepTimers /\ KeepMutexes /\ KeepEvents /\ KeepDpcs
    BY <1>2, KeepAll DEF Yield, thread_yield
  <2> HIDE DEF q
  <2>5. \A u \in Threads : state'[u] = state[u] \/ (Runs(state[u]) /\ Runs(state'[u]))
    BY <2>1, <2>2, <2>3, <2>4, YieldKeeps DEF SchedTypes
  <2> QED BY <2>1, <2>4, <2>5 DEF Effect, Move, KeepStates
<1>3. CASE thread_sleep
  <2>1. PICK delay \in SleepDelays :
          timer_set_oneshot(current, delay, "thread_sleep_handler")
    BY <1>3 DEF thread_sleep
  <2>2. /\ pc[current] = "user" /\ pc[current] \notin LoopPCs /\ delay \in 1 .. MaxDelay
    BY <1>3, MovePlaces, KernelAssumption DEF thread_sleep, Calls
  <2>3. /\ thread_resched(run_queue, run_queue_bitmap,
                          [state EXCEPT ![current] = "SLEEPING"], quantum, crit + 1)
        /\ Go("switch_return", NoObject)
        /\ KeepWaits /\ KeepMutexes /\ KeepEvents /\ KeepDpcs
    BY <1>3, KeepAll DEF thread_sleep
  <2>4. crit + 1 \in Int
    BY DEF KernelInv, TypeOK
  <2>5. state'[current] = "SLEEPING" /\ KeepStates({current})
    BY <2>2, <2>3, <2>4, StopKeeps
  <2> QED BY <2>1, <2>2, <2>3, <2>5 DEF Effect, Sleep
<1>4. CASE thread_exit
  <2>1. /\ pc[current] = "user" /\ current' = current
        /\ state' = [state EXCEPT ![current] = "DEATH"]
        /\ Go(IF signalled[DpcEvent] THEN "exit_resched" ELSE "exit_signal", DpcEvent)
        /\ dpc_list' = Append(dpc_list, current)
        /\ signalled' = [signalled EXCEPT ![DpcEvent] = TRUE] /\ autounsignal' = autounsignal
        /\ KeepWaits /\ KeepTimers /\ KeepMutexes
    BY <1>4, KeepAll DEF thread_exit, Calls
  <2> QED BY <2>1 DEF Effect, Exit
<1>5. CASE SetPriority
  BY <1>5, IrqEffects
<1>6. ASSUME NEW m \in Mutexes, UNCHANGED <<eventVars, dpc_list>>,
             \/ mutex_acquire_free(m) \/ mutex_acquire(m)
             \/ mutex_acquire_timeout(m) \/ mutex_release(m)
             \/ mutex_destroy(m) \/ (Quiescent(m) /\ mutex_init(m))
      PROVE  Effect
  BY <1>6, MutexEffects
<1>7. ASSUME NEW e \in Events, UNCHANGED dpc_list,
             \/ event_wait(e) \/ event_unsignal(e)
             \/ event_signal(e, TRUE) \/ event_signal(e, FALSE)
             \/ event_destroy(e) \/ (Quiescent(e) /\ event_init(e))
      PROVE  Effect
  BY <1>7, EventEffects
<1> QED BY <1>1, <1>2, <1>3, <1>4, <1>5, <1>6, <1>7 DEF UserCall

\* The steps of the dpc thread.
LEMMA DpcEffects ==
  ASSUME KernelInv, DpcWait \/ DpcPop \/ thread_cleanup_dpc
  PROVE  Effect
<1>1. CASE DpcWait
  <2>1. pc[current] = "dpc_wait" /\ UNCHANGED dpc_list /\ DpcEvent \in AllEvents
    BY <1>1 DEF DpcWait, Calls, AllEvents
  <2>2. CASE event_wait_block(DpcEvent, INFINITE_TIME, "dpc_event_wait")
    BY <2>1, <2>2, EventBlockEffect DEF EventPCs
  <2>3. CASE event_wait_through(DpcEvent) /\ InCall("dpc_pop", NoObject)
    <3>1. /\ current' = current /\ signalled[DpcEvent] /\ KeepStates({})
          /\ Go("dpc_pop", NoObject)
          /\ signalled' = [signalled EXCEPT ![DpcEvent] = ~autounsignal[DpcEvent]]
          /\ autounsignal' = autounsignal
          /\ KeepWaits /\ KeepTimers /\ KeepMutexes /\ KeepDpcs
      BY <2>1, <2>3, KeepAll DEF event_wait_through
    <3> QED BY <2>1, <3>1 DEF Effect, DpcThrough
  <2> QED BY <1>1, <2>2, <2>3 DEF DpcWait
<1>2. CASE DpcPop
  <2>1. /\ pc[current] = "dpc_pop" /\ current' = current /\ KeepStates({})
        /\ KeepWaits /\ KeepTimers /\ KeepMutexes /\ autounsignal' = autounsignal
    BY <1>2, KeepAll DEF DpcPop, Calls
  <2>2. CASE dpc_list = <<>>
    <3>1. /\ Go("dpc_wait", NoObject) /\ KeepDpcs
          /\ signalled' = [signalled EXCEPT ![DpcEvent] = FALSE]
      BY <1>2, <2>2, KeepAll DEF DpcPop
    <3> QED BY <2>1, <2>2, <3>1 DEF Effect, DpcNone
  <2>3. CASE dpc_list # <<>>
    <3>1. /\ Go("thread_cleanup_dpc", Head(dpc_list)) /\ dpc_list' = Tail(dpc_list)
          /\ signalled' = signalled
      BY <1>2, <2>3, KeepAll DEF DpcPop
    <3> QED BY <2>1, <2>3, <3>1 DEF Effect, DpcTake, KeepEvents
  <2> QED BY <2>2, <2>3
<1>3. CASE thread_cleanup_dpc
  <2>1. /\ pc[current] = "thread_cleanup_dpc"
        /\ state' = [state EXCEPT ![obj[current]] = "NONE"] /\ Go("dpc_wait", NoObject)
        /\ FreshThread(obj[current])
    BY <1>3, KeepAll DEF thread_cleanup_dpc, Calls
  <2>2. /\ current' = current /\ wait' = wait
        /\ block_ret' = [block_ret EXCEPT ![obj[current]] = NO_ERROR]
        /\ KeepTimers /\ KeepMutexes /\ KeepEvents /\ KeepDpcs
    BY <2>1, KeepAll DEF FreshThread
  <2>3. obj[current] \in Threads /\ state[obj[current]] = "DEATH"
    BY <2>1 DEF KernelInv, CallsConsistent, TypeOK
  <2> QED BY <2>1, <2>2, <2>3 DEF Effect, Cleanup
<1> QED BY <1>1, <1>2, <1>3

\* kmain() and thread_become_idle().
LEMMA BootEffects ==
  ASSUME KernelInv, kmain \/ thread_become_idle
  PROVE  Effect
<1>1. /\ "boot" \in MovePCs /\ "boot_bootstrap2" \in MovePCs
      /\ {"boot_resume_dpc", "boot_resume_bootstrap2"} \subseteq ResumePCs
      /\ {"boot_dpc_return", "boot_bootstrap2_return", "boot_enable", "become_idle",
          "boot_bootstrap2", "set_idle_thread", "idle"} \subseteq MovePCs
  <2>1. {"boot", "boot_dpc_return", "boot_bootstrap2_return", "boot_enable", "become_idle",
          "boot_bootstrap2", "set_idle_thread", "idle"} \subseteq BootPCs
    BY DEF BootPCs
  <2> QED BY <2>1, MovePlaces DEF ResumePCs
<1>2. DpcThread \in Threads /\ Bootstrap2 \in Threads
  BY ThreadsAssumption DEF Threads
<1>3. ASSUME NEW from \in {"boot", "boot_bootstrap2"}, NEW t \in Threads, NEW x,
             NEW then \in {"boot_resume_dpc", "boot_resume_bootstrap2"},
             BootCreate(from, t, x, then)
      PROVE  Effect
  BY <1>1, <1>3, CreateEffect DEF BootCreate, Returns
<1>4. ASSUME NEW from \in {"boot_resume_dpc", "boot_resume_bootstrap2"},
             NEW then \in {"boot_dpc_return", "boot_bootstrap2_return"},
             BootResume(from, then)
      PROVE  Effect
  <2>1. /\ pc[current] \in ResumePCs /\ then \in MovePCs
        /\ thread_resume(obj[current], then)
    BY <1>1, <1>4 DEF BootResume, Returns
  <2> QED BY <2>1, ResumeEffect
<1>5. ASSUME NEW from \in MovePCs, NEW n, NEW then \in MovePCs, BootReturn(from, n, then)
      PROVE  Effect
  BY <1>5, MoveEffect DEF BootReturn, Returns
<1>6. CASE kmain
  BY <1>1, <1>2, <1>3, <1>4, <1>5, <1>6 DEF kmain
<1>7. CASE thread_become_idle
  <2>1. PICK p \in {"set_idle_thread", "idle"} : InCall(p, NoObject)
    BY <1>7 DEF thread_become_idle
  <2>2. /\ pc[current] \in {"become_idle", "set_idle_thread"}
        /\ UNCHANGED <<waitVars, timerVars, syncVars, dpc_list>> /\ UNCHANGED state
    BY <1>7 DEF thread_become_idle, Returns, thread_set_priority
  <2> QED BY <1>1, <2>1, <2>2, MoveEffect
<1> QED BY <1>6, <1>7

\* The steps that the kernel takes by itself.
LEMMA KernelEffects ==
  ASSUME KernelInv, KernelStep
  PROVE  Effect
<1>1. CASE ResumeCheck
  <2>1. /\ pc[current] = "thread_resume" /\ obj[current] \in Threads
        /\ "user" \in MovePCs /\ "thread_resume_enter" \in MovePCs
    BY <1>1, MovePlaces
       DEF ResumeCheck, Calls, KernelInv, CallsConsistent, TypeOK, ResumePCs
  <2>2. PICK p \in {"user", "thread_resume_enter"}, o \in {NoObject, obj[current]} :
          InCall(p, o)
    BY <1>1 DEF ResumeCheck
  <2>3. UNCHANGED <<state, waitVars, timerVars, syncVars, dpc_list>>
    BY <1>1 DEF ResumeCheck, schedVars
  <2> QED BY <2>1, <2>2, <2>3, MovePlaces, MoveEffect
<1>2. CASE ResumeEnter
  <2>1. /\ pc[current] \in ResumePCs /\ "thread_resume_return" \in MovePCs
        /\ thread_resume(obj[current], "thread_resume_return")
    BY <1>2, MovePlaces DEF ResumeEnter, Calls, ResumePCs
  <2> QED BY <2>1, ResumeEffect
<1>3. CASE ResumeReturn
  BY <1>3, MovePlaces, MoveEffect DEF ResumeReturn, Returns
<1>4. CASE initial_thread_func
  <2>1. PICK p \in {"dpc_wait", "user"} : InCall(p, NoObject)
    BY <1>4 DEF initial_thread_func
  <2> QED BY <1>4, <2>1, MovePlaces, MoveEffect DEF initial_thread_func, Returns
<1>5. CASE SwitchReturn
  BY <1>5, MovePlaces, MoveEffect DEF SwitchReturn, Returns
<1>6. CASE WakeReturn /\ UNCHANGED <<syncVars, dpc_list>>
  BY <1>6, MovePlaces, MoveEffect DEF WakeReturn, Returns
<1>7. CASE /\ WakeAllStep \/ WakeAllResched \/ WakeAllDone
           /\ UNCHANGED <<syncVars, dpc_list>>
  BY <1>7, LoopEffects
<1>8. CASE ExitResched
  BY <1>8, LoopEffects
<1>9. CASE DpcWait \/ DpcPop \/ thread_cleanup_dpc
  BY <1>9, DpcEffects
<1>10. CASE DpcWaitReturn
  BY <1>10, ReturnEffects DEF DpcWaitReturn
<1>11. CASE /\ mutex_acquire_return \/ mutex_acquire_timeout_return
            /\ UNCHANGED <<eventVars, dpc_list>>
  BY <1>11, ReturnEffects
<1>12. CASE event_wait_returns /\ UNCHANGED dpc_list
  BY <1>12, ReturnEffects
<1>13. CASE kmain \/ thread_become_idle
  BY <1>13, BootEffects
<1> QED BY <1>1, <1>2, <1>3, <1>4, <1>5, <1>6, <1>7, <1>8, <1>9, <1>10, <1>11, <1>12,
           <1>13 DEF KernelStep

\* Every step of the kernel has one of the effects.
LEMMA StepEffects == KernelInv /\ [Next]_vars => Effect
<1> SUFFICES ASSUME KernelInv, [Next]_vars PROVE Effect
  OBVIOUS
<1> QED BY UserEffects, KernelEffects, IrqEffects, TimerEffect DEF Next, IrqStep

-----------------------------------------------------------------------------
(* Which call a thread is in, given its state.                             *)

\* A thread in state s can be in the call p about o.
Place(s, p, o) ==
  /\ s = "NONE" => p = "dead"
  /\ s = "SUSPENDED" => p = "initial_thread_func"
  /\ s = "SLEEPING" => p = "switch_return"
  /\ s = "DEATH" => p \in {"exit_signal", "exit_resched", "dead"}
  /\ s = "BLOCKED" => \/ o \in Mutexes /\ p \in MutexPCs
                      \/ o \in AllEvents /\ p \in EventPCs
  /\ Runs(s) => p # "dead"
  /\ p \in EventPCs => o \in AllEvents

StatePlaces == \A t \in Threads : Place(state[t], pc[t], obj[t])

\* The objects of the wake loops: only those of destroyed objects may wake the
\* waiters of a mutex.
LoopPlace(p, o, d) ==
  /\ p \in WakeLoops => o \in AllEvents \cup d
  /\ p = "destroy_all" => o \in d
  /\ p = "exit_signal" => o = DpcEvent

LoopObjects ==
  /\ \A t \in Threads : LoopPlace(pc[t], obj[t], destroyed)
  /\ ~autounsignal[DpcEvent]

\* What TypeOK says of the variables that the effects mention.
LEMMA EffectTypes ==
  ASSUME KernelInv
  PROVE  /\ current \in Threads /\ state \in StateFunctions /\ pc \in [Threads -> PCs]
         /\ obj \in [Threads -> Queues \cup Threads \cup {NoObject}]
         /\ DOMAIN pc = Threads /\ DOMAIN obj = Threads /\ DOMAIN state = Threads
         /\ wait \in WaitLists /\ block_ret \in [Threads -> BlockReturns]
         /\ timer_queue \in Seq(Threads) /\ left \in [Threads -> 0 .. MaxDelay]
         /\ count \in [Mutexes -> Int]
         /\ holder \in [Mutexes -> Threads \cup {NoThread}]
         /\ owned \in [Threads -> SUBSET Mutexes] /\ destroyed \in SUBSET (Mutexes \cup Events)
         /\ signalled \in [AllEvents -> BOOLEAN] /\ autounsignal \in [AllEvents -> BOOLEAN]
         /\ dpc_list \in Seq(Threads)
BY DEF KernelInv, TypeOK, StateFunctions, WaitLists

\* Going on to p about o.
LEMMA GoFacts ==
  ASSUME KernelInv, NEW p, NEW o, Go(p, o)
  PROVE  /\ pc'[current] = p /\ obj'[current] = o /\ current \in Threads
         /\ \A u \in Threads : u # current => pc'[u] = pc[u] /\ obj'[u] = obj[u]
BY EffectTypes DEF Go

\* Outside of the loops the current thread is RUNNING.
LEMMA CurrentRuns ==
  ASSUME KernelInv
  PROVE  /\ pc[current] \notin LoopPCs => state[current] = "RUNNING"
         /\ pc[current] \in {"exit_signal", "exit_resched"} => state[current] = "DEATH"
         /\ pc[current] \in LoopPCs \ {"exit_signal", "exit_resched"} => Runs(state[current])
         /\ \A u \in Threads : pc[u] \in LoopPCs => u = current
         /\ LoopPCs \cap (MovePCs \cup WaitPCs) = {}
         /\ WaitPCs \cap MovePCs = {} /\ "user" \in MovePCs
         /\ state[current] \notin {"NONE", "SUSPENDED", "SLEEPING", "BLOCKED"}
<1>1. MovePCs \cap LoopPCs = {} /\ MovePCs \cap WaitPCs = {} /\ "user" \in MovePCs
  BY MovePlaces
<1>2. LoopPCs \cap WaitPCs = {}
  BY DEF LoopPCs, WakeLoops, WaitPCs, MutexPCs, EventPCs
<1>3. OneRunning /\ CallsConsistent
  BY DEF KernelInv
<1>4. /\ pc[current] \notin LoopPCs => state[current] = "RUNNING"
      /\ pc[current] \in {"exit_signal", "exit_resched"} => state[current] = "DEATH"
      /\ pc[current] \in LoopPCs \ {"exit_signal", "exit_resched"} => Runs(state[current])
      /\ state[current] \notin {"NONE", "SUSPENDED", "SLEEPING", "BLOCKED"}
  BY <1>3 DEF OneRunning, LoopPCs, WakeLoops, Runs
<1>5. \A u \in Threads : pc[u] \in LoopPCs => u = current
  BY <1>3 DEF CallsConsistent
<1> QED BY <1>1, <1>2, <1>4, <1>5

\* Only the threads of S have to be looked at.
LEMMA PlacesKept ==
  ASSUME StatePlaces, NEW S, KeepStates(S),
         \A u \in Threads \ S : pc'[u] = pc[u] /\ obj'[u] = obj[u],
         \A u \in Threads : u \in S => Place(state'[u], pc'[u], obj'[u])
  PROVE  StatePlaces'
<1> SUFFICES ASSUME NEW u \in Threads \ S PROVE Place(state'[u], pc'[u], obj'[u])
  BY DEF StatePlaces
<1>1. Place(state[u], pc[u], obj[u])
  BY DEF StatePlaces
<1>2. state'[u] = state[u] \/ (Runs(state[u]) /\ Runs(state'[u]))
  BY DEF KeepStates
<1> QED BY <1>1, <1>2 DEF Place, Runs

\* Threads in the places that the effects lead to.
LEMMA PlaceFacts ==
  /\ \A s, p, o : Runs(s) /\ p \in MovePCs => Place(s, p, o)
  /\ \A s, o : Runs(s) => Place(s, "thread_cleanup_dpc", o)
  /\ \A s, p, o : Runs(s) /\ p \in LoopPCs => Place(s, p, o)
  /\ \A s, p, o, r : Place(s, p, o) /\ Runs(r) /\ p # "dead" => Place(r, p, o)
  /\ \A o : Place("DEATH", "dead", o) /\ Place("DEATH", "exit_signal", o)
            /\ Place("DEATH", "exit_resched", o) /\ Place("NONE", "dead", o)
            /\ Place("SUSPENDED", "initial_thread_func", o)
            /\ Place("SLEEPING", "switch_return", o)
  /\ \A p \in MutexPCs, o \in Mutexes : Place("BLOCKED", p, o)
  /\ \A p \in EventPCs, o \in AllEvents : Place("BLOCKED", p, o)
<1>1. /\ "dead" \notin MovePCs \cup LoopPCs \cup MutexPCs \cup EventPCs
      /\ (MovePCs \cup LoopPCs) \cap EventPCs = {} /\ MutexPCs \cap EventPCs = {}
  BY MovePlaces DEF MutexPCs, EventPCs, LoopPCs, WakeLoops, WaitPCs
<1>2. /\ "thread_cleanup_dpc" \notin EventPCs /\ "initial_thread_func" \notin EventPCs
      /\ "switch_return" \notin EventPCs /\ "exit_signal" \notin EventPCs
      /\ "exit_resched" \notin EventPCs /\ "dead" \notin EventPCs
  BY DEF EventPCs
<1>3. \A s, p, o : Runs(s) /\ p # "dead" /\ p \notin EventPCs => Place(s, p, o)
  BY DEF Place, Runs
<1>4. \A s, p, o, r : Place(s, p, o) /\ Runs(r) /\ p # "dead" => Place(r, p, o)
  BY DEF Place, Runs
<1>5. \A o : Place("DEATH", "dead", o) /\ Place("DEATH", "exit_signal", o)
             /\ Place("DEATH", "exit_resched", o) /\ Place("NONE", "dead", o)
             /\ Place("SUSPENDED", "initial_thread_func", o)
             /\ Place("SLEEPING", "switch_return", o)
  BY <1>2 DEF Place, Runs
<1>6. /\ \A p \in MutexPCs, o \in Mutexes : Place("BLOCKED", p, o)
      /\ \A p \in EventPCs, o \in AllEvents : Place("BLOCKED", p, o)
  BY <1>1 DEF Place, Runs
<1> QED BY <1>1, <1>2, <1>3, <1>4, <1>5, <1>6

\* StatePlaces survives every step.
LEMMA PlacesStep ==
  ASSUME KernelInv, StatePlaces, Effect
  PROVE  StatePlaces'
<1>t. /\ current \in Threads /\ state \in StateFunctions /\ DOMAIN pc = Threads
      /\ DOMAIN obj = Threads
  BY EffectTypes
<1>u. \A u \in Threads : Place(state[u], pc[u], obj[u])
  BY DEF StatePlaces
<1>1. ASSUME KeepStates({}), KeepCalls
      PROVE  StatePlaces'
  BY <1>1, PlacesKept DEF KeepCalls
\* The current thread goes on.
<1>2. ASSUME NEW p, NEW o, Go(p, o), KeepStates({}), Runs(state[current]),
             p \in MovePCs \cup LoopPCs \cup {"thread_cleanup_dpc"}
      PROVE  StatePlaces'
  <2>1. Runs(state'[current])
    BY <1>2, <1>t DEF KeepStates, Runs
  <2>2. Place(state'[current], pc'[current], obj'[current])
    BY <1>2, <2>1, GoFacts, PlaceFacts
  <2>3. \A u \in Threads \ {current} : pc'[u] = pc[u] /\ obj'[u] = obj[u]
    BY <1>2, GoFacts
  <2>4. KeepStates({current})
    BY <1>2 DEF KeepStates
  <2> QED BY <2>2, <2>3, <2>4, PlacesKept
\* A waiter is woken.
<1>3. ASSUME NEW o, NEW t, NEW list, NEW ret, Woken(o, t, list, ret),
             KeepCalls \/ (pc[current] = "user" /\ Go("wake_return", NoObject))
      PROVE  StatePlaces'
  <2>1. t \in Threads /\ state[t] = "BLOCKED" /\ Runs(state'[t]) /\ KeepStates({t})
    BY <1>3 DEF Woken
  <2>2. pc[t] # "dead"
    BY <2>1, <1>u, MovePlaces DEF Place, WaitPCs, MutexPCs, EventPCs
  <2>3. t # current
    BY <2>1, CurrentRuns
  <2>4. pc'[t] = pc[t] /\ obj'[t] = obj[t]
    BY <1>3, <2>1, <2>3, GoFacts DEF KeepCalls
  <2>5. Place(state'[t], pc'[t], obj'[t])
    BY <2>1, <2>2, <2>4, <1>u, PlaceFacts
  <2>6. CASE KeepCalls
    <3>1. \A u \in Threads \ {t} : pc'[u] = pc[u] /\ obj'[u] = obj[u]
      BY <2>6 DEF KeepCalls
    <3> QED BY <2>1, <2>5, <3>1, PlacesKept
  <2>7. CASE pc[current] = "user" /\ Go("wake_return", NoObject)
    <3>1. Runs(state[current])
      BY <2>7, CurrentRuns DEF Runs
    <3>2. Runs(state'[current])
      BY <1>t, <2>1, <2>3, <3>1 DEF KeepStates, Runs
    <3>3. Place(state'[current], pc'[current], obj'[current])
      BY <2>7, <3>2, GoFacts, PlaceFacts, MovePlaces
    <3>4. \A u \in Threads \ {t, current} : pc'[u] = pc[u] /\ obj'[u] = obj[u]
      BY <2>7, GoFacts
    <3>5. KeepStates({t, current})
      BY <2>1 DEF KeepStates
    <3> QED BY <2>5, <3>3, <3>4, <3>5, PlacesKept
  <2> QED BY <1>3, <2>6, <2>7
\* The current thread blocks.
<1>4. ASSUME NEW o, NEW p, BlockOn(o, p),
             (o \in Mutexes /\ p \in MutexPCs) \/ (o \in AllEvents /\ p \in EventPCs)
      PROVE  StatePlaces'
  <2>1. /\ state'[current] = "BLOCKED" /\ KeepStates({current}) /\ Go(p, o)
    BY <1>4 DEF BlockOn
  <2>2. Place(state'[current], pc'[current], obj'[current])
    BY <1>4, <2>1, GoFacts, PlaceFacts
  <2>3. \A u \in Threads \ {current} : pc'[u] = pc[u] /\ obj'[u] = obj[u]
    BY <2>1, GoFacts
  <2> QED BY <2>1, <2>2, <2>3, PlacesKept
<1>5. CASE Interrupt \/ EventSet \/ EventInit \/ MutexInit \/ MutexTake \/ MutexGive
  BY <1>5, <1>1 DEF Interrupt, EventSet, EventInit, MutexInit, MutexTake, MutexGive
<1>6. CASE Move
  <2>1. "initial_thread_func" \notin LoopPCs /\ MovePCs \cap LoopPCs = {}
    BY MovePlaces DEF LoopPCs, WakeLoops
  <2>2. Runs(state[current])
    BY <1>6, <2>1, CurrentRuns DEF Move, Runs
  <2>3. PICK p, o : p \in MovePCs /\ Go(p, o)
    BY <1>6 DEF Move
  <2> QED BY <1>2, <1>6, <2>2, <2>3 DEF Move
<1>7. CASE LoopEnd
  <2>1. CASE pc[current] \in {"exit_signal", "exit_resched"}
    <3>1. Go("dead", NoObject) /\ KeepStates({})
      BY <1>7, <2>1 DEF LoopEnd
    <3>2. state[current] = "DEATH" /\ state'[current] = "DEATH"
      BY <1>t, <2>1, <3>1, CurrentRuns DEF KeepStates, Runs
    <3>3. Place(state'[current], pc'[current], obj'[current])
      BY <3>1, <3>2, GoFacts, PlaceFacts
    <3>4. \A u \in Threads \ {current} : pc'[u] = pc[u] /\ obj'[u] = obj[u]
      BY <3>1, GoFacts
    <3>5. KeepStates({current})
      BY <3>1 DEF KeepStates
    <3> QED BY <3>3, <3>4, <3>5, PlacesKept
  <2>2. CASE pc[current] \notin {"exit_signal", "exit_resched"}
    <3>1. PICK p \in {"user", "wake_return"} : Go(p, NoObject)
      BY <1>7, <2>2 DEF LoopEnd
    <3>2. Runs(state[current]) /\ KeepStates({})
      BY <1>7, <2>2, CurrentRuns DEF LoopEnd
    <3> QED BY <1>2, <3>1, <3>2, MovePlaces
  <2> QED BY <2>1, <2>2
<1>8. CASE Resume
  <2> DEFINE t == obj[current]
  <2>1. PICK p \in MovePCs : Go(p, NoObject)
    BY <1>8 DEF Resume
  <2>2. /\ t \in Threads /\ state[t] = "SUSPENDED" /\ Runs(state'[t]) /\ KeepStates({t})
        /\ pc[current] \in ResumePCs
    BY <1>8 DEF Resume
  <2>3. pc[current] \notin LoopPCs
    BY <2>2, MovePlaces
  <2>4. t # current /\ Runs(state[current])
    BY <2>2, <2>3, CurrentRuns DEF Runs
  <2>5. Runs(state'[current])
    BY <1>t, <2>2, <2>4 DEF KeepStates, Runs
  <2>6. Place(state'[current], pc'[current], obj'[current])
    BY <2>1, <2>5, GoFacts, PlaceFacts
  <2>7. pc[t] = "initial_thread_func" /\ pc'[t] = pc[t] /\ obj'[t] = obj[t]
    BY <1>u, <2>1, <2>2, <2>4, GoFacts DEF Place
  <2>8. Place(state'[t], pc'[t], obj'[t])
    BY <1>u, <2>2, <2>7, PlaceFacts
  <2>9. \A u \in Threads \ {t, current} : pc'[u] = pc[u] /\ obj'[u] = obj[u]
    BY <2>1, GoFacts
  <2>10. KeepStates({t, current})
    BY <2>2 DEF KeepStates
  <2> QED BY <2>6, <2>8, <2>9, <2>10, PlacesKept
<1>9. CASE Create
  <2>1. PICK t \in Threads, p \in ResumePCs :
          /\ pc[current] \in MovePCs /\ state[t] = "NONE"
          /\ state' = [state EXCEPT ![t] = "SUSPENDED"]
          /\ pc' = [pc EXCEPT ![t] = "initial_thread_func", ![current] = p]
          /\ obj' = [obj EXCEPT ![current] = t]
    BY <1>9 DEF Create
  <2>2. state[current] = "RUNNING" /\ t # current
    BY <2>1, CurrentRuns
  <2>3. /\ pc'[t] = "initial_thread_func" /\ pc'[current] = p
        /\ \A u \in Threads \ {t, current} : pc'[u] = pc[u] /\ obj'[u] = obj[u]
    BY <1>t, <2>1, <2>2
  <2>4. /\ state'[t] = "SUSPENDED"
        /\ \A u \in Threads \ {t} : state'[u] = state[u]
    BY <1>t, <2>1 DEF StateFunctions
  <2>5. Place(state'[t], pc'[t], obj'[t])
    BY <2>3, <2>4, PlaceFacts
  <2>6. Place(state'[current], pc'[current], obj'[current])
    BY <1>t, <2>1, <2>2, <2>3, <2>4, PlaceFacts, MovePlaces DEF Runs
  <2>7. KeepStates({t, current})
    BY <2>4 DEF KeepStates
  <2> QED BY <2>3, <2>5, <2>6, <2>7, PlacesKept
<1>10. CASE Sleep
  <2>1. /\ state'[current] = "SLEEPING" /\ KeepStates({current})
        /\ Go("switch_return", NoObject)
    BY <1>10 DEF Sleep
  <2>2. Place(state'[current], pc'[current], obj'[current])
    BY <2>1, GoFacts, PlaceFacts
  <2>3. \A u \in Threads \ {current} : pc'[u] = pc[u] /\ obj'[u] = obj[u]
    BY <2>1, GoFacts
  <2> QED BY <2>1, <2>2, <2>3, PlacesKept
<1>11. CASE MutexBlock
  BY <1>4, <1>11 DEF MutexBlock
<1>12. CASE EventBlock
  BY <1>4, <1>12 DEF EventBlock
<1>13. CASE MutexHandOver \/ EventHandOver \/ WakeTurn
  BY <1>3, <1>13 DEF MutexHandOver, EventHandOver, WakeTurn
<1>14. CASE TimerFires
  <2> DEFINE t == Head(timer_queue)
  <2>1. KeepCalls /\ t \in Threads
    BY <1>14 DEF TimerFires
  <2>2. CASE state[t] = "SLEEPING" /\ Runs(state'[t]) /\ KeepStates({t})
    <3>1. pc[t] = "switch_return"
      BY <1>u, <2>1, <2>2 DEF Place
    <3>2. Place(state'[t], pc'[t], obj'[t])
      BY <1>u, <2>1, <2>2, <3>1, PlaceFacts DEF KeepCalls
    <3>3. \A u \in Threads \ {t} : pc'[u] = pc[u] /\ obj'[u] = obj[u]
      BY <2>1 DEF KeepCalls
    <3> QED BY <2>1, <2>2, <3>2, <3>3, PlacesKept
  <2>3. CASE Woken(obj[t], t, Without(wait[obj[t]], t), ERR_TIMED_OUT)
    BY <1>3, <2>1, <2>3
  <2>4. CASE KeepStates({})
    BY <1>1, <2>1, <2>4
  <2> QED BY <1>14, <2>2, <2>3, <2>4 DEF TimerFires
<1>15. ASSUME NEW o, NEW p \in LoopPCs, LoopBegin(o, p)
       PROVE  StatePlaces'
  <2>1. Runs(state[current])
    BY <1>15, CurrentRuns DEF LoopBegin, Runs
  <2> QED BY <1>2, <1>15, <2>1 DEF LoopBegin
<1>16. CASE MutexDestroy \/ EventDestroy \/ EventSignalAll
  <2>1. {"destroy_all", "signal_all", "signal_all_noresched"} \subseteq LoopPCs
    BY DEF LoopPCs, WakeLoops
  <2> QED BY <1>15, <1>16, <2>1 DEF MutexDestroy, EventDestroy, EventSignalAll
<1>17. CASE MutexReturn
  <2>1. Runs(state[current]) /\ "user" \in MovePCs
    BY <1>17, CurrentRuns DEF MutexReturn, WaitPCs, Runs
  <2> QED BY <1>2, <1>17, <2>1 DEF MutexReturn
<1>18. CASE EventReturn
  <2>1. Runs(state[current])
    BY <1>18, CurrentRuns DEF EventReturn, WaitPCs, Runs
  <2>2. PICK p \in {"user", "dpc_pop"} : Go(p, NoObject)
    BY <1>18 DEF EventReturn
  <2> QED BY <1>2, <1>18, <2>1, <2>2, MovePlaces DEF EventReturn
<1>19. CASE Exit
  <2>1. PICK p \in {"exit_resched", "exit_signal"} : Go(p, DpcEvent)
    BY <1>19 DEF Exit
  <2>2. state'[current] = "DEATH" /\ KeepStates({current})
    BY <1>19, <1>t DEF Exit, StateFunctions, KeepStates
  <2>3. Place(state'[current], pc'[current], obj'[current])
    BY <2>1, <2>2, GoFacts, PlaceFacts
  <2>4. \A u \in Threads \ {current} : pc'[u] = pc[u] /\ obj'[u] = obj[u]
    BY <2>1, GoFacts
  <2> QED BY <2>2, <2>3, <2>4, PlacesKept
<1>20. CASE DpcThrough \/ DpcNone \/ DpcTake
  <2>1. Runs(state[current])
    BY <1>20, CurrentRuns, MovePlaces DEF DpcThrough, DpcNone, DpcTake, Runs
  <2>2. PICK p, o : p \in {"dpc_pop", "dpc_wait", "thread_cleanup_dpc"} /\ Go(p, o)
    BY <1>20 DEF DpcThrough, DpcNone, DpcTake
  <2> QED BY <1>2, <1>20, <2>1, <2>2, MovePlaces DEF DpcThrough, DpcNone, DpcTake
<1>21. CASE Cleanup
  <2> DEFINE t == obj[current]
  <2>1. /\ pc[current] = "thread_cleanup_dpc" /\ t \in Threads /\ state[t] = "DEATH"
        /\ state' = [state EXCEPT ![t] = "NONE"] /\ Go("dpc_wait", NoObject)
    BY <1>21 DEF Cleanup
  <2>2. pc[current] \notin LoopPCs
    BY <2>1 DEF LoopPCs, WakeLoops
  <2>3. state[current] = "RUNNING" /\ t # current
    BY <2>1, <2>2, CurrentRuns
  <2>4. pc[t] = "dead" /\ pc'[t] = pc[t] /\ obj'[t] = obj[t]
    <3>1. pc[t] \in {"exit_signal", "exit_resched", "dead"}
      BY <1>u, <2>1 DEF Place
    <3>2. pc[t] \notin LoopPCs
      BY <2>1, <2>3, CurrentRuns
    <3> QED BY <2>1, <2>3, <3>1, <3>2, GoFacts DEF LoopPCs, WakeLoops
  <2>5. /\ state'[t] = "NONE"
        /\ \A u \in Threads \ {t} : state'[u] = state[u]
    BY <1>t, <2>1 DEF StateFunctions
  <2>6. Place(state'[t], pc'[t], obj'[t])
    BY <2>4, <2>5, PlaceFacts
  <2>7. Place(state'[current], pc'[current], obj'[current])
    BY <1>t, <2>1, <2>3, <2>5, GoFacts, PlaceFacts, MovePlaces DEF Runs
  <2>8. KeepStates({t, current})
    BY <2>5 DEF KeepStates
  <2>9. \A u \in Threads \ {t, current} : pc'[u] = pc[u] /\ obj'[u] = obj[u]
    BY <2>1, GoFacts
  <2> QED BY <2>6, <2>7, <2>8, <2>9, PlacesKept
<1> QED BY <1>5, <1>6, <1>7, <1>8, <1>9, <1>10, <1>11, <1>12, <1>13, <1>14, <1>16, <1>17,
           <1>18, <1>19, <1>20, <1>21 DEF Effect

\* Places outside of the wake loops say nothing of their object.
LEMMA LoopPlaceFacts ==
  /\ \A p, o, d : p \notin WakeLoops => LoopPlace(p, o, d)
  /\ \A p, o, d, e : LoopPlace(p, o, d) /\ (d \subseteq e) => LoopPlace(p, o, e)
  /\ \A p, o, d, x : LoopPlace(p, o, d) /\ o # x => LoopPlace(p, o, d \ {x})
  /\ (MovePCs \cup WaitPCs) \cap WakeLoops = {}
  /\ "initial_thread_func" \notin WakeLoops /\ "dead" \notin WakeLoops
  /\ "thread_cleanup_dpc" \notin WakeLoops /\ "exit_resched" \notin WakeLoops
  /\ WakeLoops \subseteq LoopPCs
<1>1. WakeLoops \subseteq LoopPCs
  BY DEF LoopPCs
<1>2. (MovePCs \cup WaitPCs) \cap LoopPCs = {}
  BY MovePlaces DEF LoopPCs, WakeLoops, WaitPCs, MutexPCs, EventPCs
<1>3. /\ \A p, o, d : p \notin WakeLoops => LoopPlace(p, o, d)
      /\ \A p, o, d, e : LoopPlace(p, o, d) /\ (d \subseteq e) => LoopPlace(p, o, e)
      /\ \A p, o, d, x : LoopPlace(p, o, d) /\ o # x => LoopPlace(p, o, d \ {x})
  BY DEF LoopPlace, WakeLoops
<1> QED BY <1>1, <1>2, <1>3 DEF WakeLoops

\* LoopObjects survives every step.
LEMMA LoopObjectsStep ==
  ASSUME KernelInv, LoopObjects, Effect
  PROVE  LoopObjects'
<1>t. /\ current \in Threads /\ DOMAIN pc = Threads /\ DOMAIN obj = Threads
      /\ autounsignal \in [AllEvents -> BOOLEAN] /\ DpcEvent \in AllEvents
      /\ DpcEvent \notin Events
  BY EffectTypes, ObjectsAssumption DEF AllEvents
<1>u. ~autounsignal[DpcEvent] /\ \A u \in Threads : LoopPlace(pc[u], obj[u], destroyed)
  BY DEF LoopObjects
<1>1. ASSUME KeepCalls, destroyed \subseteq destroyed',
             autounsignal'[DpcEvent] = autounsignal[DpcEvent]
      PROVE  LoopObjects'
  BY <1>1, <1>u, LoopPlaceFacts DEF KeepCalls, LoopObjects
<1>2. ASSUME NEW p, NEW o, Go(p, o), LoopPlace(p, o, destroyed'),
             destroyed \subseteq destroyed',
             autounsignal'[DpcEvent] = autounsignal[DpcEvent]
      PROVE  LoopObjects'
  BY <1>2, <1>u, GoFacts, LoopPlaceFacts DEF LoopObjects
<1>3. ASSUME NEW p \in MovePCs \cup WaitPCs \cup {"dead", "thread_cleanup_dpc"}, NEW o,
             Go(p, o), KeepMutexes, autounsignal'[DpcEvent] = autounsignal[DpcEvent]
      PROVE  LoopObjects'
  BY <1>2, <1>3, LoopPlaceFacts DEF KeepMutexes
<1>4. ASSUME NEW x, Quiescent(x), KeepCalls, destroyed' = destroyed \ {x},
             autounsignal'[DpcEvent] = autounsignal[DpcEvent]
      PROVE  LoopObjects'
  BY <1>4, <1>u, LoopPlaceFacts DEF KeepCalls, LoopObjects, Quiescent
<1>5. CASE Interrupt \/ EventSet \/ MutexTake \/ MutexGive \/ TimerFires \/ WakeTurn
  BY <1>1, <1>5
     DEF Interrupt, EventSet, MutexTake, MutexGive, TimerFires, WakeTurn, KeepMutexes, KeepEvents
<1>6. CASE Move \/ Resume \/ Sleep
  <2>1. "switch_return" \in MovePCs
    BY MovePlaces
  <2>2. PICK p, o : p \in MovePCs /\ Go(p, o)
    BY <1>6, <2>1 DEF Move, Resume, Sleep
  <2> QED BY <1>3, <1>6, <2>2 DEF Move, Resume, Sleep, KeepEvents
<1>7. CASE LoopEnd
  <2>1. PICK p \in {"dead", "user", "wake_return"} : Go(p, NoObject)
    BY <1>7 DEF LoopEnd
  <2> QED BY <1>3, <1>7, <2>1, MovePlaces DEF LoopEnd, KeepEvents
<1>8. CASE Create
  <2>1. PICK t \in Threads, p \in ResumePCs :
          /\ pc' = [pc EXCEPT ![t] = "initial_thread_func", ![current] = p]
          /\ obj' = [obj EXCEPT ![current] = t]
          /\ KeepMutexes /\ KeepEvents
    BY <1>8 DEF Create
  <2>2. \A u \in Threads : \/ pc'[u] \in {"initial_thread_func", p}
                           \/ pc'[u] = pc[u] /\ obj'[u] = obj[u]
    BY <1>t, <2>1
  <2>3. p \notin WakeLoops /\ "initial_thread_func" \notin WakeLoops
    BY LoopPlaceFacts, MovePlaces
  <2>4. \A u \in Threads : LoopPlace(pc'[u], obj'[u], destroyed)
    BY <1>u, <2>2, <2>3, LoopPlaceFacts
  <2> QED BY <1>u, <2>1, <2>4 DEF LoopObjects, KeepMutexes, KeepEvents
<1>9. CASE MutexBlock
  <2>1. PICK m \in Mutexes, p \in MutexPCs :
          /\ BlockOn(m, p) /\ destroyed' = destroyed /\ KeepEvents
    BY <1>9 DEF MutexBlock
  <2>2. LoopPlace(p, m, destroyed')
    BY LoopPlaceFacts DEF WaitPCs
  <2> QED BY <1>2, <2>1, <2>2 DEF BlockOn, KeepEvents
<1>10. CASE EventBlock
  <2>1. PICK e \in AllEvents, p \in EventPCs : BlockOn(e, p) /\ KeepMutexes /\ KeepEvents
    BY <1>10 DEF EventBlock
  <2> QED BY <1>3, <2>1 DEF BlockOn, KeepEvents, WaitPCs
<1>11. CASE MutexHandOver
  <2>1. Go("wake_return", NoObject) /\ destroyed' = destroyed /\ KeepEvents
    BY <1>11 DEF MutexHandOver
  <2>2. LoopPlace("wake_return", NoObject, destroyed')
    BY LoopPlaceFacts, MovePlaces
  <2> QED BY <1>2, <2>1, <2>2 DEF KeepEvents
<1>12. CASE EventHandOver
  <2>1. (Go("wake_return", NoObject) \/ KeepCalls) /\ KeepMutexes /\ KeepEvents
    BY <1>12 DEF EventHandOver
  <2> QED BY <1>1, <1>3, <2>1, MovePlaces DEF KeepEvents, KeepMutexes
<1>13. CASE MutexDestroy
  <2>1. PICK m \in Mutexes, p \in {"destroy_all", "signal_all_noresched"} :
          LoopBegin(m, p) /\ destroyed' = destroyed \cup {m} /\ KeepEvents
    BY <1>13 DEF MutexDestroy
  <2>2. LoopPlace(p, m, destroyed')
    BY <2>1 DEF LoopPlace
  <2> QED BY <1>2, <2>1, <2>2 DEF LoopBegin, KeepEvents
<1>14. CASE EventDestroy
  <2>1. PICK e \in Events, p \in {"destroy_all", "signal_all_noresched"} :
          /\ LoopBegin(e, p) /\ destroyed' = destroyed \cup {e}
          /\ autounsignal' = [autounsignal EXCEPT ![e] = FALSE]
    BY <1>14 DEF EventDestroy
  <2>2. LoopPlace(p, e, destroyed')
    BY <2>1 DEF LoopPlace
  <2>3. autounsignal'[DpcEvent] = autounsignal[DpcEvent]
    BY <1>t, <2>1
  <2> QED BY <1>2, <2>1, <2>2, <2>3 DEF LoopBegin
<1>15. CASE EventSignalAll
  <2>1. PICK e \in Events, p \in {"signal_all", "signal_all_noresched"} :
          LoopBegin(e, p) /\ KeepMutexes /\ autounsignal' = autounsignal
    BY <1>15 DEF EventSignalAll
  <2>2. LoopPlace(p, e, destroyed')
    BY <2>1 DEF LoopPlace, AllEvents
  <2> QED BY <1>2, <2>1, <2>2 DEF LoopBegin, KeepMutexes
<1>16. CASE EventInit
  <2>1. PICK e \in Events, f \in BOOLEAN :
          /\ Quiescent(e) /\ KeepCalls /\ destroyed' = destroyed \ {e}
          /\ autounsignal' = [autounsignal EXCEPT ![e] = f]
    BY <1>16 DEF EventInit
  <2>2. autounsignal'[DpcEvent] = autounsignal[DpcEvent]
    BY <1>t, <2>1
  <2> QED BY <1>4, <2>1, <2>2
<1>17. CASE MutexInit
  BY <1>4, <1>17 DEF MutexInit, KeepEvents
<1>18. CASE MutexReturn
  <2>1. Go("user", NoObject) /\ destroyed' = destroyed /\ KeepEvents
    BY <1>18 DEF MutexReturn
  <2>2. LoopPlace("user", NoObject, destroyed')
    BY LoopPlaceFacts, MovePlaces
  <2> QED BY <1>2, <2>1, <2>2 DEF KeepEvents
<1>19. CASE EventReturn \/ DpcThrough \/ DpcNone \/ DpcTake \/ Cleanup
  <2>1. PICK p, o : p \in {"user", "dpc_pop", "dpc_wait", "thread_cleanup_dpc"} /\ Go(p, o)
    BY <1>19 DEF EventReturn, DpcThrough, DpcNone, DpcTake, Cleanup
  <2>2. KeepMutexes /\ autounsignal' = autounsignal
    BY <1>19 DEF EventReturn, DpcThrough, DpcNone, DpcTake, Cleanup, KeepEvents
  <2> QED BY <1>3, <2>1, <2>2, MovePlaces
<1>20. CASE Exit
  <2>1. PICK p \in {"exit_resched", "exit_signal"} : Go(p, DpcEvent)
    BY <1>20 DEF Exit
  <2>2. LoopPlace(p, DpcEvent, destroyed')
    BY <1>t DEF LoopPlace
  <2> QED BY <1>2, <1>20, <2>1, <2>2 DEF Exit, KeepMutexes
<1> QED BY <1>5, <1>6, <1>7, <1>8, <1>9, <1>10, <1>11, <1>12, <1>13, <1>14, <1>15, <1>16,
           <1>17, <1>18, <1>19, <1>20 DEF Effect

-----------------------------------------------------------------------------
(* Events: nobody waits for a signalled event.                             *)

\* A signalled event has no waiters.
Clear == \A e \in AllEvents : signalled[e] => wait[e] = <<>>

\* A thread leaves the list of one queue only, which was not empty.
LEMMA WokenClear ==
  ASSUME KernelInv, NEW o, NEW t, NEW list, NEW ret, Woken(o, t, list, ret),
         NEW e \in Queues, wait[e] = <<>>
  PROVE  wait'[e] = <<>>
<1>1. wait' = [wait EXCEPT ![o] = list] /\ OccursIn(t, wait[o])
  BY DEF Woken
<1>2. o # e
  BY <1>1 DEF OccursIn
<1>3. DOMAIN wait = Queues
  BY EffectTypes DEF WaitLists
<1> QED BY <1>1, <1>2, <1>3

\* NoMissedSignal survives every step.
LEMMA SignalStep ==
  ASSUME KernelInv, LoopObjects, NoMissedSignal, Effect
  PROVE  NoMissedSignal'
<1>t. /\ current \in Threads /\ DOMAIN wait = Queues /\ AllEvents \subseteq Queues
      /\ DOMAIN signalled = AllEvents
      /\ Events \subseteq AllEvents /\ DpcEvent \in AllEvents
      /\ \A e \in AllEvents : signalled[e] \in BOOLEAN
      /\ Mutexes \cap AllEvents = {}
  BY EffectTypes, ObjectsAssumption DEF WaitLists, Queues, AllEvents
<1>1. Clear' => NoMissedSignal'
  BY DEF Clear, NoMissedSignal
<1>2. pc[current] \notin WakeLoops => Clear
  BY DEF Clear, NoMissedSignal
<1>3. pc[current] \in MovePCs \cup WaitPCs \cup
        {"initial_thread_func", "thread_cleanup_dpc", "exit_resched"} => Clear
  BY <1>2, LoopPlaceFacts
<1>m. {"user", "dpc_wait", "dpc_pop"} \subseteq MovePCs
  BY MovePlaces
\* Lists and signals are kept.
<1>4. ASSUME Clear, wait' = wait, signalled' = signalled
      PROVE  NoMissedSignal'
  BY <1>1, <1>4 DEF Clear
<1>5. ASSUME Clear, NEW o, NEW t, NEW list, NEW ret, Woken(o, t, list, ret),
             signalled' = signalled
      PROVE  NoMissedSignal'
  <2>1. Clear'
    BY <1>5, <1>t, WokenClear DEF Clear
  <2> QED BY <1>1, <2>1
<1>6. CASE Interrupt
  <2>1. /\ wait' = wait /\ signalled' = signalled /\ pc' = pc /\ obj' = obj
        /\ current' = current \/ pc[current] \notin LoopPCs
    BY <1>6 DEF Interrupt, KeepWaits, KeepEvents, KeepCalls
  <2>2. CASE current' = current
    BY <2>1, <2>2 DEF NoMissedSignal
  <2>3. CASE pc[current] \notin LoopPCs
    BY <1>2, <1>4, <2>1, <2>3, LoopPlaceFacts
  <2> QED BY <2>1, <2>2, <2>3
<1>7. CASE Move \/ Create \/ Sleep \/ MutexDestroy \/ MutexTake \/ MutexGive
           \/ MutexReturn \/ EventReturn \/ DpcTake \/ Cleanup
  <2>1. pc[current] \in MovePCs \cup WaitPCs \cup {"initial_thread_func", "thread_cleanup_dpc"}
    BY <1>7, <1>m DEF Move, Create, Sleep, MutexDestroy, LoopBegin, MutexTake, MutexGive,
       MutexReturn, EventReturn, DpcTake, Cleanup, WaitPCs
  <2>2. wait' = wait /\ signalled' = signalled
    BY <1>7 DEF Move, Create, Sleep, MutexDestroy, LoopBegin, MutexTake, MutexGive,
       MutexReturn, EventReturn, DpcTake, Cleanup, KeepWaits, KeepEvents
  <2> QED BY <1>3, <1>4, <2>1, <2>2
<1>8. CASE Resume
  BY <1>3, <1>4, <1>8, MovePlaces DEF Resume, KeepWaits, KeepEvents
<1>9. CASE LoopEnd
  <2>1. wait' = wait /\ signalled' = signalled
    BY <1>9 DEF LoopEnd, KeepWaits, KeepEvents
  <2>2. Clear
    <3>1. CASE pc[current] = "exit_resched"
      BY <1>3, <3>1
    <3>2. CASE wait[obj[current]] = <<>>
      BY <3>2 DEF NoMissedSignal, Clear
    <3>3. CASE pc[current] = "exit_signal" /\ wait[DpcEvent] = <<>>
      <4>1. obj[current] = DpcEvent
        BY <1>t, <3>3 DEF LoopObjects, LoopPlace
      <4> QED BY <3>3, <4>1 DEF NoMissedSignal, Clear
    <3> QED BY <1>9, <3>1, <3>2, <3>3 DEF LoopEnd
  <2> QED BY <1>4, <2>1, <2>2
<1>10. CASE MutexBlock
  <2>1. PICK m \in Mutexes : wait' = [wait EXCEPT ![m] = Append(@, current)]
    BY <1>10 DEF MutexBlock, BlockOn
  <2>2. signalled' = signalled /\ Clear
    BY <1>3, <1>10, <1>m DEF MutexBlock, KeepEvents
  <2>3. Clear'
    BY <1>t, <2>1, <2>2 DEF Clear
  <2> QED BY <1>1, <2>3
<1>11. CASE EventBlock
  <2>1. PICK e \in AllEvents :
          ~signalled[e] /\ wait' = [wait EXCEPT ![e] = Append(@, current)]
    BY <1>11 DEF EventBlock, BlockOn
  <2>2. signalled' = signalled /\ Clear
    BY <1>3, <1>11, <1>m DEF EventBlock, KeepEvents
  <2>3. Clear'
    BY <1>t, <2>1, <2>2 DEF Clear
  <2> QED BY <1>1, <2>3
<1>12. CASE MutexHandOver \/ EventHandOver
  <2>1. Clear /\ signalled' = signalled
    BY <1>3, <1>12, <1>m DEF MutexHandOver, EventHandOver, KeepEvents
  <2> QED BY <1>5, <1>12, <2>1 DEF MutexHandOver, EventHandOver
<1>13. CASE WakeTurn
  <2> DEFINE o == obj[current]
  <2>1. /\ current' = current /\ pc' = pc /\ obj' = obj /\ signalled' = signalled
        /\ wait' = [wait EXCEPT ![o] = Tail(wait[o])] /\ pc[current] \in WakeLoops
    BY <1>13 DEF WakeTurn, Woken, KeepCalls, KeepEvents
  <2>2. ASSUME NEW e \in AllEvents, signalled[e], wait'[e] # <<>>
        PROVE  o = e
    <3>1. CASE o # e
      BY <1>t, <2>1, <2>2, <3>1 DEF NoMissedSignal
    <3> QED BY <3>1
  <2> QED BY <2>1, <2>2 DEF NoMissedSignal
<1>14. CASE TimerFires
  <2>1. Clear /\ signalled' = signalled
    BY <1>2, <1>14, LoopPlaceFacts DEF TimerFires, KeepEvents
  <2>2. CASE KeepWaits
    BY <1>4, <2>1, <2>2 DEF KeepWaits
  <2>3. CASE \E o, t, list, ret : Woken(o, t, list, ret)
    BY <1>5, <2>1, <2>3
  <2> QED BY <1>14, <2>2, <2>3 DEF TimerFires
\* A signal changes: the event is not signalled, or it has no waiters, or the
\* current thread is about to wake them.
<1>15. ASSUME Clear, wait' = wait, NEW e \in AllEvents, NEW b \in BOOLEAN,
              signalled' = [signalled EXCEPT ![e] = b], b => signalled[e] \/ wait[e] = <<>>
       PROVE  NoMissedSignal'
  <2>1. Clear'
    BY <1>t, <1>15 DEF Clear
  <2> QED BY <1>1, <2>1
<1>16. ASSUME Clear, wait' = wait, NEW e \in AllEvents, NEW p \in WakeLoops, Go(p, e),
              current' = current, signalled' = [signalled EXCEPT ![e] = TRUE]
       PROVE  NoMissedSignal'
  <2>1. pc'[current'] = p /\ obj'[current'] = e
    BY <1>16, GoFacts
  <2> QED BY <1>t, <1>16, <2>1 DEF Clear, NoMissedSignal
<1>17. CASE EventDestroy
  <2>1. PICK e \in Events : signalled' = [signalled EXCEPT ![e] = FALSE]
    BY <1>17 DEF EventDestroy
  <2>2. wait' = wait /\ Clear
    BY <1>3, <1>17, <1>m DEF EventDestroy, LoopBegin, KeepWaits
  <2> QED BY <1>15, <1>t, <2>1, <2>2
<1>18. CASE EventSignalAll
  <2>1. PICK e \in Events, p \in {"signal_all", "signal_all_noresched"} :
          LoopBegin(e, p) /\ signalled' = [signalled EXCEPT ![e] = TRUE]
    BY <1>18 DEF EventSignalAll
  <2>2. wait' = wait /\ Clear /\ current' = current /\ Go(p, e) /\ p \in WakeLoops
    BY <1>3, <1>m, <2>1 DEF LoopBegin, KeepWaits, WakeLoops
  <2> QED BY <1>16, <1>t, <2>1, <2>2
<1>19. CASE EventSet
  <2>1. PICK e \in Events, b \in BOOLEAN :
          /\ b => signalled[e] \/ wait[e] = <<>>
          /\ signalled' = [signalled EXCEPT ![e] = b]
          /\ wait' = wait /\ KeepCalls /\ current' = current
    BY <1>19 DEF EventSet, KeepWaits
  <2>2. \A x \in AllEvents : signalled'[x] /\ wait'[x] # <<>> => signalled[x] /\ wait[x] # <<>>
    BY <1>t, <2>1
  <2> QED BY <2>1, <2>2 DEF NoMissedSignal, KeepCalls
<1>20. CASE EventInit
  <2>1. PICK e \in Events, b \in BOOLEAN :
          /\ signalled' = [signalled EXCEPT ![e] = b]
          /\ wait' = [wait EXCEPT ![e] = <<>>]
    BY <1>20 DEF EventInit
  <2>2. Clear
    BY <1>3, <1>20, <1>m DEF EventInit
  <2>3. Clear'
    BY <1>t, <2>1, <2>2 DEF Clear
  <2> QED BY <1>1, <2>3
<1>21. CASE MutexInit
  <2>1. PICK m \in Mutexes : wait' = [wait EXCEPT ![m] = <<>>]
    BY <1>21 DEF MutexInit
  <2>2. Clear /\ signalled' = signalled
    BY <1>3, <1>21, <1>m DEF MutexInit, KeepEvents
  <2>3. Clear'
    BY <1>t, <2>1, <2>2 DEF Clear
  <2> QED BY <1>1, <2>3
<1>22. CASE Exit
  <2>1. /\ Clear /\ wait' = wait /\ current' = current
        /\ signalled' = [signalled EXCEPT ![DpcEvent] = TRUE]
        /\ Go(IF signalled[DpcEvent] THEN "exit_resched" ELSE "exit_signal", DpcEvent)
    BY <1>3, <1>22, <1>m DEF Exit, KeepWaits
  <2>2. CASE signalled[DpcEvent]
    BY <1>15, <1>t, <2>1, <2>2
  <2>3. CASE ~signalled[DpcEvent]
    <3>1. Go("exit_signal", DpcEvent) /\ "exit_signal" \in WakeLoops
      BY <2>1, <2>3 DEF WakeLoops
    <3> QED BY <1>16, <1>t, <2>1, <3>1
  <2> QED BY <2>2, <2>3
<1>23. CASE DpcThrough
  <2>1. /\ Clear /\ wait' = wait /\ signalled[DpcEvent]
        /\ signalled' = [signalled EXCEPT ![DpcEvent] = ~autounsignal[DpcEvent]]
    BY <1>3, <1>23, <1>m DEF DpcThrough, KeepWaits
  <2>2. (~autounsignal[DpcEvent]) \in BOOLEAN
    BY Zenon
  <2> QED BY <1>15, <1>t, <2>1, <2>2
<1>24. CASE DpcNone
  <2>1. /\ Clear /\ wait' = wait /\ signalled' = [signalled EXCEPT ![DpcEvent] = FALSE]
    BY <1>3, <1>24, <1>m DEF DpcNone, KeepWaits
  <2> QED BY <1>15, <1>t, <2>1
<1> QED BY <1>6, <1>7, <1>8, <1>9, <1>10, <1>11, <1>12, <1>13, <1>14, <1>17, <1>18, <1>19,
           <1>20, <1>21, <1>22, <1>23, <1>24 DEF Effect

-----------------------------------------------------------------------------
(* Dead threads: each is queued for the dpc thread, or being cleaned up.   *)

Cleaning(t) == pc[DpcThread] = "thread_cleanup_dpc" /\ obj[DpcThread] = t

DeadExact ==
  \A t \in Threads : /\ state[t] = "DEATH" <=> OccursIn(t, dpc_list) \/ Cleaning(t)
                     /\ Cleaning(t) => pc[t] = "dead"

DpcSignalled == dpc_list # <<>> => signalled[DpcEvent]

\* With the rest of the invariant, these two are DeadThreadsQueued.
LEMMA DeadParts ==
  ASSUME KernelInv, DeadExact, DpcSignalled
  PROVE  DeadThreadsQueued
<1>1. DpcThread \in Threads /\ CallsConsistent
  BY DEF Threads, KernelInv
<1>2. ASSUME NEW t \in Threads, Cleaning(t)
      PROVE  ~OccursIn(t, dpc_list)
  BY <1>1, <1>2 DEF CallsConsistent, Cleaning
<1>3. Distinct(dpc_list)
  BY <1>1 DEF CallsConsistent
<1> QED BY <1>2, <1>3 DEF DeadThreadsQueued, DeadExact, DpcSignalled, Cleaning

\* Steps that let nobody die and leave the dpc thread out of the cleanup.
LEMMA DeadKept ==
  ASSUME DeadExact, NEW S, KeepStates(S), dpc_list' = dpc_list,
         \A u \in Threads : u \in S => state[u] # "DEATH" /\ state'[u] # "DEATH",
         \/ pc'[DpcThread] = pc[DpcThread] /\ obj'[DpcThread] = obj[DpcThread]
         \/ /\ pc[DpcThread] # "thread_cleanup_dpc"
            /\ pc'[DpcThread] # "thread_cleanup_dpc",
         \A u \in Threads : pc[u] = "dead" /\ state[u] = "DEATH" => pc'[u] = "dead"
  PROVE  DeadExact'
<1> SUFFICES ASSUME NEW t \in Threads
             PROVE  /\ state'[t] = "DEATH" <=> OccursIn(t, dpc_list') \/ Cleaning(t)'
                    /\ Cleaning(t)' => pc'[t] = "dead"
  BY DEF DeadExact
<1>1. /\ state[t] = "DEATH" <=> OccursIn(t, dpc_list) \/ Cleaning(t)
      /\ Cleaning(t) => pc[t] = "dead"
  BY DEF DeadExact
<1>2. Cleaning(t)' <=> Cleaning(t)
  BY DEF Cleaning
<1>3. state'[t] = "DEATH" <=> state[t] = "DEATH"
  <2>1. CASE t \in S
    BY <2>1
  <2>2. CASE t \notin S
    BY <2>2 DEF KeepStates, Runs
  <2> QED BY <2>1, <2>2
<1> QED BY <1>1, <1>2, <1>3

\* The current thread goes on, and nobody dies or is cleaned up.
LEMMA DeadGo ==
  ASSUME KernelInv, DeadExact, NEW S, KeepStates(S), dpc_list' = dpc_list,
         \A u \in Threads : u \in S => state[u] # "DEATH" /\ state'[u] # "DEATH",
         NEW p, NEW o, Go(p, o), p # "thread_cleanup_dpc",
         pc[current] \notin {"thread_cleanup_dpc", "dead"}
  PROVE  DeadExact'
<1>1. \A u \in Threads : u # current => pc'[u] = pc[u] /\ obj'[u] = obj[u]
  BY GoFacts
<1>2. pc'[current] = p
  BY GoFacts
<1>3. DpcThread \in Threads
  BY DEF Threads
<1>4. \/ pc'[DpcThread] = pc[DpcThread] /\ obj'[DpcThread] = obj[DpcThread]
      \/ /\ pc[DpcThread] # "thread_cleanup_dpc"
         /\ pc'[DpcThread] # "thread_cleanup_dpc"
  BY <1>1, <1>2, <1>3
<1>5. \A u \in Threads : pc[u] = "dead" /\ state[u] = "DEATH" => pc'[u] = "dead"
  BY <1>1
<1> QED BY <1>4, <1>5, DeadKept

\* No call moves, and nobody dies or is cleaned up.
LEMMA DeadCalls ==
  ASSUME DeadExact, NEW S, KeepStates(S), dpc_list' = dpc_list, KeepCalls,
         \A u \in Threads : u \in S => state[u] # "DEATH" /\ state'[u] # "DEATH"
  PROVE  DeadExact'
BY DeadKept DEF KeepCalls

\* Both parts survive every step.
LEMMA DeadStep ==
  ASSUME KernelInv, StatePlaces, DeadExact, Effect
  PROVE  DeadExact'
<1>t. /\ current \in Threads /\ DOMAIN pc = Threads /\ DOMAIN obj = Threads
      /\ DOMAIN state = Threads /\ DpcThread \in Threads /\ dpc_list \in Seq(Threads)
  BY EffectTypes DEF Threads
<1>d. /\ \A p \in MovePCs \cup WaitPCs \cup LoopPCs \cup {"initial_thread_func"} :
            p \notin {"thread_cleanup_dpc", "dead"}
      /\ {"user", "wake_return", "switch_return", "dpc_wait", "dpc_pop"} \subseteq MovePCs
  <2>1. {"user", "wake_return", "switch_return", "dpc_wait", "dpc_pop"} \subseteq MovePCs
    BY MovePlaces
  <2>2. "thread_cleanup_dpc" \notin MovePCs /\ "dead" \notin MovePCs
    BY DEF MovePCs
  <2>3. \A p \in WaitPCs \cup LoopPCs : p \notin {"thread_cleanup_dpc", "dead"}
    BY DEF WaitPCs, LoopPCs, MutexPCs, EventPCs, WakeLoops
  <2> QED BY <2>1, <2>2, <2>3
<1>c. /\ pc[current] \notin LoopPCs => state[current] # "DEATH"
      /\ (MovePCs \cup WaitPCs) \cap LoopPCs = {}
  BY CurrentRuns
<1>n. /\ pc[current] \in DpcPCs => current = DpcThread
      /\ pc[current] = "thread_cleanup_dpc" => ~OccursIn(obj[current], dpc_list)
      /\ Distinct(dpc_list)
  BY <1>t DEF KernelInv, CallsConsistent
<1>1. CASE Interrupt \/ EventSet \/ EventInit \/ MutexInit \/ MutexTake \/ MutexGive
  <2>1. KeepStates({}) /\ dpc_list' = dpc_list /\ KeepCalls
    BY <1>1 DEF Interrupt, EventSet, EventInit, MutexInit, MutexTake, MutexGive, KeepDpcs
  <2> QED BY <2>1, DeadCalls
<1>2. ASSUME NEW o, NEW t, NEW list, NEW ret, Woken(o, t, list, ret)
      PROVE  /\ KeepStates({t})
             /\ \A u \in Threads : u \in {t} => state[u] # "DEATH" /\ state'[u] # "DEATH"
  BY <1>2 DEF Woken, Runs
<1>3. CASE WakeTurn \/ (EventHandOver /\ KeepCalls)
  <2>1. dpc_list' = dpc_list /\ KeepCalls /\ \E o, t, list, ret : Woken(o, t, list, ret)
    BY <1>3 DEF WakeTurn, EventHandOver, KeepDpcs
  <2> QED BY <1>2, <2>1, DeadCalls
<1>4. CASE TimerFires
  <2>1. dpc_list' = dpc_list /\ KeepCalls
    BY <1>4 DEF TimerFires, KeepDpcs
  <2>2. CASE KeepStates({})
    BY <2>1, <2>2, DeadCalls
  <2>3. CASE \E o, t, list, ret : Woken(o, t, list, ret)
    BY <1>2, <2>1, <2>3, DeadCalls
  <2>4. ASSUME NEW t, state[t] = "SLEEPING", Runs(state'[t]), KeepStates({t})
        PROVE  DeadExact'
    BY <2>1, <2>4, DeadCalls DEF Runs
  <2> QED BY <1>4, <2>2, <2>3, <2>4 DEF TimerFires
<1>5. CASE MutexHandOver \/ (EventHandOver /\ Go("wake_return", NoObject))
  <2>1. /\ dpc_list' = dpc_list /\ Go("wake_return", NoObject) /\ pc[current] = "user"
        /\ \E o, t, list, ret : Woken(o, t, list, ret)
    BY <1>5 DEF MutexHandOver, EventHandOver, KeepDpcs
  <2> QED BY <1>2, <1>d, <2>1, DeadGo
<1>6. ASSUME KeepStates({}), dpc_list' = dpc_list, NEW p, NEW o, Go(p, o),
             p # "thread_cleanup_dpc", pc[current] \notin {"thread_cleanup_dpc", "dead"}
      PROVE  DeadExact'
  BY <1>6, DeadGo
<1>7. CASE Move \/ LoopEnd \/ MutexReturn \/ EventReturn \/ DpcThrough \/ DpcNone
  <2>1. KeepStates({}) /\ dpc_list' = dpc_list
    BY <1>7 DEF Move, LoopEnd, MutexReturn, EventReturn, DpcThrough, DpcNone, KeepDpcs
  <2>3. PICK p, o : p \in ({"dead"} \cup MovePCs) /\ Go(p, o)
    <3>1. CASE Move
      BY <3>1 DEF Move
    <3>2. CASE LoopEnd
      BY <1>d, <3>2 DEF LoopEnd
    <3>3. CASE MutexReturn \/ EventReturn \/ DpcThrough \/ DpcNone
      BY <1>d, <3>3 DEF MutexReturn, EventReturn, DpcThrough, DpcNone
    <3> QED BY <1>7, <3>1, <3>2, <3>3
  <2>2. pc[current] \in MovePCs \cup WaitPCs \cup LoopPCs \cup {"initial_thread_func"}
    BY <1>7, <1>d DEF Move, LoopEnd, MutexReturn, EventReturn, DpcThrough, DpcNone, WaitPCs
  <2>4. p # "thread_cleanup_dpc"
    BY <1>d, <2>3
  <2>5. pc[current] \notin {"thread_cleanup_dpc", "dead"}
    BY <1>d, <2>2
  <2> QED BY <1>6, <2>1, <2>3, <2>4, <2>5
<1>8. CASE MutexDestroy \/ EventDestroy \/ EventSignalAll
  <2>1. PICK p, o : p \in LoopPCs /\ LoopBegin(o, p)
    BY <1>8 DEF MutexDestroy, EventDestroy, EventSignalAll, LoopPCs, WakeLoops
  <2> QED BY <1>6, <1>d, <2>1 DEF LoopBegin, KeepDpcs
<1>9. CASE Resume
  <2>1. pc[current] \in MovePCs
    BY <1>9, MovePlaces DEF Resume
  <2>2. PICK p \in MovePCs : Go(p, NoObject)
    BY <1>9 DEF Resume
  <2>3. /\ KeepStates({obj[current]}) /\ dpc_list' = dpc_list
        /\ \A u \in Threads : u \in {obj[current]} => state[u] # "DEATH" /\ state'[u] # "DEATH"
    BY <1>9 DEF Resume, KeepDpcs, Runs
  <2> QED BY <1>d, <2>1, <2>2, <2>3, DeadGo
<1>10. CASE Sleep \/ MutexBlock \/ EventBlock
  <2>1. pc[current] \in MovePCs
    BY <1>10, <1>d DEF Sleep, MutexBlock, EventBlock
  <2>2. PICK p, o : p \in (MovePCs \cup WaitPCs) /\ Go(p, o)
    BY <1>10, <1>d DEF Sleep, MutexBlock, EventBlock, BlockOn, WaitPCs
  <2>3. /\ KeepStates({current}) /\ dpc_list' = dpc_list
        /\ state'[current] \in {"SLEEPING", "BLOCKED"}
    BY <1>10 DEF Sleep, MutexBlock, EventBlock, BlockOn, KeepDpcs
  <2>4. \A u \in Threads : u \in {current} => state[u] # "DEATH" /\ state'[u] # "DEATH"
    BY <1>c, <2>1, <2>3
  <2> QED BY <1>d, <2>1, <2>2, <2>3, <2>4, DeadGo
<1>11. CASE Create
  <2>1. PICK t \in Threads, p \in ResumePCs :
          /\ pc[current] \in MovePCs /\ state[t] = "NONE"
          /\ state' = [state EXCEPT ![t] = "SUSPENDED"]
          /\ pc' = [pc EXCEPT ![t] = "initial_thread_func", ![current] = p]
          /\ obj' = [obj EXCEPT ![current] = t]
          /\ dpc_list' = dpc_list
    BY <1>11 DEF Create, KeepDpcs
  <2>2. KeepStates({t}) /\ state'[t] = "SUSPENDED" /\ p \in MovePCs
    BY <1>t, <2>1, MovePlaces DEF KeepStates
  <2>3. pc[t] = "dead"
    BY <2>1 DEF StatePlaces, Place
  <2>4. t # current
    BY <1>d, <2>1, <2>3
  <2>5. \A u \in Threads : pc[u] = "dead" /\ state[u] = "DEATH" => pc'[u] = "dead"
    BY <1>d, <1>t, <2>1
  <2>6. \/ pc'[DpcThread] = pc[DpcThread] /\ obj'[DpcThread] = obj[DpcThread]
        \/ /\ pc[DpcThread] # "thread_cleanup_dpc"
           /\ pc'[DpcThread] # "thread_cleanup_dpc"
    BY <1>d, <1>t, <2>1, <2>2, <2>3
  <2> QED BY <2>1, <2>2, <2>5, <2>6, DeadKept
<1>12. CASE Exit
  <2>1. /\ pc[current] = "user" /\ state' = [state EXCEPT ![current] = "DEATH"]
        /\ dpc_list' = Append(dpc_list, current)
        /\ \E p \in {"exit_resched", "exit_signal"} : Go(p, DpcEvent)
    BY <1>12 DEF Exit
  <2>2. \A t \in Threads : OccursIn(t, dpc_list') <=> OccursIn(t, dpc_list) \/ t = current
    <3>1. ~OccursIn(current, dpc_list)
      BY <1>c, <1>d, <1>t, <2>1 DEF DeadExact
    <3> QED BY <1>n, <1>t, <2>1, <3>1, AppendFacts
  <2>3. /\ \A u \in Threads : u # current => pc'[u] = pc[u] /\ obj'[u] = obj[u]
        /\ pc'[current] \in {"exit_resched", "exit_signal"}
    BY <2>1, GoFacts
  <2>4. \A t \in Threads : Cleaning(t)' <=> Cleaning(t)
    BY <1>t, <2>1, <2>3 DEF Cleaning
  <2>5. \A t \in Threads : Cleaning(t) => pc'[t] = "dead"
    BY <2>1, <2>3 DEF DeadExact
  <2>6. \A t \in Threads : state'[t] = "DEATH" <=> state[t] = "DEATH" \/ t = current
    BY <1>t, <2>1
  <2> QED BY <2>2, <2>4, <2>5, <2>6 DEF DeadExact
<1>13. CASE DpcTake
  <2> DEFINE h == Head(dpc_list)
  <2>1. /\ pc[current] = "dpc_pop" /\ dpc_list # <<>> /\ KeepStates({})
        /\ Go("thread_cleanup_dpc", h) /\ dpc_list' = Tail(dpc_list)
    BY <1>13 DEF DpcTake
  <2>2. current = DpcThread
    BY <1>n, <2>1 DEF DpcPCs
  <2>3. h \in Threads /\ OccursIn(h, dpc_list)
    BY <1>t, <2>1 DEF OccursIn
  <2>4. state[h] = "DEATH"
    BY <2>3 DEF DeadExact
  <2>5. pc[h] = "dead"
    <3>1. pc[h] \in {"exit_signal", "exit_resched", "dead"}
      BY <2>3, <2>4 DEF StatePlaces, Place
    <3>2. h # current
      BY <2>1, <3>1
    <3>3. pc[h] \notin LoopPCs
      BY <2>3, <3>2, CurrentRuns
    <3> QED BY <3>1, <3>3 DEF LoopPCs, WakeLoops
  <2>6. /\ pc'[DpcThread] = "thread_cleanup_dpc" /\ obj'[DpcThread] = h
        /\ \A u \in Threads : u # DpcThread => pc'[u] = pc[u]
    BY <2>1, <2>2, GoFacts
  <2>7. \A t \in Threads : OccursIn(t, dpc_list') <=> OccursIn(t, dpc_list) /\ t # h
    BY <1>n, <1>t, <2>1, TailFacts
  <2>8. \A t \in Threads : ~Cleaning(t)
    BY <2>1, <2>2 DEF Cleaning
  <2>9. \A t \in Threads : Cleaning(t)' <=> t = h
    BY <2>6 DEF Cleaning
  <2>10. \A t \in Threads : state'[t] = "DEATH" <=> state[t] = "DEATH"
    BY <2>1 DEF KeepStates, Runs
  <2>11. h # DpcThread
    BY <2>1, <2>2, <2>5
  <2>12. pc'[h] = "dead"
    BY <2>3, <2>5, <2>6, <2>11
  <2>13. \A t \in Threads : state'[t] = "DEATH" <=> OccursIn(t, dpc_list') \/ Cleaning(t)'
    BY <2>3, <2>7, <2>8, <2>9, <2>10 DEF DeadExact
  <2> QED BY <2>9, <2>12, <2>13 DEF DeadExact
<1>14. CASE Cleanup
  <2> DEFINE d == obj[current]
  <2>1. /\ pc[current] = "thread_cleanup_dpc" /\ d \in Threads
        /\ state' = [state EXCEPT ![d] = "NONE"]
        /\ Go("dpc_wait", NoObject) /\ dpc_list' = dpc_list
    BY <1>14 DEF Cleanup, KeepDpcs
  <2>2. current = DpcThread /\ ~OccursIn(d, dpc_list)
    BY <1>n, <2>1 DEF DpcPCs
  <2>3. \A t \in Threads : Cleaning(t) <=> t = d
    BY <2>1, <2>2 DEF Cleaning
  <2>4. \A t \in Threads : ~Cleaning(t)'
    BY <2>1, <2>2, GoFacts DEF Cleaning
  <2>5. \A t \in Threads : state'[t] = "DEATH" <=> state[t] = "DEATH" /\ t # d
    BY <1>t, <2>1
  <2> QED BY <2>1, <2>2, <2>3, <2>4, <2>5 DEF DeadExact
<1>15. EventHandOver => KeepCalls \/ Go("wake_return", NoObject)
  BY DEF EventHandOver
<1> QED BY <1>1, <1>3, <1>4, <1>5, <1>7, <1>8, <1>9, <1>10, <1>11, <1>12, <1>13, <1>14, <1>15
        DEF Effect

\* dpc_event stays signalled while the list has a thread: of the steps that
\* touch it only DpcNone takes the signal away.
LEMMA DpcSignalStep ==
  ASSUME KernelInv, LoopObjects, DpcSignalled, Effect
  PROVE  DpcSignalled'
<1>t. /\ signalled \in [AllEvents -> BOOLEAN] /\ DpcEvent \in AllEvents
      /\ DpcEvent \notin Events /\ DOMAIN signalled = AllEvents
      /\ Events \subseteq AllEvents
  BY EffectTypes, ObjectsAssumption DEF AllEvents
<1>1. ASSUME dpc_list' = dpc_list, signalled'[DpcEvent] = signalled[DpcEvent]
      PROVE  DpcSignalled'
  BY <1>1 DEF DpcSignalled
<1>2. ASSUME dpc_list' = dpc_list, NEW e \in Events, NEW b \in BOOLEAN,
             signalled' = [signalled EXCEPT ![e] = b]
      PROVE  DpcSignalled'
  BY <1>1, <1>2, <1>t
<1>3. CASE Interrupt \/ Move \/ LoopEnd \/ Resume \/ Create \/ Sleep \/ MutexBlock
           \/ EventBlock \/ MutexHandOver \/ EventHandOver \/ WakeTurn \/ TimerFires
  BY <1>1, <1>3 DEF Interrupt, Move, LoopEnd, Resume, Create, Sleep, MutexBlock, EventBlock,
     BlockOn, MutexHandOver, EventHandOver, WakeTurn, TimerFires, KeepDpcs, KeepEvents
<1>4. CASE MutexDestroy \/ MutexInit \/ MutexTake \/ MutexGive \/ MutexReturn
           \/ EventReturn \/ Cleanup
  BY <1>1, <1>4 DEF MutexDestroy, LoopBegin, MutexInit, MutexTake, MutexGive, MutexReturn,
     EventReturn, Cleanup, KeepDpcs, KeepEvents
<1>5. CASE EventDestroy \/ EventSignalAll \/ EventSet \/ EventInit
  <2>1. /\ dpc_list' = dpc_list
        /\ \E e \in Events, b \in BOOLEAN : signalled' = [signalled EXCEPT ![e] = b]
    BY <1>5 DEF EventDestroy, EventSignalAll, EventSet, EventInit, LoopBegin, KeepDpcs
  <2> QED BY <1>2, <2>1
<1>6. CASE Exit
  BY <1>6, <1>t DEF Exit, DpcSignalled
<1>7. CASE DpcThrough
  <2>1. /\ dpc_list' = dpc_list
        /\ signalled' = [signalled EXCEPT ![DpcEvent] = ~autounsignal[DpcEvent]]
    BY <1>7 DEF DpcThrough, KeepDpcs
  <2>2. ~autounsignal[DpcEvent]
    BY DEF LoopObjects
  <2>3. signalled'[DpcEvent] = ~autounsignal[DpcEvent]
    BY <1>t, <2>1
  <2> QED BY <2>1, <2>2, <2>3 DEF DpcSignalled
<1>8. CASE DpcNone
  BY <1>8 DEF DpcNone, DpcSignalled, KeepDpcs
<1>9. CASE DpcTake
  BY <1>9 DEF DpcTake, DpcSignalled, KeepEvents
<1> QED BY <1>3, <1>4, <1>5, <1>6, <1>7, <1>8, <1>9 DEF Effect

-----------------------------------------------------------------------------
(* Timers: the queue is sorted, and covers every thread that counts on it. *)

Sorted(q, f) == \A i, j \in 1 .. Len(q) : i <= j => f[q[i]] <= f[q[j]]

TimersCover ==
  \A t \in Threads :
    state[t] = "SLEEPING" \/ (state[t] = "BLOCKED" /\ pc[t] \in TimedPCs)
    => OccursIn(t, timer_queue)

\* A sorted queue stays sorted without its head.
LEMMA SortedTail ==
  ASSUME NEW S, NEW q \in Seq(S), q # <<>>, NEW f, Sorted(q, f)
  PROVE  Sorted(Tail(q), f)
<1>1. Len(Tail(q)) = Len(q) - 1 /\ \A i \in 1 .. Len(Tail(q)) : Tail(q)[i] = q[i + 1]
  OBVIOUS
<1>2. Len(q) \in Nat
  OBVIOUS
<1> SUFFICES ASSUME NEW i \in 1 .. Len(Tail(q)), NEW j \in 1 .. Len(Tail(q)), i <= j
             PROVE  f[Tail(q)[i]] <= f[Tail(q)[j]]
  BY DEF Sorted
<1>3. i + 1 \in 1 .. Len(q) /\ j + 1 \in 1 .. Len(q) /\ i + 1 <= j + 1
  BY <1>1, <1>2
<1>4. f[q[i + 1]] <= f[q[j + 1]]
  BY <1>3 DEF Sorted
<1> QED BY <1>1, <1>4

\* list_delete() of one timer, whose time is reset.
LEMMA SortedWithout ==
  ASSUME NEW q \in Seq(Threads), Distinct(q), NEW f \in [Threads -> 0 .. MaxDelay],
         Sorted(q, f), NEW t \in Threads
  PROVE  Sorted(Without(q, t), [f EXCEPT ![t] = 0])
<1> DEFINE r == Without(q, t)
           g == [f EXCEPT ![t] = 0]
<1>1. Len(q) \in Nat
  OBVIOUS
<1>2. r \in Seq(Threads) /\ ~OccursIn(t, r)
  BY WithoutFacts
<1>3. \A i \in 1 .. Len(r) : r[i] \in Threads /\ r[i] # t
  BY <1>2 DEF OccursIn
<1>4. \A i \in 1 .. Len(r) : g[r[i]] = f[r[i]]
  BY <1>3
<1>5. Sorted(r, f)
  <2>1. CASE ~OccursIn(t, q)
    BY <2>1 DEF Without
  <2>2. CASE OccursIn(t, q)
    <3> DEFINE n == CHOOSE i \in 1 .. Len(q) : q[i] = t
    <3>1. n \in 1 .. Len(q)
      BY <2>2 DEF OccursIn
    <3>2. r = [i \in 1 .. Len(q) - 1 |-> IF i < n THEN q[i] ELSE q[i + 1]]
      BY <2>2 DEF Without, RemoveIndex
    <3> HIDE DEF n
    <3>3. Len(r) = Len(q) - 1
      BY <1>1, <3>1, <3>2
    <3> HIDE DEF r
    <3> SUFFICES ASSUME NEW i \in 1 .. Len(r), NEW j \in 1 .. Len(r), i <= j
                 PROVE  f[r[i]] <= f[r[j]]
      BY DEF Sorted
    <3>i. i \in Int /\ j \in Int /\ n \in Int /\ i \in 1 .. Len(q) - 1 /\ j \in 1 .. Len(q) - 1
      BY <1>1, <3>1, <3>3
    <3>4. CASE j < n
      <4>1. i < n /\ r[i] = q[i] /\ r[j] = q[j]
        BY <3>2, <3>4, <3>i
      <4>2. i \in 1 .. Len(q) /\ j \in 1 .. Len(q)
        BY <1>1, <3>i
      <4> QED BY <4>1, <4>2 DEF Sorted
    <3>5. CASE ~(i < n)
      <4>1. r[i] = q[i + 1] /\ r[j] = q[j + 1]
        BY <1>1, <3>1, <3>2, <3>3, <3>5
      <4>2. i + 1 \in 1 .. Len(q) /\ j + 1 \in 1 .. Len(q) /\ i + 1 <= j + 1
        BY <1>1, <3>3
      <4> QED BY <4>1, <4>2 DEF Sorted
    <3>6. CASE i < n /\ ~(j < n)
      <4>1. r[i] = q[i] /\ r[j] = q[j + 1]
        BY <3>2, <3>6, <3>i
      <4>2. i \in 1 .. Len(q) /\ j + 1 \in 1 .. Len(q) /\ i <= j + 1
        BY <1>1, <3>i
      <4> QED BY <4>1, <4>2 DEF Sorted
    <3> QED BY <1>1, <3>1, <3>3, <3>4, <3>5, <3>6
  <2> QED BY <2>1, <2>2
<1> SUFFICES Sorted(r, g)
  OBVIOUS
<1> HIDE DEF r, g
<1> QED BY <1>4, <1>5 DEF Sorted

\* insert_timer_in_queue() before the first timer that is due later.
LEMMA SortedInsert ==
  ASSUME NEW q \in Seq(Threads), NEW f \in [Threads -> 0 .. MaxDelay], Sorted(q, f),
         NEW t \in Threads, ~OccursIn(t, q), NEW d \in 0 .. MaxDelay,
         NEW n \in 1 .. Len(q) + 1,
         \A k \in 1 .. n - 1 : f[q[k]] <= d,
         n <= Len(q) => f[q[n]] > d
  PROVE  Sorted(InsertAt(q, n, t), [f EXCEPT ![t] = d])
<1> DEFINE r == InsertAt(q, n, t)
           g == [f EXCEPT ![t] = d]
<1>1. Len(q) \in Nat /\ MaxDelay \in Nat
  BY ObjectsAssumption
<1>2. \A k \in 1 .. Len(q) : q[k] \in Threads /\ q[k] # t /\ f[q[k]] \in Int
  BY <1>1 DEF OccursIn
<1>3. \A k \in 1 .. Len(q) : g[q[k]] = f[q[k]]
  BY <1>2
<1>4. g[t] = d /\ d \in Int
  BY <1>1
<1>5. r = [i \in 1 .. Len(q) + 1 |-> IF i < n THEN q[i] ELSE IF i = n THEN t ELSE q[i - 1]]
  BY DEF InsertAt
<1>6. Len(r) = Len(q) + 1
  BY <1>1, <1>5
<1> SUFFICES Sorted(r, g)
  OBVIOUS
<1> HIDE DEF r, g
<1>7. \A k \in 1 .. Len(q) : k < n => f[q[k]] <= d
  BY <1>1
<1>8. \A k \in 1 .. Len(q) : n <= k => d <= f[q[k]]
  <2> SUFFICES ASSUME NEW k \in 1 .. Len(q), n <= k PROVE d <= f[q[k]]
    OBVIOUS
  <2>1. n \in 1 .. Len(q)
    BY <1>1
  <2>2. f[q[n]] <= f[q[k]]
    BY <2>1 DEF Sorted
  <2>4. f[q[n]] > d
    BY <1>1, <2>1
  <2>3. f[q[n]] \in Int /\ f[q[k]] \in Int
    BY <1>2, <2>1
  <2> QED BY <1>4, <2>2, <2>3, <2>4
<1> SUFFICES ASSUME NEW i \in 1 .. Len(r), NEW j \in 1 .. Len(r), i <= j
             PROVE  g[r[i]] <= g[r[j]]
  BY DEF Sorted
<1>i. i \in Int /\ j \in Int /\ n \in Int /\ i \in 1 .. Len(q) + 1 /\ j \in 1 .. Len(q) + 1
  BY <1>1, <1>6
<1>9. CASE j < n
  <2>1. i \in 1 .. Len(q) /\ j \in 1 .. Len(q) /\ r[i] = q[i] /\ r[j] = q[j]
    BY <1>1, <1>5, <1>i, <1>9
  <2> QED BY <1>3, <2>1 DEF Sorted
<1>10. CASE j = n /\ i < n
  <2>1. i \in 1 .. Len(q) /\ r[i] = q[i] /\ r[j] = t
    BY <1>1, <1>5, <1>i, <1>10
  <2> QED BY <1>3, <1>4, <1>7, <1>10, <2>1
<1>11. CASE j = n /\ i = n
  <2>1. r[i] = t /\ r[j] = t
    BY <1>5, <1>i, <1>11
  <2> QED BY <1>4, <2>1
<1>12. CASE n < j /\ i < n
  <2>1. i \in 1 .. Len(q) /\ j - 1 \in 1 .. Len(q) /\ r[i] = q[i] /\ r[j] = q[j - 1]
    BY <1>1, <1>5, <1>i, <1>12
  <2>2. i <= j - 1
    BY <1>i, <1>12
  <2> QED BY <1>3, <2>1, <2>2 DEF Sorted
<1>13. CASE n < j /\ i = n
  <2>1. j - 1 \in 1 .. Len(q) /\ n <= j - 1 /\ r[i] = t /\ r[j] = q[j - 1]
    BY <1>1, <1>5, <1>i, <1>13
  <2> QED BY <1>3, <1>4, <1>8, <2>1
<1>14. CASE n < j /\ n < i
  <2>1. /\ i - 1 \in 1 .. Len(q) /\ j - 1 \in 1 .. Len(q)
        /\ r[i] = q[i - 1] /\ r[j] = q[j - 1]
    BY <1>1, <1>5, <1>i, <1>14
  <2>2. i - 1 <= j - 1
    BY <1>i
  <2> QED BY <1>3, <2>1, <2>2 DEF Sorted
<1> QED BY <1>i, <1>9, <1>10, <1>11, <1>12, <1>13, <1>14

\* A tick takes one off every timer.
LEMMA SortedTick ==
  ASSUME NEW q \in Seq(Threads), NEW f \in [Threads -> 0 .. MaxDelay], Sorted(q, f)
  PROVE  Sorted(q, [t \in Threads |-> IF f[t] > 0 THEN f[t] - 1 ELSE 0])
<1> DEFINE g == [t \in Threads |-> IF f[t] > 0 THEN f[t] - 1 ELSE 0]
<1>1. MaxDelay \in Nat /\ Len(q) \in Nat
  BY ObjectsAssumption
<1>2. \A u, v \in Threads : f[u] <= f[v] => g[u] <= g[v]
  <2> SUFFICES ASSUME NEW u \in Threads, NEW v \in Threads, f[u] <= f[v]
               PROVE  g[u] <= g[v]
    OBVIOUS
  <2>1. f[u] \in Nat /\ f[v] \in Nat
    BY <1>1
  <2> QED BY <2>1
<1> HIDE DEF g
<1>3. \A i \in 1 .. Len(q) : q[i] \in Threads
  OBVIOUS
<1> QED BY <1>2, <1>3 DEF Sorted, g

\* What the operations on the timer queue do to it.
TimersSorted == Sorted(timer_queue, left)

\* timer_set_oneshot() puts the timer in its place in the queue.
LEMMA TimerSetFacts ==
  ASSUME KernelInv, TimersSorted, ~OccursIn(current, timer_queue), NEW d \in 1 .. MaxDelay,
         NEW cb, timer_set_oneshot(current, d, cb)
  PROVE  /\ TimersSorted'
         /\ \A u : OccursIn(u, timer_queue') <=> OccursIn(u, timer_queue) \/ u = current
<1>1. PICK n \in 1 .. Len(timer_queue) + 1 :
        /\ \A k \in 1 .. n - 1 : left[timer_queue[k]] <= d
        /\ n <= Len(timer_queue) => left[timer_queue[n]] > d
        /\ timer_queue' = InsertAt(timer_queue, n, current)
  BY DEF timer_set_oneshot, insert_timer_in_queue
<1>2. left' = [left EXCEPT ![current] = d]
  BY DEF timer_set_oneshot
<1>3. /\ timer_queue \in Seq(Threads) /\ left \in [Threads -> 0 .. MaxDelay]
      /\ current \in Threads /\ Distinct(timer_queue) /\ d \in 0 .. MaxDelay
  BY EffectTypes, ObjectsAssumption DEF KernelInv, TimersOwned
<1>4. Sorted(InsertAt(timer_queue, n, current), [left EXCEPT ![current] = d])
  BY <1>1, <1>3, SortedInsert DEF TimersSorted
<1>5. \A u : OccursIn(u, InsertAt(timer_queue, n, current))
             <=> OccursIn(u, timer_queue) \/ u = current
  BY <1>3, InsertFacts
<1> QED BY <1>1, <1>2, <1>4, <1>5 DEF TimersSorted

\* timer_cancel() takes the thread's timer out and no other.
LEMMA TimerCancelFacts ==
  ASSUME KernelInv, TimersSorted, timer_cancel(current)
  PROVE  /\ TimersSorted'
         /\ \A u : OccursIn(u, timer_queue') <=> OccursIn(u, timer_queue) /\ u # current
<1>1. /\ timer_queue \in Seq(Threads) /\ left \in [Threads -> 0 .. MaxDelay]
      /\ current \in Threads /\ Distinct(timer_queue)
  BY EffectTypes DEF KernelInv, TimersOwned
<1>2. /\ timer_queue' = Without(timer_queue, current)
      /\ left' = [left EXCEPT ![current] = 0]
  BY DEF timer_cancel
<1>3. Sorted(Without(timer_queue, current), [left EXCEPT ![current] = 0])
  BY <1>1, SortedWithout DEF TimersSorted
<1>4. \A u : OccursIn(u, Without(timer_queue, current)) <=> OccursIn(u, timer_queue) /\ u # current
  BY <1>1, WithoutFacts
<1> QED BY <1>2, <1>3, <1>4 DEF TimersSorted

\* Only the threads of S, and the current one, have to be looked at.
LEMMA CoverKept ==
  ASSUME KernelInv, TimersCover, NEW S, KeepStates(S),
         \A u \in Threads : u \in S =>
           \/ state'[u] \notin {"SLEEPING", "BLOCKED"}
           \/ state'[u] = "BLOCKED" /\ pc'[u] \notin TimedPCs
           \/ OccursIn(u, timer_queue'),
         \A u \in Threads \ S : u # current =>
           /\ pc'[u] = pc[u]
           /\ OccursIn(u, timer_queue) => OccursIn(u, timer_queue')
  PROVE  TimersCover'
<1> SUFFICES ASSUME NEW t \in Threads, t \notin S,
                    \/ state'[t] = "SLEEPING"
                    \/ state'[t] = "BLOCKED" /\ pc'[t] \in TimedPCs
             PROVE  OccursIn(t, timer_queue')
  BY DEF TimersCover
<1>1. state'[t] = state[t]
  BY DEF KeepStates, Runs
<1>2. t # current
  BY <1>1, CurrentRuns
<1> QED BY <1>1, <1>2 DEF TimersCover

\* TimersExact survives every step.
LEMMA TimersStep ==
  ASSUME KernelInv, StatePlaces, TimersSorted, TimersCover, Effect
  PROVE  TimersSorted' /\ TimersCover'
<1>t. /\ current \in Threads /\ DOMAIN pc = Threads /\ DOMAIN obj = Threads
      /\ DOMAIN state = Threads /\ timer_queue \in Seq(Threads)
      /\ left \in [Threads -> 0 .. MaxDelay] /\ Distinct(timer_queue)
  BY EffectTypes DEF KernelInv, TimersOwned
<1>c. /\ pc[current] \notin LoopPCs => state[current] = "RUNNING"
      /\ (MovePCs \cup WaitPCs) \cap LoopPCs = {}
      /\ WaitPCs \cap MovePCs = {}
      /\ {"user", "dpc_wait"} \subseteq MovePCs
  BY CurrentRuns, MovePlaces
<1>o. pc[current] \in MovePCs => ~OccursIn(current, timer_queue)
  <2>1. TimedPCs \subseteq WaitPCs
    BY DEF TimedPCs, WaitPCs, MutexPCs, EventPCs
  <2> QED BY <1>c, <1>t, <2>1 DEF KernelInv, TimersOwned
\* Steps without timers.
<1>1. ASSUME KeepTimers, NEW S, KeepStates(S),
             \A u \in Threads : u \in S => state'[u] \notin {"SLEEPING", "BLOCKED"},
             \A u \in Threads \ S : u # current => pc'[u] = pc[u]
      PROVE  TimersSorted' /\ TimersCover'
  BY <1>1, CoverKept DEF KeepTimers, TimersSorted
<1>g. ASSUME NEW p, NEW o, Go(p, o)
      PROVE  \A u \in Threads : u # current => pc'[u] = pc[u]
  BY <1>g, GoFacts
<1>2. CASE MutexDestroy \/ EventDestroy \/ EventSignalAll
  <2>1. PICK o, p : LoopBegin(o, p)
    BY <1>2 DEF MutexDestroy, EventDestroy, EventSignalAll
  <2> QED BY <1>1, <1>g, <2>1 DEF LoopBegin
<1>3. CASE EventSet \/ EventInit \/ MutexInit \/ MutexTake \/ MutexGive
  BY <1>1, <1>3 DEF EventSet, EventInit, MutexInit, MutexTake, MutexGive, KeepCalls
<1>4. CASE Move \/ LoopEnd \/ DpcThrough \/ DpcNone \/ DpcTake
  <2>1. KeepStates({}) /\ KeepTimers
    BY <1>4 DEF Move, LoopEnd, DpcThrough, DpcNone, DpcTake
  <2>2. PICK p, o : Go(p, o)
    BY <1>4 DEF Move, LoopEnd, DpcThrough, DpcNone, DpcTake
  <2> QED BY <1>1, <1>g, <2>1, <2>2
<1>5. CASE Resume
  <2>1. PICK p : Go(p, NoObject)
    BY <1>5 DEF Resume
  <2>2. /\ KeepStates({obj[current]}) /\ KeepTimers
        /\ \A u \in Threads : u \in {obj[current]} => state'[u] \notin {"SLEEPING", "BLOCKED"}
    BY <1>5 DEF Resume, Runs
  <2> QED BY <1>1, <1>g, <2>1, <2>2
<1>6. CASE Create
  <2>1. PICK t \in Threads, p \in ResumePCs :
          /\ state' = [state EXCEPT ![t] = "SUSPENDED"]
          /\ pc' = [pc EXCEPT ![t] = "initial_thread_func", ![current] = p]
          /\ KeepTimers
    BY <1>6 DEF Create
  <2>2. /\ KeepStates({t})
        /\ \A u \in Threads : u \in {t} => state'[u] \notin {"SLEEPING", "BLOCKED"}
        /\ \A u \in Threads \ {t} : u # current => pc'[u] = pc[u]
    BY <1>t, <2>1 DEF KeepStates
  <2> QED BY <1>1, <2>1, <2>2
<1>7. CASE Exit
  <2>1. /\ KeepStates({current}) /\ state'[current] = "DEATH" /\ KeepTimers
        /\ \E p, o : Go(p, o)
    BY <1>7, <1>t DEF Exit, KeepStates
  <2> QED BY <1>1, <1>g, <2>1
<1>8. CASE Cleanup
  <2>1. /\ KeepStates({obj[current]}) /\ state'[obj[current]] = "NONE" /\ KeepTimers
        /\ \E p, o : Go(p, o)
    BY <1>8, <1>t DEF Cleanup, KeepStates
  <2>2. \A u \in Threads : u \in {obj[current]} => state'[u] \notin {"SLEEPING", "BLOCKED"}
    BY <2>1
  <2> QED BY <1>1, <1>g, <2>1, <2>2
<1>9. CASE MutexHandOver \/ EventHandOver \/ WakeTurn
  <2>1. PICK o, t, list, ret : Woken(o, t, list, ret)
    BY <1>9 DEF MutexHandOver, EventHandOver, WakeTurn
  <2>2. KeepTimers /\ ((\E p, x : Go(p, x)) \/ KeepCalls)
    BY <1>9 DEF MutexHandOver, EventHandOver, WakeTurn
  <2>3. \A u \in Threads : u # current => pc'[u] = pc[u]
    BY <1>g, <2>2 DEF KeepCalls
  <2>4. KeepStates({t}) /\ \A u \in Threads : u \in {t} => state'[u] \notin {"SLEEPING", "BLOCKED"}
    BY <2>1 DEF Woken, Runs
  <2> QED BY <1>1, <2>2, <2>3, <2>4
\* Ticks.
<1>10. CASE Interrupt
  <2>1. TimersCover'
    <3>1. KeepStates({}) /\ pc' = pc /\ timer_queue' = timer_queue
      BY <1>10 DEF Interrupt, KeepCalls
    <3> QED BY <3>1, CoverKept
  <2>2. TimersSorted'
    BY <1>10, <1>t, SortedTick DEF Interrupt, TimersSorted
  <2> QED BY <2>1, <2>2
<1>11. CASE TimerFires
  <2> DEFINE t == Head(timer_queue)
  <2>1. /\ timer_queue # <<>> /\ t \in Threads /\ timer_queue' = Tail(timer_queue)
        /\ left' = left /\ pc' = pc
    BY <1>11 DEF TimerFires, KeepCalls
  <2>2. TimersSorted'
    BY <1>t, <2>1, SortedTail DEF TimersSorted
  <2>3. \A u \in Threads : OccursIn(u, timer_queue) /\ u # t => OccursIn(u, timer_queue')
    BY <1>t, <2>1, TailFacts
  <2>4. KeepStates({t}) /\ state'[t] \notin {"SLEEPING", "BLOCKED"}
    <3>1. CASE state[t] = "SLEEPING" /\ Runs(state'[t]) /\ KeepStates({t})
      BY <3>1 DEF Runs
    <3>2. CASE Woken(obj[t], t, Without(wait[obj[t]], t), ERR_TIMED_OUT)
      BY <3>2 DEF Woken, Runs
    <3>3. CASE pc[t] \in TimedPCs /\ state[t] # "BLOCKED" /\ KeepStates({})
      <4>1. Runs(state[t])
        BY <2>1, <3>3 DEF KernelInv, CallsConsistent, Runs
      <4> QED BY <2>1, <3>3, <4>1 DEF KeepStates, Runs
    <3> QED BY <1>11, <3>1, <3>2, <3>3 DEF TimerFires
  <2> HIDE DEF t
  <2>5. TimersCover'
    BY <2>1, <2>3, <2>4, CoverKept
  <2> QED BY <2>2, <2>5
\* Timers are set.
<1>12. ASSUME KeepStates({current}), pc[current] \in MovePCs, NEW p, NEW o, Go(p, o),
              \/ /\ state'[current] = "BLOCKED" /\ p \notin TimedPCs /\ KeepTimers
              \/ \E d \in 1 .. MaxDelay, cb \in {"thread_sleep_handler", "wait_queue_timeout_handler"} :
                    timer_set_oneshot(current, d, cb)
       PROVE  TimersSorted' /\ TimersCover'
  <2>1. pc'[current] = p /\ \A u \in Threads : u # current => pc'[u] = pc[u]
    BY <1>12, GoFacts
  <2>2. CASE state'[current] = "BLOCKED" /\ p \notin TimedPCs /\ KeepTimers
    <3>1. TimersSorted'
      BY <2>2 DEF KeepTimers, TimersSorted
    <3>2. TimersCover'
      BY <1>12, <2>1, <2>2, CoverKept DEF KeepTimers
    <3> QED BY <3>1, <3>2
  <2>3. ASSUME NEW d \in 1 .. MaxDelay, NEW cb, timer_set_oneshot(current, d, cb)
        PROVE  TimersSorted' /\ TimersCover'
    <3>1. /\ TimersSorted'
          /\ \A u : OccursIn(u, timer_queue') <=> OccursIn(u, timer_queue) \/ u = current
      BY <1>12, <1>o, <2>3, TimerSetFacts
    <3>2. TimersCover'
      BY <1>12, <2>1, <3>1, CoverKept
    <3> QED BY <3>1, <3>2
  <2> QED BY <1>12, <2>2, <2>3
<1>13. CASE Sleep
  BY <1>12, <1>13, <1>c DEF Sleep
<1>14. CASE MutexBlock \/ EventBlock
  <2>1. PICK o, p : BlockOn(o, p)
    BY <1>14 DEF MutexBlock, EventBlock
  <2>2. pc[current] \in MovePCs
    BY <1>14, <1>c DEF MutexBlock, EventBlock
  <2> QED BY <1>12, <2>1, <2>2 DEF BlockOn
\* Timers are cancelled.
<1>15. CASE MutexReturn \/ EventReturn
  <2>1. KeepStates({}) /\ \E p, o : Go(p, o)
    BY <1>15 DEF MutexReturn, EventReturn
  <2>2. CASE KeepTimers
    BY <1>1, <1>g, <2>1, <2>2
  <2>3. CASE timer_cancel(current)
    <3>1. /\ TimersSorted'
          /\ \A u : OccursIn(u, timer_queue') <=> OccursIn(u, timer_queue) /\ u # current
      BY <2>3, TimerCancelFacts
    <3>2. \A u \in Threads : u # current => pc'[u] = pc[u]
      BY <1>g, <2>1
    <3>3. TimersCover'
      BY <2>1, <3>1, <3>2, CoverKept
    <3> QED BY <3>1, <3>3
  <2> QED BY <1>15, <2>2, <2>3 DEF MutexReturn, EventReturn
<1> QED BY <1>2, <1>3, <1>4, <1>5, <1>6, <1>7, <1>8, <1>9, <1>10, <1>11, <1>13, <1>14, <1>15
        DEF Effect

-----------------------------------------------------------------------------
(* Mutexes: one thread has its turn, and the count counts.                 *)

Users(m) == {t \in Threads : m \in owned[t] \/ Acquiring(t, m)}

\* The mutex m: one thread at a time has its turn; who owns it is its holder
\* and asks for nothing; a wait for it ends with a timeout only if there was
\* one; m->count is exact.
MutexOK(m) ==
  /\ \A t, u \in Turn(m) : t = u
  /\ \A t \in Threads : m \in owned[t] => holder[m] = t /\ ~Acquiring(t, m)
  /\ \A t \in Threads : Acquiring(t, m) /\ state[t] # "BLOCKED" =>
       /\ block_ret[t] # ERR_OBJECT_DESTROYED
       /\ block_ret[t] = ERR_TIMED_OUT => pc[t] = "mutex_acquire_timeout"
  /\ count[m] = Cardinality(Users(m))

MutexesOK == \A m \in Mutexes \ destroyed : MutexOK(m)

AcquiringNext(t, m) ==
  obj'[t] = m /\ pc'[t] \in {"mutex_acquire", "mutex_acquire_timeout"}

\* What t has to do with m stays as it is, or its wait times out.
SameTry(t, m) ==
  /\ AcquiringNext(t, m) <=> Acquiring(t, m)
  /\ Acquiring(t, m) =>
       /\ pc'[t] = pc[t]
       /\ \/ /\ state'[t] = "BLOCKED" <=> state[t] = "BLOCKED"
             /\ block_ret'[t] = block_ret[t]
          \/ /\ state[t] = "BLOCKED" /\ state'[t] # "BLOCKED"
             /\ block_ret'[t] = ERR_TIMED_OUT /\ pc[t] = "mutex_acquire_timeout"

SameUse(m) ==
  /\ count'[m] = count[m] /\ holder'[m] = holder[m]
  /\ \A t \in Threads : m \in owned'[t] <=> m \in owned[t]
  /\ \A t \in Threads : SameTry(t, m)

\* Sets of threads can be counted.
LEMMA UsersFinite == \A S \in SUBSET Threads : IsFiniteSet(S) /\ Cardinality(S) \in Nat
<1>1. IsFiniteSet({Bootstrap}) /\ IsFiniteSet({Bootstrap} \cup {DpcThread})
  BY FS_Singleton, FS_AddElement
<1>2. IsFiniteSet({Bootstrap, DpcThread})
  <2>1. {Bootstrap, DpcThread} = {Bootstrap} \cup {DpcThread}
    OBVIOUS
  <2> QED BY <1>1, <2>1
<1>3. IsFiniteSet(Threads)
  BY <1>2, ThreadsAssumption, FS_Union DEF Threads
<1> QED BY <1>3, FS_Subset, FS_CardinalityType

\* A step that leaves what a mutex depends on keeps its invariant.
LEMMA MutexKept ==
  ASSUME NEW m, MutexOK(m), SameUse(m)
  PROVE  MutexOK(m)' /\ Turn(m)' = Turn(m)
<1>1. Users(m)' = Users(m)
  BY DEF Users, SameUse, SameTry, Acquiring, AcquiringNext
<1>2. Turn(m)' = Turn(m)
  <2>1. \A t \in Threads : t \in Turn(m)' <=> t \in Turn(m)
    BY DEF Turn, SameUse, SameTry, Acquiring, AcquiringNext, NO_ERROR, ERR_TIMED_OUT
  <2> QED BY <2>1 DEF Turn
<1>3. \A t \in Threads : m \in owned'[t] => holder'[m] = t /\ ~AcquiringNext(t, m)
  BY DEF MutexOK, SameUse, SameTry
<1>4. \A t \in Threads : AcquiringNext(t, m) /\ state'[t] # "BLOCKED" =>
        /\ block_ret'[t] # ERR_OBJECT_DESTROYED
        /\ block_ret'[t] = ERR_TIMED_OUT => pc'[t] = "mutex_acquire_timeout"
  BY DEF MutexOK, SameUse, SameTry, ERR_TIMED_OUT, ERR_OBJECT_DESTROYED
<1>5. count'[m] = Cardinality(Users(m)')
  BY <1>1 DEF MutexOK, SameUse
<1>6. \A t \in Threads : AcquiringNext(t, m) <=> Acquiring(t, m)'
  BY DEF Acquiring, AcquiringNext
<1> QED BY <1>2, <1>3, <1>4, <1>5, <1>6 DEF MutexOK

\* Only the threads of S have to be looked at.
LEMMA TriesKept ==
  ASSUME NEW m, NEW S, KeepStates(S),
         \A u \in Threads \ S :
           /\ \/ pc'[u] = pc[u] /\ obj'[u] = obj[u]
              \/ pc[u] \notin MutexPCs /\ pc'[u] \notin MutexPCs
           /\ block_ret'[u] = block_ret[u],
         \A u \in Threads : u \in S => SameTry(u, m)
  PROVE  \A u \in Threads : SameTry(u, m)
<1> SUFFICES ASSUME NEW u \in Threads, u \notin S PROVE SameTry(u, m)
  OBVIOUS
<1>1. state'[u] = "BLOCKED" <=> state[u] = "BLOCKED"
  BY DEF KeepStates, Runs
<1>2. CASE pc'[u] = pc[u] /\ obj'[u] = obj[u]
  BY <1>1, <1>2 DEF SameTry, Acquiring, AcquiringNext
<1>3. CASE pc[u] \notin MutexPCs /\ pc'[u] \notin MutexPCs
  BY <1>3 DEF SameTry, Acquiring, AcquiringNext, MutexPCs
<1> QED BY <1>2, <1>3

\* A thread that is in no call about a mutex, before and after.
LEMMA TryNone ==
  ASSUME NEW t, NEW m, ~Acquiring(t, m), ~AcquiringNext(t, m)
  PROVE  SameTry(t, m)
BY DEF SameTry

\* The waiters of something else than m.
LEMMA WokenTry ==
  ASSUME KernelInv, NEW o, NEW t, NEW list, NEW ret, Woken(o, t, list, ret),
         KeepCalls \/ \E p, x : Go(p, x),
         NEW m, m # o
  PROVE  SameTry(t, m)
<1>1. t \in Threads /\ obj[t] = o /\ state[t] = "BLOCKED"
  BY DEF Woken
<1>2. t # current
  BY <1>1, CurrentRuns
<1>3. obj'[t] = obj[t]
  BY <1>1, <1>2, GoFacts DEF KeepCalls
<1> QED BY <1>1, <1>3, TryNone DEF Acquiring, AcquiringNext

\* A thread waits for a mutex with a timeout.
Timed == \E t \in Threads : pc[t] = "mutex_acquire_timeout"

\* Nothing happens to m, but for a timeout of one of its waiters.
Idle(m) == m \notin destroyed /\ SameUse(m) /\ (wait'[m] = wait[m] \/ Timed)

OthersIdle(X) ==
  /\ \A m \in Mutexes \ destroyed' : m \notin X => Idle(m)
  /\ \A m \in Mutexes \ X : m \in destroyed' <=> m \in destroyed

Owners(m, S) == \A u \in Threads : m \in owned'[u] <=> u \in S
OwnersOf(m) == {u \in Threads : m \in owned[u]}
TriesBut(m, t) == \A u \in Threads : u # t => SameTry(u, m)
Live(m) == m \notin destroyed /\ m \notin destroyed'

\* The current thread joins the waiters of m.
Joins(m) ==
  /\ Live(m) /\ count[m] >= 1 /\ holder[m] # current
  /\ count'[m] = count[m] + 1 /\ holder'[m] = holder[m] /\ Owners(m, OwnersOf(m))
  /\ ~Acquiring(current, m) /\ AcquiringNext(current, m) /\ state'[current] = "BLOCKED"
  /\ TriesBut(m, current) /\ wait'[m] = Append(wait[m], current)

\* It passes m on to the first of them.
Passes(m) ==
  LET t == Head(wait[m]) IN
  /\ Live(m) /\ m \in owned[current] /\ wait[m] # <<>> /\ t \in Threads
  /\ Acquiring(t, m) /\ state[t] = "BLOCKED"
  /\ AcquiringNext(t, m) /\ state'[t] # "BLOCKED" /\ block_ret'[t] = NO_ERROR
  /\ count'[m] = count[m] - 1 /\ Owners(m, OwnersOf(m) \ {current})
  /\ TriesBut(m, t) /\ wait'[m] = Tail(wait[m])

Restored(m) ==
  /\ m \in destroyed /\ m \notin destroyed' /\ count'[m] = 0 /\ wait'[m] = <<>>
  /\ \A u \in Threads : m \notin owned'[u] /\ ~AcquiringNext(u, m)

Takes(m) ==
  /\ Live(m) /\ count[m] <= 0
  /\ count'[m] = count[m] + 1 /\ holder'[m] = current
  /\ Owners(m, OwnersOf(m) \cup {current})
  /\ (\A u \in Threads : SameTry(u, m)) /\ wait'[m] = wait[m]

Gives(m) ==
  /\ Live(m) /\ m \in owned[current] /\ (count[m] <= 1 \/ wait[m] = <<>>)
  /\ count'[m] = count[m] - 1 /\ Owners(m, OwnersOf(m) \ {current})
  /\ (\A u \in Threads : SameTry(u, m)) /\ wait'[m] = wait[m]

\* Its wait for m is over.
Wakes(m) ==
  /\ Live(m) /\ Acquiring(current, m) /\ state[current] # "BLOCKED"
  /\ ~AcquiringNext(current, m) /\ TriesBut(m, current) /\ wait'[m] = wait[m]

Gets(m) ==
  /\ Wakes(m) /\ block_ret[current] = NO_ERROR
  /\ count'[m] = count[m] /\ holder'[m] = current
  /\ Owners(m, OwnersOf(m) \cup {current})

Quits(m) ==
  /\ Wakes(m) /\ block_ret[current] = ERR_TIMED_OUT
  /\ pc[current] = "mutex_acquire_timeout"
  /\ count'[m] = count[m] - 1 /\ holder'[m] = holder[m] /\ Owners(m, OwnersOf(m))

Fails(m) ==
  /\ Wakes(m)
  /\ \/ block_ret[current] = ERR_OBJECT_DESTROYED
     \/ block_ret[current] = ERR_TIMED_OUT /\ pc[current] = "mutex_acquire"

MutexDelta(m) ==
  \/ m \in destroyed' \/ Joins(m) \/ Passes(m) \/ Restored(m) \/ Takes(m) \/ Gives(m)
  \/ Gets(m) \/ Quits(m) \/ Fails(m)

\* Types and disjoint sets of places that the steps about mutexes need.
LEMMA MutexFacts ==
  ASSUME KernelInv
  PROVE  /\ current \in Threads /\ count \in [Mutexes -> Int]
         /\ DOMAIN holder = Mutexes /\ DOMAIN wait = Queues /\ Mutexes \subseteq Queues
         /\ owned \in [Threads -> SUBSET Mutexes] /\ DOMAIN block_ret = Threads
         /\ DOMAIN state = Threads /\ DOMAIN pc = Threads /\ DOMAIN obj = Threads
         /\ Mutexes \cap AllEvents = {} /\ Mutexes \cap Threads = {}
         /\ MutexPCs \cap (MovePCs \cup EventPCs \cup LoopPCs) = {}
         /\ "dead" \notin MutexPCs /\ "initial_thread_func" \notin MutexPCs
         /\ "thread_cleanup_dpc" \notin MutexPCs
<1>1. MutexPCs \cap (MovePCs \cup EventPCs \cup LoopPCs) = {}
  BY MovePlaces DEF MutexPCs, EventPCs, LoopPCs, WakeLoops, WaitPCs
<1>2. Mutexes \cap AllEvents = {} /\ Mutexes \cap Threads = {}
  BY ObjectsAssumption DEF AllEvents
<1>3. "dead" \notin MutexPCs /\ "initial_thread_func" \notin MutexPCs
      /\ "thread_cleanup_dpc" \notin MutexPCs
  BY DEF MutexPCs
<1>4. DOMAIN wait = Queues /\ Mutexes \subseteq Queues
  BY EffectTypes DEF WaitLists, Queues
<1>5. DOMAIN holder = Mutexes /\ DOMAIN block_ret = Threads /\ DOMAIN owned = Threads
  BY EffectTypes
<1> QED BY <1>1, <1>2, <1>3, <1>4, <1>5, EffectTypes

\* Steps that leave the mutexes alone.
LEMMA IdleSteps ==
  ASSUME count' = count, holder' = holder, owned' = owned,
         \A m \in Mutexes : m \in destroyed' <=> m \in destroyed,
         \A m \in Mutexes \ destroyed' : \A u \in Threads : SameTry(u, m),
         \A m \in Mutexes \ destroyed' : wait'[m] = wait[m] \/ Timed
  PROVE  OthersIdle({})
BY DEF OthersIdle, Idle, SameUse

\* Whatever leaves the calls and returns of waiters alone.
LEMMA GoTries ==
  ASSUME KernelInv, NEW S, KeepStates(S), NEW p, NEW o, Go(p, o),
         p \notin MutexPCs, pc[current] \notin MutexPCs,
         \A u \in Threads \ S : block_ret'[u] = block_ret[u],
         NEW m, \A u \in Threads : u \in S => u = current \/ SameTry(u, m)
  PROVE  \A u \in Threads : SameTry(u, m)
<1>1. \A u \in Threads : \/ pc'[u] = pc[u] /\ obj'[u] = obj[u]
                         \/ pc[u] \notin MutexPCs /\ pc'[u] \notin MutexPCs
  BY GoFacts
<1>2. SameTry(current, m)
  <2>1. pc'[current] = p
    BY GoFacts
  <2> QED BY <2>1, TryNone DEF Acquiring, AcquiringNext, MutexPCs
<1> QED BY <1>1, <1>2, TriesKept

\* If no call moves, the attempts at a mutex stay what they are.
LEMMA CallsTries ==
  ASSUME KernelInv, NEW S, KeepStates(S), KeepCalls,
         \A u \in Threads \ S : block_ret'[u] = block_ret[u],
         NEW m, \A u \in Threads : u \in S => SameTry(u, m)
  PROVE  \A u \in Threads : SameTry(u, m)
BY TriesKept DEF KeepCalls

\* The steps that are not about mutexes.
LEMMA OtherSteps ==
  ASSUME KernelInv, StatePlaces, LoopObjects,
         \/ Interrupt \/ Move \/ LoopEnd \/ Resume \/ Create \/ Sleep \/ EventBlock
         \/ EventHandOver \/ WakeTurn \/ TimerFires \/ EventDestroy \/ EventSignalAll
         \/ EventSet \/ EventInit \/ EventReturn \/ Exit \/ DpcThrough \/ DpcNone \/ DpcTake
         \/ Cleanup
  PROVE  OthersIdle({})
<1>t. /\ current \in Threads /\ DOMAIN wait = Queues /\ Mutexes \subseteq Queues
      /\ DOMAIN block_ret = Threads /\ DOMAIN state = Threads
      /\ DOMAIN pc = Threads /\ DOMAIN obj = Threads
      /\ Mutexes \cap AllEvents = {} /\ Events \subseteq AllEvents
      /\ Mutexes \cap Threads = {}
  BY MutexFacts DEF AllEvents
<1>d. /\ \A p \in MovePCs \cup EventPCs \cup LoopPCs : p \notin MutexPCs
      /\ "dead" \notin MutexPCs /\ "initial_thread_func" \notin MutexPCs
      /\ "thread_cleanup_dpc" \notin MutexPCs
      /\ {"user", "wake_return", "switch_return", "dpc_wait", "dpc_pop"} \subseteq MovePCs
      /\ ResumePCs \subseteq MovePCs
  BY MutexFacts, MovePlaces
<1>1. ASSUME NEW S, KeepStates(S), NEW p, NEW o, Go(p, o), p \notin MutexPCs,
             pc[current] \notin MutexPCs,
             \A u \in Threads \ S : block_ret'[u] = block_ret[u],
             \A m \in Mutexes \ destroyed' : \A u \in Threads :
               u \in S => u = current \/ SameTry(u, m),
             KeepMutexes, \A m \in Mutexes : wait'[m] = wait[m]
      PROVE  OthersIdle({})
  <2>1. \A m \in Mutexes \ destroyed' : \A u \in Threads : SameTry(u, m)
    BY <1>1, GoTries
  <2> QED BY <1>1, <2>1, IdleSteps DEF KeepMutexes
<1>2. ASSUME NEW S, KeepStates(S), KeepCalls,
             \A u \in Threads \ S : block_ret'[u] = block_ret[u],
             \A m \in Mutexes \ destroyed' : \A u \in Threads : u \in S => SameTry(u, m),
             KeepMutexes, \A m \in Mutexes \ destroyed' : wait'[m] = wait[m] \/ Timed
      PROVE  OthersIdle({})
  <2>1. \A m \in Mutexes \ destroyed' : \A u \in Threads : SameTry(u, m)
    BY <1>2, CallsTries
  <2> QED BY <1>2, <2>1, IdleSteps DEF KeepMutexes
<1>3. CASE Interrupt \/ EventSet
  BY <1>2, <1>3 DEF Interrupt, EventSet, KeepWaits
<1>4. CASE Move \/ LoopEnd \/ EventReturn \/ DpcThrough \/ DpcNone \/ DpcTake
  <2>1. KeepStates({}) /\ KeepWaits /\ KeepMutexes
    BY <1>4 DEF Move, LoopEnd, EventReturn, DpcThrough, DpcNone, DpcTake
  <2>2. pc[current] \notin MutexPCs
    BY <1>4, <1>d DEF Move, LoopEnd, EventReturn, DpcThrough, DpcNone, DpcTake
  <2>3. PICK p, o : Go(p, o) /\ p \notin MutexPCs
    <3>1. CASE Move
      BY <1>d, <3>1 DEF Move
    <3>2. CASE LoopEnd
      BY <1>d, <3>2 DEF LoopEnd
    <3>3. CASE EventReturn \/ DpcThrough \/ DpcNone \/ DpcTake
      BY <1>d, <3>3 DEF EventReturn, DpcThrough, DpcNone, DpcTake
    <3> QED BY <1>4, <3>1, <3>2, <3>3
  <2> QED BY <1>1, <2>1, <2>2, <2>3 DEF KeepWaits
<1>5. CASE Resume
  <2>1. /\ pc[current] \in ResumePCs /\ obj[current] \in Threads
        /\ state[obj[current]] = "SUSPENDED" /\ KeepStates({obj[current]})
        /\ KeepWaits /\ KeepMutexes
    BY <1>5 DEF Resume
  <2>2. PICK p \in MovePCs : Go(p, NoObject)
    BY <1>5 DEF Resume
  <2>3. pc[obj[current]] = "initial_thread_func"
    BY <2>1 DEF StatePlaces, Place
  <2>4. pc'[obj[current]] \notin MutexPCs
    BY <1>d, <2>1, <2>2, <2>3, GoFacts
  <2>5. \A m : SameTry(obj[current], m)
    BY <1>d, <2>3, <2>4, TryNone DEF Acquiring, AcquiringNext, MutexPCs
  <2>6. pc[current] \notin MutexPCs /\ p \notin MutexPCs
    BY <1>d, <2>1
  <2> QED BY <1>1, <2>1, <2>2, <2>5, <2>6 DEF KeepWaits
<1>6. CASE Create
  <2>1. PICK t \in Threads, p \in ResumePCs :
          /\ pc[current] \in MovePCs /\ state[t] = "NONE"
          /\ state' = [state EXCEPT ![t] = "SUSPENDED"]
          /\ pc' = [pc EXCEPT ![t] = "initial_thread_func", ![current] = p]
          /\ obj' = [obj EXCEPT ![current] = t]
          /\ wait' = wait /\ block_ret' = [block_ret EXCEPT ![t] = NO_ERROR]
          /\ KeepMutexes
    BY <1>6 DEF Create
  <2>2. pc[t] = "dead"
    BY <2>1 DEF StatePlaces, Place
  <2>3. pc'[t] \in {"initial_thread_func", p}
    BY <1>t, <2>1
  <2>4. p \notin MutexPCs /\ pc[current] \notin MutexPCs
    BY <1>d, <2>1
  <2>5. \A m : SameTry(t, m)
    BY <1>d, <2>2, <2>3, <2>4, TryNone DEF Acquiring, AcquiringNext, MutexPCs
  <2>6. KeepStates({t}) /\ \A u \in Threads \ {t} :
          /\ \/ pc'[u] = pc[u] /\ obj'[u] = obj[u]
             \/ pc[u] \notin MutexPCs /\ pc'[u] \notin MutexPCs
          /\ block_ret'[u] = block_ret[u]
    BY <1>t, <2>1, <2>4 DEF KeepStates
  <2>7. \A m : \A u \in Threads : SameTry(u, m)
    BY <2>5, <2>6, TriesKept
  <2> QED BY <2>1, <2>7, IdleSteps DEF KeepMutexes
<1>7. CASE Sleep
  <2>1. /\ KeepStates({current}) /\ KeepWaits /\ KeepMutexes
        /\ Go("switch_return", NoObject) /\ pc[current] = "user"
    BY <1>7 DEF Sleep
  <2> QED BY <1>1, <1>d, <2>1 DEF KeepWaits
<1>8. CASE EventBlock
  <2>1. PICK e \in AllEvents, p \in EventPCs : BlockOn(e, p)
    BY <1>8 DEF EventBlock
  <2>2. /\ KeepStates({current}) /\ Go(p, e) /\ KeepMutexes
        /\ \A u \in Threads \ {current} : block_ret'[u] = block_ret[u]
        /\ \A m \in Mutexes : wait'[m] = wait[m]
    BY <1>8, <1>t, <2>1 DEF BlockOn, EventBlock
  <2>3. pc[current] \notin MutexPCs /\ p \notin MutexPCs
    BY <1>8, <1>d DEF EventBlock
  <2> QED BY <1>1, <2>2, <2>3
\* Threads woken from other queues.
<1>9. ASSUME NEW o, NEW t, NEW list, NEW ret, Woken(o, t, list, ret), o \notin Mutexes \ destroyed',
             KeepMutexes, KeepCalls \/ (Go("wake_return", NoObject) /\ pc[current] = "user")
      PROVE  OthersIdle({})
  <2>1. KeepStates({t}) /\ \A u \in Threads \ {t} : block_ret'[u] = block_ret[u]
    BY <1>9, <1>t DEF Woken
  <2>2. \A m \in Mutexes \ destroyed' : SameTry(t, m)
    BY <1>9, WokenTry
  <2>3. \A m \in Mutexes \ destroyed' : wait'[m] = wait[m]
    BY <1>9, <1>t DEF Woken
  <2>4. CASE KeepCalls
    BY <1>2, <1>9, <2>1, <2>2, <2>3, <2>4
  <2>5. CASE Go("wake_return", NoObject) /\ pc[current] = "user"
    <3>1. \A m \in Mutexes \ destroyed' : \A u \in Threads : SameTry(u, m)
      BY <1>d, <2>1, <2>2, <2>5, GoTries
    <3> QED BY <1>9, <2>3, <3>1, IdleSteps DEF KeepMutexes
  <2> QED BY <1>9, <2>4, <2>5
<1>10. CASE EventHandOver
  <2>1. PICK e \in Events :
          /\ pc[current] = "user" /\ Woken(e, Head(wait[e]), Tail(wait[e]), NO_ERROR)
          /\ Go("wake_return", NoObject) \/ KeepCalls
          /\ KeepMutexes
    BY <1>10 DEF EventHandOver
  <2>2. e \notin Mutexes
    BY <1>t
  <2> QED BY <1>9, <2>1, <2>2
<1>11. CASE WakeTurn
  <2> DEFINE o == obj[current]
  <2>1. /\ Woken(o, Head(wait[o]), Tail(wait[o]), WakeRet(pc[current]))
        /\ pc[current] \in WakeLoops /\ KeepCalls /\ KeepMutexes
    BY <1>11 DEF WakeTurn
  <2>2. o \in AllEvents \cup destroyed
    BY <1>t, <2>1 DEF LoopObjects, LoopPlace
  <2>3. o \notin Mutexes \ destroyed'
    BY <1>t, <2>1, <2>2 DEF KeepMutexes
  <2> QED BY <1>9, <2>1, <2>3
<1>12. CASE TimerFires
  <2> DEFINE t == Head(timer_queue)
  <2>1. KeepCalls /\ KeepMutexes /\ t \in Threads
    BY <1>12 DEF TimerFires
  <2>2. CASE KeepStates({}) /\ KeepWaits
    BY <1>2, <2>1, <2>2 DEF KeepWaits
  <2>3. CASE state[t] = "SLEEPING" /\ KeepStates({t}) /\ KeepWaits
    <3>1. pc[t] = "switch_return" /\ pc'[t] = pc[t]
      BY <2>1, <2>3 DEF StatePlaces, Place, KeepCalls
    <3>2. \A m : SameTry(t, m)
      BY <3>1, TryNone DEF Acquiring, AcquiringNext
    <3> QED BY <1>2, <2>1, <2>3, <3>2 DEF KeepWaits
  <2>4. CASE /\ pc[t] \in TimedPCs
             /\ Woken(obj[t], t, Without(wait[obj[t]], t), ERR_TIMED_OUT)
    <3> DEFINE o == obj[t]
    <3>1. CASE o \notin Mutexes \ destroyed'
      BY <1>9, <2>1, <2>4, <3>1
    <3>2. CASE o \in Mutexes
      <4>1. KeepStates({t}) /\ (\A u \in Threads \ {t} : block_ret'[u] = block_ret[u])
            /\ state[t] = "BLOCKED" /\ Runs(state'[t]) /\ block_ret'[t] = ERR_TIMED_OUT
        BY <1>t, <2>1, <2>4 DEF Woken
      <4>2. pc[t] = "mutex_acquire_timeout"
        <5>1. pc[t] \notin EventPCs
          BY <1>t, <2>1, <3>2 DEF StatePlaces, Place
        <5> QED BY <2>4, <5>1 DEF TimedPCs, EventPCs
      <4>3. \A m : SameTry(t, m)
        BY <2>1, <4>1, <4>2 DEF SameTry, Acquiring, AcquiringNext, KeepCalls, Runs
      <4>4. Timed
        BY <2>1, <4>2 DEF Timed
      <4> QED BY <1>2, <2>1, <4>1, <4>3, <4>4
    <3> QED BY <3>1, <3>2
  <2> QED BY <1>12, <2>2, <2>3, <2>4 DEF TimerFires
\* Steps that touch the set of destroyed events.
<1>13. CASE EventDestroy \/ EventSignalAll
  <2>1. PICK o, p : LoopBegin(o, p) /\ p \in {"destroy_all", "signal_all", "signal_all_noresched"}
    BY <1>13 DEF EventDestroy, EventSignalAll
  <2>2. /\ count' = count /\ holder' = holder /\ owned' = owned
        /\ \A m \in Mutexes : m \in destroyed' <=> m \in destroyed
    BY <1>13, <1>t DEF EventDestroy, EventSignalAll, KeepMutexes
  <2>3. p \notin MutexPCs /\ pc[current] \notin MutexPCs
    BY <2>1 DEF LoopBegin, MutexPCs
  <2>4. \A m : \A u \in Threads : SameTry(u, m)
    BY <2>1, <2>3, GoTries DEF LoopBegin, KeepWaits
  <2> QED BY <2>1, <2>2, <2>4, IdleSteps DEF LoopBegin, KeepWaits
<1>14. CASE EventInit
  <2>1. PICK e \in Events :
          /\ KeepStates({}) /\ KeepCalls /\ block_ret' = block_ret
          /\ wait' = [wait EXCEPT ![e] = <<>>] /\ destroyed' = destroyed \ {e}
          /\ count' = count /\ holder' = holder /\ owned' = owned
    BY <1>14 DEF EventInit
  <2>2. \A m : \A u \in Threads : SameTry(u, m)
    BY <2>1, CallsTries
  <2>3. \A m \in Mutexes : (m \in destroyed' <=> m \in destroyed) /\ wait'[m] = wait[m]
    BY <1>t, <2>1
  <2> QED BY <2>1, <2>2, <2>3, IdleSteps
<1>15. CASE Exit
  <2>1. /\ KeepStates({current}) /\ KeepWaits /\ KeepMutexes /\ pc[current] = "user"
    BY <1>15, <1>t DEF Exit, KeepStates
  <2>2. PICK p \in {"exit_resched", "exit_signal"} : Go(p, DpcEvent)
    BY <1>15 DEF Exit
  <2>3. p \notin MutexPCs
    BY DEF MutexPCs
  <2> QED BY <1>1, <1>d, <2>1, <2>2, <2>3 DEF KeepWaits
<1>16. CASE Cleanup
  <2> DEFINE d == obj[current]
  <2>1. /\ pc[current] = "thread_cleanup_dpc" /\ d \in Threads /\ state[d] = "DEATH"
        /\ state' = [state EXCEPT ![d] = "NONE"] /\ Go("dpc_wait", NoObject)
        /\ wait' = wait /\ block_ret' = [block_ret EXCEPT ![d] = NO_ERROR] /\ KeepMutexes
    BY <1>16 DEF Cleanup
  <2>2. pc[d] \in {"exit_signal", "exit_resched", "dead"}
    BY <2>1 DEF StatePlaces, Place
  <2>3. pc'[d] \in {"dpc_wait", pc[d]}
    BY <2>1, GoFacts
  <2>4. \A m : SameTry(d, m)
    BY <2>2, <2>3, TryNone DEF Acquiring, AcquiringNext
  <2>5. KeepStates({d}) /\ \A u \in Threads \ {d} : block_ret'[u] = block_ret[u]
    BY <1>t, <2>1 DEF KeepStates
  <2> QED BY <1>1, <1>d, <2>1, <2>4, <2>5
<1> QED BY <1>3, <1>4, <1>5, <1>6, <1>7, <1>8, <1>10, <1>11, <1>12, <1>13, <1>14, <1>15, <1>16

\* The steps about the mutex m.
LEMMA MutexSteps ==
  ASSUME KernelInv, StatePlaces,
         \/ MutexBlock \/ MutexHandOver \/ MutexDestroy \/ MutexInit \/ MutexTake
         \/ MutexGive \/ MutexReturn
  PROVE  \E m \in Mutexes : OthersIdle({m}) /\ MutexDelta(m)
<1>t. /\ current \in Threads /\ DOMAIN wait = Queues /\ Mutexes \subseteq Queues
      /\ DOMAIN block_ret = Threads /\ DOMAIN state = Threads
      /\ DOMAIN pc = Threads /\ DOMAIN obj = Threads /\ count \in [Mutexes -> Int]
      /\ DOMAIN holder = Mutexes /\ owned \in [Threads -> SUBSET Mutexes]
      /\ Mutexes \cap AllEvents = {} /\ NoObject \notin Mutexes
  BY MutexFacts, ObjectsAssumption
<1>d. /\ \A p \in MovePCs \cup LoopPCs : p \notin MutexPCs
      /\ "user" \in MovePCs /\ "wake_return" \in MovePCs
  BY MutexFacts, MovePlaces
<1>o. ASSUME NEW m \in Mutexes,
             \A n \in Mutexes : n # m =>
               /\ count'[n] = count[n] /\ holder'[n] = holder[n] /\ wait'[n] = wait[n]
               /\ \A u \in Threads : (n \in owned'[u] <=> n \in owned[u]) /\ SameTry(u, n)
               /\ n \in destroyed' <=> n \in destroyed
      PROVE  OthersIdle({m})
  BY <1>o DEF OthersIdle, Idle, SameUse
<1>c. state[current] # "BLOCKED"
  BY CurrentRuns
<1>1. CASE MutexBlock
  <2>1. PICK m \in Mutexes, p \in MutexPCs :
          /\ pc[current] = "user" /\ holder[m] # current /\ count[m] >= 1
          /\ BlockOn(m, p)
          /\ count' = [count EXCEPT ![m] = @ + 1]
          /\ holder' = holder /\ owned' = owned /\ destroyed' = destroyed
    BY <1>1 DEF MutexBlock
  <2>2. /\ m \notin destroyed /\ state'[current] = "BLOCKED" /\ KeepStates({current})
        /\ Go(p, m) /\ wait' = [wait EXCEPT ![m] = Append(@, current)]
        /\ block_ret' = [block_ret EXCEPT ![current] = NO_ERROR]
    BY <2>1 DEF BlockOn
  <2>3. /\ pc'[current] = p /\ obj'[current] = m
        /\ \A u \in Threads : u # current => pc'[u] = pc[u] /\ obj'[u] = obj[u]
    BY <2>2, GoFacts
  <2>4. ~Acquiring(current, m) /\ AcquiringNext(current, m)
    BY <2>1, <2>3 DEF Acquiring, AcquiringNext, MutexPCs
  <2>5. \A n : \A u \in Threads : u # current => SameTry(u, n)
    <3>1. \A u \in Threads : u # current =>
            /\ block_ret'[u] = block_ret[u]
            /\ state'[u] = "BLOCKED" <=> state[u] = "BLOCKED"
      BY <1>t, <2>2 DEF KeepStates, Runs
    <3> QED BY <2>3, <3>1 DEF SameTry, Acquiring, AcquiringNext
  <2>6. \A n : n # m => SameTry(current, n)
    <3>1. \A n : n # m => ~Acquiring(current, n) /\ ~AcquiringNext(current, n)
      BY <2>1, <2>3 DEF Acquiring, AcquiringNext
    <3> QED BY <3>1, TryNone
  <2>7. OthersIdle({m})
    BY <1>o, <1>t, <2>1, <2>2, <2>5, <2>6
  <2>8. Joins(m)
    BY <1>t, <2>1, <2>2, <2>4, <2>5 DEF Joins, Live, Owners, OwnersOf, TriesBut
  <2> QED BY <2>7, <2>8 DEF MutexDelta
<1>2. CASE MutexHandOver
  <2>1. PICK m \in Mutexes :
          /\ pc[current] = "user" /\ m \in owned[current] /\ m \notin destroyed
          /\ wait[m] # <<>>
          /\ Woken(m, Head(wait[m]), Tail(wait[m]), NO_ERROR)
          /\ Go("wake_return", NoObject)
          /\ holder' = [holder EXCEPT ![m] = NoThread]
          /\ count' = [count EXCEPT ![m] = @ - 1]
          /\ owned' = [owned EXCEPT ![current] = @ \ {m}]
          /\ destroyed' = destroyed
    BY <1>2 DEF MutexHandOver
  <2> DEFINE t == Head(wait[m])
  <2>2. /\ t \in Threads /\ state[t] = "BLOCKED" /\ obj[t] = m
        /\ Runs(state'[t]) /\ KeepStates({t})
        /\ wait' = [wait EXCEPT ![m] = Tail(wait[m])]
        /\ block_ret' = [block_ret EXCEPT ![t] = NO_ERROR]
    BY <2>1 DEF Woken
  <2>w. \A n : n # m => SameTry(t, n)
    BY <2>1, WokenTry
  <2> HIDE DEF t
  <2>3. pc[t] \in MutexPCs
    BY <1>t, <2>2 DEF StatePlaces, Place
  <2>4. t # current
    BY <1>c, <2>2
  <2>5. pc'[t] = pc[t] /\ obj'[t] = obj[t]
    BY <2>1, <2>2, <2>4, GoFacts
  <2>6. Acquiring(t, m) /\ AcquiringNext(t, m) /\ state'[t] # "BLOCKED" /\ block_ret'[t] = NO_ERROR
    BY <1>t, <2>2, <2>3, <2>5 DEF Acquiring, AcquiringNext, MutexPCs, Runs
  <2>7. \A n : \A u \in Threads : u # t => SameTry(u, n)
    <3>1. \A u \in Threads : u # t =>
            /\ block_ret'[u] = block_ret[u]
            /\ state'[u] = "BLOCKED" <=> state[u] = "BLOCKED"
      BY <1>t, <2>2 DEF KeepStates, Runs
    <3>2. \A u \in Threads : u # current => pc'[u] = pc[u] /\ obj'[u] = obj[u]
      BY <2>1, GoFacts
    <3>3. pc'[current] = "wake_return"
      BY <2>1, GoFacts
    <3>4. \A n : SameTry(current, n)
      <4>1. \A n : ~Acquiring(current, n) /\ ~AcquiringNext(current, n)
        BY <2>1, <3>3 DEF Acquiring, AcquiringNext
      <4> QED BY <4>1, TryNone
    <3>5. \A n : \A u \in Threads : u # t /\ u # current => SameTry(u, n)
      BY <3>1, <3>2 DEF SameTry, Acquiring, AcquiringNext
    <3> QED BY <3>4, <3>5
  <2>8. OthersIdle({m})
    BY <1>o, <1>t, <2>1, <2>2, <2>7, <2>w
  <2>9. Owners(m, OwnersOf(m) \ {current})
    BY <1>t, <2>1 DEF Owners, OwnersOf
  <2>10. count'[m] = count[m] - 1 /\ wait'[m] = Tail(wait[m])
    BY <1>t, <2>1, <2>2
  <2>11. Passes(m)
    BY <2>1, <2>2, <2>6, <2>7, <2>9, <2>10 DEF Passes, Live, TriesBut, t
  <2> QED BY <2>8, <2>11 DEF MutexDelta
\* The calls about a mutex stay as they are.
<1>s. ASSUME KeepStates({}), block_ret' = block_ret,
             KeepCalls \/ (pc[current] \notin MutexPCs
                           /\ \E p, x : Go(p, x) /\ p \notin MutexPCs)
      PROVE  \A n : \A u \in Threads : SameTry(u, n)
  <2>1. CASE KeepCalls
    BY <1>s, <2>1, CallsTries
  <2>2. ASSUME NEW p, NEW x, Go(p, x), p \notin MutexPCs, pc[current] \notin MutexPCs
        PROVE  \A n : \A u \in Threads : SameTry(u, n)
    BY <1>s, <2>2, GoTries
  <2> QED BY <1>s, <2>1, <2>2
<1>3. CASE MutexDestroy
  <2>1. PICK m \in Mutexes, p \in {"destroy_all", "signal_all_noresched"} :
          /\ LoopBegin(m, p)
          /\ count' = [count EXCEPT ![m] = 0] /\ destroyed' = destroyed \cup {m}
          /\ holder' = holder /\ owned' = owned
    BY <1>3 DEF MutexDestroy
  <2>2. p \notin MutexPCs /\ pc[current] \notin MutexPCs
    BY <2>1 DEF MutexPCs, LoopBegin
  <2>3. \A n : \A u \in Threads : SameTry(u, n)
    BY <1>s, <2>1, <2>2 DEF LoopBegin, KeepWaits
  <2>4. OthersIdle({m})
    BY <1>o, <1>t, <2>1, <2>3 DEF LoopBegin, KeepWaits
  <2> QED BY <2>1, <2>4 DEF MutexDelta
<1>4. CASE MutexInit
  <2>1. PICK m \in Mutexes :
          /\ m \in destroyed /\ Quiescent(m) /\ KeepStates({}) /\ KeepCalls
          /\ count' = [count EXCEPT ![m] = 0] /\ holder' = [holder EXCEPT ![m] = NoThread]
          /\ owned' = [t \in Threads |-> owned[t] \ {m}] /\ destroyed' = destroyed \ {m}
          /\ wait' = [wait EXCEPT ![m] = <<>>] /\ block_ret' = block_ret
    BY <1>4 DEF MutexInit
  <2>2. \A n : \A u \in Threads : SameTry(u, n)
    BY <1>s, <2>1
  <2>3. OthersIdle({m})
    BY <1>o, <1>t, <2>1, <2>2
  <2>4. \A u \in Threads : m \notin owned'[u] /\ ~AcquiringNext(u, m)
    BY <1>t, <2>1 DEF Quiescent, KeepCalls, AcquiringNext
  <2>5. Restored(m)
    BY <1>t, <2>1, <2>4 DEF Restored
  <2> QED BY <2>3, <2>5 DEF MutexDelta
<1>5. CASE MutexTake
  <2>1. PICK m \in Mutexes :
          /\ m \notin destroyed /\ count[m] <= 0 /\ KeepStates({}) /\ KeepCalls
          /\ count' = [count EXCEPT ![m] = @ + 1] /\ holder' = [holder EXCEPT ![m] = current]
          /\ owned' = [owned EXCEPT ![current] = @ \cup {m}] /\ destroyed' = destroyed
          /\ KeepWaits
    BY <1>5 DEF MutexTake
  <2>2. \A n : \A u \in Threads : SameTry(u, n)
    BY <1>s, <2>1 DEF KeepWaits
  <2>3. OthersIdle({m})
    BY <1>o, <1>t, <2>1, <2>2 DEF KeepWaits
  <2>4. Owners(m, OwnersOf(m) \cup {current})
    BY <1>t, <2>1 DEF Owners, OwnersOf
  <2>5. Takes(m)
    BY <1>t, <2>1, <2>2, <2>4 DEF Takes, Live, KeepWaits
  <2> QED BY <2>3, <2>5 DEF MutexDelta
<1>6. CASE MutexGive
  <2>1. PICK m \in Mutexes :
          /\ m \notin destroyed /\ m \in owned[current] /\ (count[m] <= 1 \/ wait[m] = <<>>)
          /\ KeepStates({}) /\ KeepCalls
          /\ count' = [count EXCEPT ![m] = @ - 1] /\ holder' = [holder EXCEPT ![m] = NoThread]
          /\ owned' = [owned EXCEPT ![current] = @ \ {m}] /\ destroyed' = destroyed
          /\ KeepWaits
    BY <1>6 DEF MutexGive
  <2>2. \A n : \A u \in Threads : SameTry(u, n)
    BY <1>s, <2>1 DEF KeepWaits
  <2>3. OthersIdle({m})
    BY <1>o, <1>t, <2>1, <2>2 DEF KeepWaits
  <2>4. Owners(m, OwnersOf(m) \ {current})
    BY <1>t, <2>1 DEF Owners, OwnersOf
  <2>5. Gives(m)
    BY <1>t, <2>1, <2>2, <2>4 DEF Gives, Live, KeepWaits
  <2> QED BY <2>3, <2>5 DEF MutexDelta
<1>7. CASE MutexReturn
  <2> DEFINE m == obj[current]
  <2>1. /\ pc[current] \in MutexPCs /\ m \in Mutexes
        /\ KeepStates({}) /\ Go("user", NoObject) /\ KeepWaits /\ destroyed' = destroyed
        /\ \/ /\ block_ret[current] = NO_ERROR
              /\ holder' = [holder EXCEPT ![m] = current]
              /\ owned' = [owned EXCEPT ![current] = @ \cup {m}] /\ count' = count
           \/ /\ block_ret[current] = ERR_TIMED_OUT /\ pc[current] = "mutex_acquire_timeout"
              /\ count' = [count EXCEPT ![m] = @ - 1] /\ holder' = holder /\ owned' = owned
           \/ /\ block_ret[current] = ERR_TIMED_OUT /\ pc[current] = "mutex_acquire"
              /\ count' = count /\ holder' = holder /\ owned' = owned
           \/ /\ block_ret[current] = ERR_OBJECT_DESTROYED
              /\ holder' = holder \/ holder' = [holder EXCEPT ![m] = current]
              /\ count' = count /\ owned' = owned
    BY <1>7 DEF MutexReturn
  <2>2. /\ pc'[current] = "user" /\ obj'[current] = NoObject
        /\ \A u \in Threads : u # current => pc'[u] = pc[u] /\ obj'[u] = obj[u]
    BY <2>1, GoFacts
  <2>3. Acquiring(current, m) /\ ~AcquiringNext(current, m)
    BY <2>1, <2>2 DEF Acquiring, AcquiringNext, MutexPCs
  <2>4. \A n : \A u \in Threads : u # current => SameTry(u, n)
    <3>1. \A u \in Threads : u # current =>
            /\ block_ret'[u] = block_ret[u]
            /\ state'[u] = "BLOCKED" <=> state[u] = "BLOCKED"
      BY <1>t, <2>1 DEF KeepStates, Runs, KeepWaits
    <3> QED BY <2>2, <3>1 DEF SameTry, Acquiring, AcquiringNext
  <2>5. \A n : n # m => SameTry(current, n)
    <3>1. \A n : n # m => ~Acquiring(current, n) /\ ~AcquiringNext(current, n)
      BY <2>2 DEF Acquiring, AcquiringNext
    <3> QED BY <3>1, TryNone
  <2> HIDE DEF m
  <2>6. \A n \in Mutexes : n # m =>
          /\ count'[n] = count[n] /\ holder'[n] = holder[n] /\ wait'[n] = wait[n]
          /\ \A u \in Threads : n \in owned'[u] <=> n \in owned[u]
    BY <1>t, <2>1 DEF KeepWaits
  <2>7. OthersIdle({m})
    BY <1>o, <2>1, <2>4, <2>5, <2>6
  <2>8. CASE m \in destroyed
    BY <2>1, <2>7, <2>8 DEF MutexDelta
  <2>9. CASE m \notin destroyed
    <3>1. Wakes(m)
      BY <1>c, <2>1, <2>3, <2>4, <2>9 DEF Wakes, Live, TriesBut, KeepWaits
    <3>2. CASE /\ block_ret[current] = NO_ERROR
               /\ holder' = [holder EXCEPT ![m] = current]
               /\ owned' = [owned EXCEPT ![current] = @ \cup {m}] /\ count' = count
      <4>1. Owners(m, OwnersOf(m) \cup {current}) /\ holder'[m] = current
        BY <1>t, <2>1, <3>2 DEF Owners, OwnersOf
      <4>2. Gets(m)
        BY <3>1, <3>2, <4>1 DEF Gets
      <4> QED BY <2>1, <2>7, <4>2 DEF MutexDelta
    <3>3. CASE /\ block_ret[current] = ERR_TIMED_OUT /\ pc[current] = "mutex_acquire_timeout"
               /\ count' = [count EXCEPT ![m] = @ - 1] /\ holder' = holder /\ owned' = owned
      <4>1. Quits(m)
        BY <1>t, <2>1, <3>1, <3>3 DEF Quits, Owners, OwnersOf
      <4> QED BY <2>1, <2>7, <4>1 DEF MutexDelta
    <3>4. CASE \/ block_ret[current] = ERR_OBJECT_DESTROYED
               \/ block_ret[current] = ERR_TIMED_OUT /\ pc[current] = "mutex_acquire"
      <4>1. Fails(m)
        BY <3>1, <3>4 DEF Fails
      <4> QED BY <2>1, <2>7, <4>1 DEF MutexDelta
    <3> QED BY <2>1, <3>2, <3>3, <3>4
  <2> QED BY <2>8, <2>9
<1> QED BY <1>1, <1>2, <1>3, <1>4, <1>5, <1>6, <1>7

\* The invariant of m in the next state, in terms of the primed variables.
LEMMA NextOK ==
  ASSUME NEW m,
         \A t, u \in Turn(m)' : t = u,
         \A t \in Threads : m \in owned'[t] => holder'[m] = t /\ ~AcquiringNext(t, m),
         \A t \in Threads : AcquiringNext(t, m) /\ state'[t] # "BLOCKED" =>
           /\ block_ret'[t] # ERR_OBJECT_DESTROYED
           /\ block_ret'[t] = ERR_TIMED_OUT => pc'[t] = "mutex_acquire_timeout",
         count'[m] = Cardinality(Users(m)')
  PROVE  MutexOK(m)'
<1>1. \A t \in Threads : AcquiringNext(t, m) <=> Acquiring(t, m)'
  BY DEF Acquiring, AcquiringNext
<1> QED BY <1>1 DEF MutexOK

\* Membership in the users of a mutex and in its turn, before and after a step.
LEMMA NextSets ==
  ASSUME NEW m
  PROVE  /\ \A t : t \in Users(m)' <=> t \in Threads /\ (m \in owned'[t] \/ AcquiringNext(t, m))
         /\ \A t : t \in Turn(m)' <=> t \in Threads /\
              (m \in owned'[t] \/ (AcquiringNext(t, m) /\ state'[t] # "BLOCKED"
                                   /\ block_ret'[t] = NO_ERROR))
         /\ \A t : t \in Users(m) <=> t \in Threads /\ (m \in owned[t] \/ Acquiring(t, m))
         /\ \A t : t \in Turn(m) <=> t \in Threads /\
              (m \in owned[t] \/ (Acquiring(t, m) /\ state[t] # "BLOCKED"
                                  /\ block_ret[t] = NO_ERROR))
         /\ Users(m) \in SUBSET Threads /\ Users(m)' \in SUBSET Threads
BY DEF Users, Turn, Acquiring, AcquiringNext

\* Threads that SameTry leaves alone.
LEMMA TryNext ==
  ASSUME NEW m, MutexOK(m), NEW t \in Threads, SameTry(t, m)
  PROVE  /\ AcquiringNext(t, m) <=> Acquiring(t, m)
         /\ AcquiringNext(t, m) /\ state'[t] # "BLOCKED" =>
              /\ block_ret'[t] # ERR_OBJECT_DESTROYED
              /\ block_ret'[t] = ERR_TIMED_OUT => pc'[t] = "mutex_acquire_timeout"
         /\ (AcquiringNext(t, m) /\ state'[t] # "BLOCKED" /\ block_ret'[t] = NO_ERROR)
            <=> (Acquiring(t, m) /\ state[t] # "BLOCKED" /\ block_ret[t] = NO_ERROR)
BY DEF MutexOK, SameTry, NO_ERROR, ERR_TIMED_OUT, ERR_OBJECT_DESTROYED

\* A thread that finds the mutex taken and blocks is one more user.
LEMMA JoinsOK ==
  ASSUME KernelInv, NEW m \in Mutexes, MutexOK(m), Joins(m)
  PROVE  MutexOK(m)' /\ Turn(m)' = Turn(m)
<1>t. current \in Threads /\ count[m] \in Int
  BY MutexFacts
<1>1. \A u \in Threads : m \in owned'[u] <=> m \in owned[u]
  BY DEF Joins, Owners, OwnersOf
<1>2. \A u \in Threads : u # current => SameTry(u, m)
  BY DEF Joins, TriesBut
<1>3. m \notin owned[current] /\ ~Acquiring(current, m) /\ AcquiringNext(current, m)
      /\ state'[current] = "BLOCKED"
  BY <1>t DEF Joins, MutexOK
<1>4. Turn(m)' = Turn(m)
  BY <1>t, <1>1, <1>2, <1>3, NextSets, TryNext
<1>5. Users(m)' = Users(m) \cup {current} /\ current \notin Users(m)
  BY <1>t, <1>1, <1>2, <1>3, NextSets, TryNext
<1>6. count'[m] = Cardinality(Users(m)')
  <2>1. IsFiniteSet(Users(m))
    BY UsersFinite, NextSets
  <2>2. Cardinality(Users(m) \cup {current}) = Cardinality(Users(m)) + 1
    BY <1>5, <2>1, FS_AddElement
  <2> QED BY <1>5, <2>2 DEF Joins, MutexOK
<1>7. \A t \in Threads : m \in owned'[t] => holder'[m] = t /\ ~AcquiringNext(t, m)
  BY <1>1, <1>2, <1>3, TryNext DEF MutexOK, Joins
<1>8. \A t \in Threads : AcquiringNext(t, m) /\ state'[t] # "BLOCKED" =>
        /\ block_ret'[t] # ERR_OBJECT_DESTROYED
        /\ block_ret'[t] = ERR_TIMED_OUT => pc'[t] = "mutex_acquire_timeout"
  BY <1>2, <1>3, TryNext
<1>9. \A t, u \in Turn(m)' : t = u
  BY <1>4 DEF MutexOK
<1> QED BY <1>4, <1>6, <1>7, <1>8, <1>9, NextOK

\* mutex_release() with waiters hands the mutex to the first of them.
LEMMA PassesOK ==
  ASSUME KernelInv, NEW m \in Mutexes, MutexOK(m), Passes(m)
  PROVE  MutexOK(m)' /\ Turn(m) = {current} /\ Turn(m)' = {Head(wait[m])}
<1> DEFINE h == Head(wait[m])
<1>t. current \in Threads /\ count[m] \in Int
  BY MutexFacts
<1>1. /\ h \in Threads /\ m \in owned[current] /\ Acquiring(h, m) /\ AcquiringNext(h, m)
      /\ state[h] = "BLOCKED" /\ state'[h] # "BLOCKED" /\ block_ret'[h] = NO_ERROR
      /\ count'[m] = count[m] - 1
      /\ \A u \in Threads : m \in owned'[u] <=> m \in owned[u] /\ u # current
      /\ \A u \in Threads : u # h => SameTry(u, m)
  BY DEF Passes, Owners, OwnersOf, TriesBut
<1> HIDE DEF h
<1>2. Turn(m) = {current}
  BY <1>t, <1>1, NextSets DEF MutexOK
<1>3. \A u \in Threads : m \in owned[u] => u = current
  BY <1>2, NextSets
<1>4. h # current /\ ~Acquiring(current, m)
  BY <1>t, <1>1 DEF MutexOK
<1>5. Turn(m)' = {h}
  BY <1>1, <1>2, <1>3, <1>4, NextSets, TryNext
<1>6. Users(m)' = Users(m) \ {current} /\ current \in Users(m)
  BY <1>t, <1>1, <1>4, NextSets, TryNext
<1>7. count'[m] = Cardinality(Users(m)')
  <2>1. IsFiniteSet(Users(m))
    BY UsersFinite, NextSets
  <2>2. Cardinality(Users(m) \ {current}) = Cardinality(Users(m)) - 1
    BY <1>6, <2>1, FS_RemoveElement
  <2> QED BY <1>1, <1>6, <2>2 DEF MutexOK
<1>8. \A t \in Threads : m \notin owned'[t]
  BY <1>1, <1>3
<1>9. \A t \in Threads : AcquiringNext(t, m) /\ state'[t] # "BLOCKED" =>
        /\ block_ret'[t] # ERR_OBJECT_DESTROYED
        /\ block_ret'[t] = ERR_TIMED_OUT => pc'[t] = "mutex_acquire_timeout"
  BY <1>1, TryNext DEF NO_ERROR, ERR_OBJECT_DESTROYED, ERR_TIMED_OUT
<1>10. \A t, u \in Turn(m)' : t = u
  BY <1>5
<1> QED BY <1>2, <1>5, <1>7, <1>8, <1>9, <1>10, NextOK DEF h

\* mutex_init() makes a mutex without users.
LEMMA RestoredOK ==
  ASSUME NEW m \in Mutexes, Restored(m)
  PROVE  MutexOK(m)' /\ Turn(m)' = {}
<1>1. count'[m] = 0 /\ \A u \in Threads : m \notin owned'[u] /\ ~AcquiringNext(u, m)
  BY DEF Restored
<1>2. Turn(m)' = {} /\ Users(m)' = {}
  BY <1>1, NextSets
<1>3. count'[m] = Cardinality(Users(m)')
  BY <1>1, <1>2, FS_EmptySet
<1> QED BY <1>1, <1>2, <1>3, NextOK

\* mutex_acquire() of a free mutex makes the caller its only user.
LEMMA TakesOK ==
  ASSUME KernelInv, NEW m \in Mutexes, MutexOK(m), Takes(m)
  PROVE  MutexOK(m)' /\ Turn(m) = {} /\ Turn(m)' = {current} /\ Users(m) = {}
<1>t. current \in Threads /\ count[m] \in Int
  BY MutexFacts
<1>1. /\ count[m] <= 0 /\ count'[m] = count[m] + 1 /\ holder'[m] = current
      /\ \A u \in Threads : m \in owned'[u] <=> m \in owned[u] \/ u = current
      /\ \A u \in Threads : SameTry(u, m)
  BY <1>t DEF Takes, Owners, OwnersOf
<1>2. Users(m) = {} /\ count[m] = 0
  <2>1. IsFiniteSet(Users(m)) /\ Cardinality(Users(m)) \in Nat
    BY UsersFinite, NextSets
  <2>2. Cardinality(Users(m)) = 0
    BY <1>1, <2>1 DEF MutexOK
  <2> QED BY <2>1, <2>2, FS_EmptySet DEF MutexOK
<1>3. Turn(m) = {} /\ \A u \in Threads : m \notin owned[u] /\ ~Acquiring(u, m)
  BY <1>2, NextSets
<1>4. Turn(m)' = {current} /\ Users(m)' = {current}
  BY <1>t, <1>1, <1>3, NextSets, TryNext
<1>5. count'[m] = Cardinality(Users(m)')
  <2>1. Cardinality({current}) = 1
    BY FS_Singleton
  <2> QED BY <1>1, <1>2, <1>4, <2>1
<1>6. \A u \in Threads : ~AcquiringNext(u, m)
  BY <1>1, <1>3, TryNext
<1> QED BY <1>1, <1>2, <1>3, <1>4, <1>5, <1>6, NextOK

\* mutex_release() without waiters leaves the mutex to nobody.
LEMMA GivesOK ==
  ASSUME KernelInv, NEW m \in Mutexes, MutexOK(m), Gives(m)
  PROVE  MutexOK(m)' /\ Turn(m) = {current} /\ Turn(m)' = {}
<1>t. current \in Threads /\ count[m] \in Int
  BY MutexFacts
<1>1. /\ m \in owned[current] /\ count'[m] = count[m] - 1
      /\ \A u \in Threads : m \in owned'[u] <=> m \in owned[u] /\ u # current
      /\ \A u \in Threads : SameTry(u, m)
  BY DEF Gives, Owners, OwnersOf
<1>2. Turn(m) = {current}
  BY <1>t, <1>1, NextSets DEF MutexOK
<1>3. \A u \in Threads : m \notin owned'[u]
  BY <1>1, <1>2, NextSets
<1>4. ~Acquiring(current, m)
  BY <1>t, <1>1 DEF MutexOK
<1>5. Turn(m)' = {}
  BY <1>1, <1>2, <1>3, <1>4, NextSets, TryNext
<1>6. Users(m)' = Users(m) \ {current} /\ current \in Users(m)
  BY <1>t, <1>1, <1>4, NextSets, TryNext
<1>7. count'[m] = Cardinality(Users(m)')
  <2>1. IsFiniteSet(Users(m))
    BY UsersFinite, NextSets
  <2>2. Cardinality(Users(m) \ {current}) = Cardinality(Users(m)) - 1
    BY <1>6, <2>1, FS_RemoveElement
  <2> QED BY <1>1, <1>6, <2>2 DEF MutexOK
<1>8. \A t \in Threads : AcquiringNext(t, m) /\ state'[t] # "BLOCKED" =>
        /\ block_ret'[t] # ERR_OBJECT_DESTROYED
        /\ block_ret'[t] = ERR_TIMED_OUT => pc'[t] = "mutex_acquire_timeout"
  BY <1>1, TryNext
<1> QED BY <1>2, <1>3, <1>5, <1>7, <1>8, NextOK

\* The thread to which the mutex was handed comes back and owns it.
LEMMA GetsOK ==
  ASSUME KernelInv, NEW m \in Mutexes, MutexOK(m), Gets(m)
  PROVE  MutexOK(m)' /\ Turn(m)' = Turn(m)
<1>t. current \in Threads /\ count[m] \in Int
  BY MutexFacts
<1>1. /\ count'[m] = count[m] /\ holder'[m] = current
      /\ \A u \in Threads : m \in owned'[u] <=> m \in owned[u] \/ u = current
      /\ Acquiring(current, m) /\ state[current] # "BLOCKED" /\ ~AcquiringNext(current, m)
      /\ block_ret[current] = NO_ERROR
      /\ \A u \in Threads : u # current => SameTry(u, m)
  BY <1>t DEF Gets, Wakes, Owners, OwnersOf, TriesBut
<1>2. Turn(m) = {current}
  BY <1>t, <1>1, NextSets DEF MutexOK
<1>3. \A u \in Threads : m \notin owned[u]
  BY <1>1, <1>2, NextSets DEF MutexOK
<1>4. Turn(m)' = {current}
  BY <1>t, <1>1, <1>2, <1>3, NextSets, TryNext
<1>5. Users(m)' = Users(m)
  BY <1>t, <1>1, NextSets, TryNext
<1>6. \A t \in Threads : m \in owned'[t] => holder'[m] = t /\ ~AcquiringNext(t, m)
  BY <1>1, <1>3
<1>7. \A t \in Threads : AcquiringNext(t, m) /\ state'[t] # "BLOCKED" =>
        /\ block_ret'[t] # ERR_OBJECT_DESTROYED
        /\ block_ret'[t] = ERR_TIMED_OUT => pc'[t] = "mutex_acquire_timeout"
  BY <1>1, TryNext
<1>8. count'[m] = Cardinality(Users(m)')
  BY <1>1, <1>5 DEF MutexOK
<1> QED BY <1>2, <1>4, <1>6, <1>7, <1>8, NextOK

\* A thread whose timeout has passed takes back its count.
LEMMA QuitsOK ==
  ASSUME KernelInv, NEW m \in Mutexes, MutexOK(m), Quits(m)
  PROVE  MutexOK(m)' /\ Turn(m)' = Turn(m)
<1>t. current \in Threads /\ count[m] \in Int
  BY MutexFacts
<1>1. /\ count'[m] = count[m] - 1 /\ holder'[m] = holder[m]
      /\ \A u \in Threads : m \in owned'[u] <=> m \in owned[u]
      /\ Acquiring(current, m) /\ ~AcquiringNext(current, m)
      /\ block_ret[current] = ERR_TIMED_OUT
      /\ \A u \in Threads : u # current => SameTry(u, m)
  BY DEF Quits, Wakes, Owners, OwnersOf, TriesBut
<1>2. m \notin owned[current]
  BY <1>t, <1>1 DEF MutexOK
<1>3. Turn(m)' = Turn(m)
  <2>1. current \notin Turn(m) /\ current \notin Turn(m)'
    BY <1>t, <1>1, <1>2, NextSets DEF NO_ERROR, ERR_TIMED_OUT
  <2>2. \A u \in Threads : u # current => (u \in Turn(m)' <=> u \in Turn(m))
    BY <1>1, NextSets, TryNext
  <2> QED BY <2>1, <2>2, NextSets
<1>4. Users(m)' = Users(m) \ {current} /\ current \in Users(m)
  BY <1>t, <1>1, <1>2, NextSets, TryNext
<1>5. count'[m] = Cardinality(Users(m)')
  <2>1. IsFiniteSet(Users(m))
    BY UsersFinite, NextSets
  <2>2. Cardinality(Users(m) \ {current}) = Cardinality(Users(m)) - 1
    BY <1>4, <2>1, FS_RemoveElement
  <2> QED BY <1>1, <1>4, <2>2 DEF MutexOK
<1>6. \A t \in Threads : m \in owned'[t] => holder'[m] = t /\ ~AcquiringNext(t, m)
  BY <1>1, <1>2, TryNext DEF MutexOK
<1>7. \A t \in Threads : AcquiringNext(t, m) /\ state'[t] # "BLOCKED" =>
        /\ block_ret'[t] # ERR_OBJECT_DESTROYED
        /\ block_ret'[t] = ERR_TIMED_OUT => pc'[t] = "mutex_acquire_timeout"
  BY <1>1, TryNext
<1>8. \A t, u \in Turn(m)' : t = u
  BY <1>3 DEF MutexOK
<1> QED BY <1>3, <1>5, <1>6, <1>7, <1>8, NextOK

\* A wait for a mutex that is not destroyed never fails otherwise.
LEMMA NeverFails ==
  ASSUME KernelInv, NEW m, MutexOK(m)
  PROVE  ~Fails(m)
<1>t. current \in Threads
  BY MutexFacts
<1> QED BY <1>t DEF Fails, Wakes, MutexOK, ERR_TIMED_OUT, ERR_OBJECT_DESTROYED

\* MutexesOK survives every step.
LEMMA MutexesStep ==
  ASSUME KernelInv, StatePlaces, LoopObjects, MutexesOK, Effect
  PROVE  MutexesOK'
<1>1. ASSUME NEW m \in Mutexes, Idle(m)
      PROVE  MutexOK(m)'
  BY <1>1, MutexKept DEF Idle, MutexesOK
<1>2. CASE OthersIdle({})
  BY <1>1, <1>2 DEF OthersIdle, MutexesOK
<1>3. ASSUME NEW m \in Mutexes, OthersIdle({m}), MutexDelta(m)
      PROVE  MutexesOK'
  <2>1. \A n \in Mutexes \ destroyed' : n # m => MutexOK(n)'
    BY <1>1, <1>3 DEF OthersIdle
  <2>2. ASSUME m \notin destroyed' PROVE MutexOK(m)'
    <3>1. Restored(m) \/ MutexOK(m)
      BY <1>3, <2>2 DEF MutexDelta, MutexesOK, Joins, Passes, Takes, Gives, Gets, Quits, Fails,
         Wakes, Live
    <3> QED BY <1>3, <2>2, <3>1, JoinsOK, PassesOK, RestoredOK, TakesOK, GivesOK, GetsOK,
               QuitsOK, NeverFails DEF MutexDelta
  <2> QED BY <2>1, <2>2 DEF MutexesOK
<1> QED BY <1>2, <1>3, OtherSteps, MutexSteps DEF Effect

\* With it, mutual exclusion and the exact count.
LEMMA MutexParts ==
  ASSUME MutexesOK
  PROVE  MutualExclusion /\ MutexCountExact
<1>1. MutualExclusion
  BY DEF MutexesOK, MutexOK, MutualExclusion
<1>2. MutexCountExact
  BY DEF MutexesOK, MutexOK, MutexCountExact, Users
<1> QED BY <1>1, <1>2

-----------------------------------------------------------------------------
(* Without timeouts the mutexes are FIFO locks.  (With them they are not:  *)
(* m->count still counts a waiter that timed out and has not backed out,   *)
(* and a thread that finds it non-zero blocks for nobody.)                 *)

\* A wait with a timeout takes a timeout.
TimedCalls ==
  \A t \in Threads :
    /\ pc[t] = "mutex_acquire_timeout" => MutexTimeouts # {}
    /\ pc[t] = "event_wait_timeout" => EventTimeouts # {}

\* A thread waits with a timer only if its caller passed a timeout.
LEMMA TimedStep ==
  ASSUME KernelInv, TimedCalls, Effect
  PROVE  TimedCalls'
<1> DEFINE Fine(p) == /\ p = "mutex_acquire_timeout" => MutexTimeouts # {}
                      /\ p = "event_wait_timeout" => EventTimeouts # {}
<1>t. current \in Threads /\ DOMAIN pc = Threads /\ DOMAIN obj = Threads
  BY EffectTypes
<1>d. /\ \A p \in MovePCs \cup LoopPCs : Fine(p)
      /\ Fine("dead") /\ Fine("initial_thread_func") /\ Fine("thread_cleanup_dpc")
      /\ {"user", "wake_return", "switch_return", "dpc_wait", "dpc_pop"} \subseteq MovePCs
      /\ ResumePCs \subseteq MovePCs
  <2>1. TimedPCs \cap (MovePCs \cup LoopPCs) = {}
    BY MovePlaces DEF TimedPCs, WaitPCs, MutexPCs, EventPCs, LoopPCs, WakeLoops
  <2> QED BY <2>1, MovePlaces DEF TimedPCs
<1>u. \A t \in Threads : Fine(pc[t])
  BY DEF TimedCalls
<1>e. (\A t \in Threads : Fine(pc'[t])) => TimedCalls'
  BY DEF TimedCalls
<1> HIDE DEF Fine
<1>1. ASSUME KeepCalls PROVE TimedCalls'
  BY <1>1, <1>e, <1>u DEF KeepCalls
<1>2. ASSUME NEW p, NEW o, Go(p, o), Fine(p) PROVE TimedCalls'
  BY <1>2, <1>e, <1>u, GoFacts
<1>3. CASE Interrupt \/ WakeTurn \/ TimerFires \/ EventSet \/ EventInit \/ MutexInit
           \/ MutexTake \/ MutexGive
  BY <1>1, <1>3
     DEF Interrupt, WakeTurn, TimerFires, EventSet, EventInit, MutexInit, MutexTake, MutexGive
<1>4. CASE Move \/ Resume \/ Sleep \/ MutexHandOver \/ MutexReturn
  BY <1>2, <1>4, <1>d DEF Move, Resume, Sleep, MutexHandOver, MutexReturn
<1>5. CASE LoopEnd
  BY <1>2, <1>5, <1>d DEF LoopEnd
<1>6. CASE EventHandOver
  BY <1>1, <1>2, <1>6, <1>d DEF EventHandOver
<1>7. CASE EventReturn \/ DpcThrough \/ DpcNone \/ DpcTake \/ Cleanup
  BY <1>2, <1>7, <1>d DEF EventReturn, DpcThrough, DpcNone, DpcTake, Cleanup
<1>8. CASE MutexDestroy \/ EventDestroy \/ EventSignalAll
  <2>1. PICK p, o : p \in LoopPCs /\ LoopBegin(o, p)
    BY <1>8 DEF MutexDestroy, EventDestroy, EventSignalAll, LoopPCs, WakeLoops
  <2> QED BY <1>2, <1>d, <2>1 DEF LoopBegin
<1>9. CASE Exit
  <2>1. PICK p : p \in LoopPCs /\ Go(p, DpcEvent)
    BY <1>9 DEF Exit, LoopPCs, WakeLoops
  <2> QED BY <1>2, <1>d, <2>1
<1>10. CASE Create
  <2>1. PICK t \in Threads, p \in ResumePCs :
          pc' = [pc EXCEPT ![t] = "initial_thread_func", ![current] = p]
    BY <1>10 DEF Create
  <2>2. \A u \in Threads : pc'[u] \in {"initial_thread_func", p, pc[u]}
    BY <1>t, <2>1
  <2> QED BY <1>d, <1>e, <1>u, <2>2
<1>11. CASE MutexBlock
  <2>1. PICK m \in Mutexes, p \in MutexPCs :
          BlockOn(m, p) /\ (p = "mutex_acquire_timeout" => MutexTimeouts # {})
    BY <1>11 DEF MutexBlock
  <2>2. Fine(p)
    BY <2>1 DEF Fine, MutexPCs
  <2> QED BY <1>2, <2>1, <2>2 DEF BlockOn
<1>12. CASE EventBlock
  <2>1. PICK e \in AllEvents, p \in EventPCs :
          BlockOn(e, p) /\ (p = "event_wait_timeout" => EventTimeouts # {})
    BY <1>12 DEF EventBlock
  <2>2. Fine(p)
    BY <2>1 DEF Fine, EventPCs
  <2> QED BY <1>2, <2>1, <2>2 DEF BlockOn
<1> QED BY <1>3, <1>4, <1>5, <1>6, <1>7, <1>8, <1>9, <1>10, <1>11, <1>12 DEF Effect

\* If anyone waits for a mutex, somebody has its turn.
Waited == \A m \in Mutexes \ destroyed : wait[m] # <<>> => Turn(m) # {}

\* The waiters of m are the threads that are blocked in a call to acquire it.
LEMMA Waiters ==
  ASSUME KernelInv, StatePlaces, NEW m \in Mutexes, NEW t \in Threads
  PROVE  OccursIn(t, wait[m]) <=> Acquiring(t, m) /\ state[t] = "BLOCKED"
<1>t. m \in Queues /\ Mutexes \cap AllEvents = {}
  BY MutexFacts
<1>1. OccursIn(t, wait[m]) <=> state[t] = "BLOCKED" /\ blocking[t] = m
  BY <1>t DEF KernelInv, WaitQueuesExact, WaitQueuesMatch
<1>2. state[t] = "BLOCKED" => blocking[t] = obj[t]
  BY DEF KernelInv, CallsConsistent
<1>3. state[t] = "BLOCKED" /\ obj[t] = m => pc[t] \in MutexPCs
  BY <1>t DEF StatePlaces, Place
<1> QED BY <1>1, <1>2, <1>3 DEF Acquiring, MutexPCs

\* Without timeouts, a mutex with a positive count is somebody's.
LEMMA SomebodysTurn ==
  ASSUME KernelInv, StatePlaces, NEW m \in Mutexes \ destroyed, MutexOK(m), Waited, ~Timed,
         count[m] >= 1
  PROVE  Turn(m) # {}
<1>1. PICK u \in Threads : m \in owned[u] \/ Acquiring(u, m)
  <2>1. Users(m) # {}
    <3> SUFFICES ASSUME Users(m) = {} PROVE FALSE
      OBVIOUS
    <3>1. Cardinality(Users(m)) = 0
      BY FS_EmptySet
    <3> QED BY <3>1 DEF MutexOK
  <2> QED BY <2>1 DEF Users
<1>2. CASE m \in owned[u]
  BY <1>2, NextSets
<1>3. CASE Acquiring(u, m) /\ state[u] = "BLOCKED"
  <2>1. OccursIn(u, wait[m])
    BY <1>3, Waiters
  <2>2. wait[m] # <<>>
    BY <2>1 DEF OccursIn
  <2> QED BY <2>2 DEF Waited
<1>4. CASE Acquiring(u, m) /\ state[u] # "BLOCKED"
  <2>1. block_ret[u] \in BlockReturns
    BY EffectTypes
  <2>2. block_ret[u] # ERR_TIMED_OUT /\ block_ret[u] # ERR_OBJECT_DESTROYED
    BY <1>4 DEF MutexOK, Timed
  <2>3. block_ret[u] = NO_ERROR
    BY <2>1, <2>2 DEF BlockReturns
  <2> QED BY <1>4, <2>3, NextSets
<1> QED BY <1>1, <1>2, <1>3, <1>4

\* mutex_release() that wakes nobody leaves nobody behind.
LEMMA GivesEmpty ==
  ASSUME KernelInv, StatePlaces, NEW m \in Mutexes, MutexOK(m), Gives(m)
  PROVE  wait[m] = <<>>
<1>t. current \in Threads /\ wait[m] \in Seq(Threads)
  BY MutexFacts, EffectTypes DEF WaitLists
<1> SUFFICES ASSUME wait[m] # <<>>, count[m] <= 1 PROVE FALSE
  BY DEF Gives
<1> DEFINE h == Head(wait[m])
<1>1. h \in Threads /\ OccursIn(h, wait[m])
  BY <1>t DEF OccursIn
<1> HIDE DEF h
<1>2. Acquiring(h, m)
  BY <1>1, Waiters
<1>3. m \in owned[current] /\ ~Acquiring(current, m)
  BY <1>t DEF Gives, MutexOK
<1>4. {current, h} \in SUBSET Users(m) /\ h # current
  BY <1>t, <1>1, <1>2, <1>3, NextSets
<1>5. IsFiniteSet(Users(m)) /\ Cardinality(Users(m)) \in Nat
  BY UsersFinite, NextSets
<1>6. Cardinality({current, h}) = 2
  <2>1. {current, h} = {current} \cup {h} /\ h \notin {current}
    BY <1>4
  <2>2. IsFiniteSet({current}) /\ Cardinality({current}) = 1
    BY FS_Singleton
  <2>3. Cardinality({current} \cup {h}) = Cardinality({current}) + 1
    BY <2>1, <2>2, FS_AddElement
  <2>4. Cardinality({current, h}) = 1 + 1
    BY <2>1, <2>2, <2>3, Zenon
  <2> QED BY <2>4
<1>7. Cardinality({current, h}) <= Cardinality(Users(m))
  BY <1>4, <1>5, FS_Subset
<1> QED BY <1>5, <1>6, <1>7 DEF MutexOK

\* Waited survives every step, as long as no waiter has a timeout.
LEMMA WaitedStep ==
  ASSUME KernelInv, StatePlaces, LoopObjects, MutexesOK, Waited, ~Timed, Effect
  PROVE  Waited'
<1>1. ASSUME NEW m \in Mutexes, Idle(m), wait'[m] # <<>>
      PROVE  Turn(m)' # {}
  BY <1>1, MutexKept DEF Idle, MutexesOK, Waited
<1>2. CASE OthersIdle({})
  BY <1>1, <1>2 DEF OthersIdle, Waited
<1>3. ASSUME NEW m \in Mutexes, OthersIdle({m}), MutexDelta(m)
      PROVE  Waited'
  <2>1. \A n \in Mutexes \ destroyed' : n # m /\ wait'[n] # <<>> => Turn(n)' # {}
    BY <1>1, <1>3 DEF OthersIdle
  <2>2. ASSUME m \notin destroyed', wait'[m] # <<>> PROVE Turn(m)' # {}
    <3>1. CASE Restored(m)
      BY <2>2, <3>1 DEF Restored
    <3>2. CASE MutexOK(m) /\ m \notin destroyed
      <4>1. CASE Joins(m)
        BY <3>2, <4>1, JoinsOK, SomebodysTurn DEF Joins
      <4>2. CASE Passes(m) \/ Takes(m)
        BY <3>2, <4>2, PassesOK, TakesOK
      <4>3. CASE Gives(m)
        BY <2>2, <3>2, <4>3, GivesEmpty DEF Gives
      <4>4. CASE Gets(m) \/ Quits(m)
        BY <2>2, <3>2, <4>4, GetsOK, QuitsOK DEF Gets, Quits, Wakes, Waited
      <4> QED BY <1>3, <2>2, <3>2, <4>1, <4>2, <4>3, <4>4, NeverFails DEF MutexDelta, Restored
    <3> QED BY <1>3, <2>2, <3>1, <3>2 DEF MutexDelta, MutexesOK, Joins, Passes, Takes, Gives,
               Gets, Quits, Fails, Wakes, Live
  <2> QED BY <2>1, <2>2 DEF Waited
<1> QED BY <1>2, <1>3, OtherSteps, MutexSteps DEF Effect

\* The lock that Kernel!Lock makes of the mutex m.
TurnOf(m) == IF m \in destroyed \/ Turn(m) = {} THEN NoThread ELSE CHOOSE t \in Turn(m) : TRUE
LineOf(m) == IF m \in destroyed THEN <<>> ELSE wait[m]
Turns == [m \in Mutexes |-> TurnOf(m)]
Lines == [m \in Mutexes |-> LineOf(m)]

\* A step that does not concern a mutex leaves its lock as it is.
LEMMA IdleLock ==
  ASSUME NEW m, MutexOK(m), Idle(m), ~Timed, m \notin destroyed'
  PROVE  TurnOf(m)' = TurnOf(m) /\ LineOf(m)' = LineOf(m)
<1>1. Turn(m)' = Turn(m) /\ m \notin destroyed /\ wait'[m] = wait[m]
  BY MutexKept DEF Idle
<1> QED BY <1>1 DEF TurnOf, LineOf

\* The holder and the line of the lock, read from the kernel's state.
LEMMA TurnFacts ==
  ASSUME KernelInv, NEW m
  PROVE  /\ m \in destroyed => TurnOf(m) = NoThread /\ LineOf(m) = <<>>
         /\ m \notin destroyed => LineOf(m) = wait[m]
         /\ Turn(m) = {} => TurnOf(m) = NoThread
         /\ m \notin destroyed /\ Turn(m) # {} => TurnOf(m) \in Turn(m) /\ TurnOf(m) # NoThread
         /\ \A c : m \notin destroyed /\ Turn(m) = {c} => TurnOf(m) = c
<1>1. NoThread \notin Threads /\ Turn(m) \subseteq Threads
  BY ThreadsAssumption DEF Threads, Turn
<1>2. m \notin destroyed /\ Turn(m) # {} => TurnOf(m) \in Turn(m)
  BY DEF TurnOf
<1> QED BY <1>1, <1>2 DEF TurnOf, LineOf

\* Every step is a step of the locks, or changes nothing for them.
LEMMA LockStep ==
  ASSUME KernelInv, StatePlaces, LoopObjects, MutexesOK, Waited, ~Timed, Effect, KernelInv'
  PROVE  [Lock!Next]_<<Turns, Lines>>
<1>t. current \in Threads /\ current # NoThread
  BY MutexFacts, ThreadsAssumption DEF Threads
<1>1. CASE OthersIdle({})
  <2>1. \A m \in Mutexes : TurnOf(m)' = TurnOf(m) /\ LineOf(m)' = LineOf(m)
    <3> SUFFICES ASSUME NEW m \in Mutexes PROVE TurnOf(m)' = TurnOf(m) /\ LineOf(m)' = LineOf(m)
      OBVIOUS
    <3>1. CASE m \in destroyed'
      BY <1>1, <3>1 DEF OthersIdle, TurnOf, LineOf
    <3>2. CASE m \notin destroyed'
      <4>1. Idle(m) /\ MutexOK(m)
        BY <1>1, <3>2 DEF OthersIdle, Idle, MutexesOK
      <4> QED BY <3>2, <4>1, IdleLock
    <3> QED BY <3>1, <3>2
  <2>2. Turns' = Turns /\ Lines' = Lines
    BY <2>1 DEF Turns, Lines
  <2> QED BY <2>2
<1>2. ASSUME NEW m \in Mutexes, OthersIdle({m}), MutexDelta(m)
      PROVE  [Lock!Next]_<<Turns, Lines>>
  <2>1. \A n \in Mutexes : n # m => TurnOf(n)' = TurnOf(n) /\ LineOf(n)' = LineOf(n)
    <3> SUFFICES ASSUME NEW n \in Mutexes, n # m
                 PROVE  TurnOf(n)' = TurnOf(n) /\ LineOf(n)' = LineOf(n)
      OBVIOUS
    <3>1. CASE n \in destroyed'
      BY <1>2, <3>1 DEF OthersIdle, TurnOf, LineOf
    <3>2. CASE n \notin destroyed'
      <4>1. Idle(n) /\ MutexOK(n)
        BY <1>2, <3>2 DEF OthersIdle, Idle, MutexesOK
      <4> QED BY <3>2, <4>1, IdleLock
    <3> QED BY <3>1, <3>2
  <2>2. /\ Turns' = [Turns EXCEPT ![m] = TurnOf(m)']
        /\ Lines' = [Lines EXCEPT ![m] = LineOf(m)']
    BY <2>1 DEF Turns, Lines
  <2>3. Turns[m] = TurnOf(m) /\ Lines[m] = LineOf(m)
    BY DEF Turns, Lines
  <2>f. /\ m \in destroyed' => TurnOf(m)' = NoThread /\ LineOf(m)' = <<>>
        /\ m \notin destroyed' => LineOf(m)' = wait'[m]
        /\ Turn(m)' = {} => TurnOf(m)' = NoThread
        /\ \A c : m \notin destroyed' /\ Turn(m)' = {c} => TurnOf(m)' = c
    BY DEF TurnOf, LineOf
  <2>g. /\ m \in destroyed => TurnOf(m) = NoThread /\ LineOf(m) = <<>>
        /\ m \notin destroyed => LineOf(m) = wait[m]
        /\ Turn(m) = {} => TurnOf(m) = NoThread
        /\ m \notin destroyed /\ Turn(m) # {} => TurnOf(m) \in Turn(m) /\ TurnOf(m) # NoThread
        /\ \A c : m \notin destroyed /\ Turn(m) = {c} => TurnOf(m) = c
    BY TurnFacts
  <2>s. ASSUME TurnOf(m)' = TurnOf(m), LineOf(m)' = LineOf(m)
        PROVE  [Lock!Next]_<<Turns, Lines>>
    <3>1. Turns' = Turns /\ Lines' = Lines
      BY <2>1, <2>s DEF Turns, Lines
    <3> QED BY <3>1
  <2>n. ASSUME \/ \E c \in Threads : Lock!Ask(m, c)
               \/ Lock!Release(m) \/ Lock!Abolish(m)
        PROVE  [Lock!Next]_<<Turns, Lines>>
    BY <2>n DEF Lock!Next
  <2>w. \A i \in 1 .. Len(wait[m]) : wait[m][i] # current
    <3>1. ~OccursIn(current, wait[m])
      BY <1>t, Waiters, CurrentRuns
    <3> QED BY <3>1 DEF OccursIn
  <2>4. CASE m \in destroyed'
    <3>1. Turns' = [Turns EXCEPT ![m] = NoThread] /\ Lines' = [Lines EXCEPT ![m] = <<>>]
      BY <2>2, <2>4, <2>f
    <3>2. Lock!Abolish(m)
      BY <3>1 DEF Lock!Abolish, Turns, Lines, TurnOf, LineOf
    <3> QED BY <2>n, <3>2
  <2>5. CASE Restored(m)
    BY <2>5, <2>f, <2>g, <2>s, RestoredOK DEF Restored
  <2>6. CASE MutexOK(m) /\ m \notin destroyed /\ m \notin destroyed'
    <3>1. CASE Joins(m)
      <4>1. /\ Turn(m)' = Turn(m) /\ Turn(m) # {} /\ wait'[m] = Append(wait[m], current)
            /\ current \notin Turn(m)
        <5>1. Turn(m)' = Turn(m) /\ Turn(m) # {} /\ wait'[m] = Append(wait[m], current)
          BY <2>6, <3>1, JoinsOK, SomebodysTurn DEF Joins
        <5>2. m \notin owned[current] /\ ~Acquiring(current, m)
          BY <1>t, <2>6, <3>1 DEF Joins, MutexOK
        <5> QED BY <5>1, <5>2, NextSets
      <4>2. /\ TurnOf(m)' = TurnOf(m) /\ TurnOf(m) # current /\ TurnOf(m) # NoThread
            /\ LineOf(m)' = Append(LineOf(m), current)
        <5>1. TurnOf(m)' = TurnOf(m)
          BY <2>6, <4>1 DEF TurnOf
        <5> QED BY <2>6, <2>f, <2>g, <4>1, <5>1
      <4>3. Turns' = Turns /\ Lines' = [Lines EXCEPT ![m] = Append(Lines[m], current)]
        <5>1. Turns' = Turns
          BY <2>1, <4>2 DEF Turns
        <5> QED BY <2>2, <2>3, <4>2, <5>1
      <4>4. \A i \in 1 .. Len(Lines[m]) : Lines[m][i] # current
        BY <2>3, <2>6, <2>g, <2>w
      <4>5. PICK c \in Threads : c = current
        BY <1>t
      <4>6. Lock!Ask(m, c)
        BY <2>3, <4>2, <4>3, <4>4, <4>5 DEF Lock!Ask, Lock!Free, Turns, Lines, TurnOf, LineOf
      <4> QED BY <2>n, <4>6
    <3>2. CASE Passes(m)
      <4>1. /\ TurnOf(m) = current /\ TurnOf(m)' = Head(wait[m]) /\ wait[m] # <<>>
            /\ LineOf(m)' = Tail(wait[m]) /\ LineOf(m) = wait[m]
        BY <2>6, <2>f, <2>g, <3>2, PassesOK DEF Passes
      <4>2. /\ Turns' = [Turns EXCEPT ![m] = Head(Lines[m])]
            /\ Lines' = [Lines EXCEPT ![m] = Tail(Lines[m])]
            /\ Turns[m] # NoThread /\ Lines[m] # <<>>
        BY <1>t, <2>2, <2>3, <4>1
      <4>3. Lock!Release(m)
        BY <4>2 DEF Lock!Release, Lock!Free, Turns, Lines, TurnOf, LineOf
      <4> QED BY <2>n, <4>3
    <3>3. CASE Takes(m)
      <4>1. TurnOf(m) = NoThread /\ TurnOf(m)' = current /\ LineOf(m)' = LineOf(m)
        BY <2>6, <2>f, <2>g, <3>3, TakesOK DEF Takes
      <4>2. /\ Turns' = [Turns EXCEPT ![m] = current] /\ Lines' = Lines
            /\ Turns[m] = NoThread
        <5>1. Lines' = Lines
          BY <2>1, <4>1 DEF Lines
        <5> QED BY <2>2, <2>3, <4>1, <5>1
      <4>3. \A i \in 1 .. Len(Lines[m]) : Lines[m][i] # current
        BY <2>3, <2>6, <2>g, <2>w
      <4>4. PICK c \in Threads : c = current
        BY <1>t
      <4>5. Lock!Ask(m, c)
        BY <1>t, <4>2, <4>3, <4>4 DEF Lock!Ask, Lock!Free, Turns, Lines, TurnOf, LineOf
      <4> QED BY <2>n, <4>5
    <3>4. CASE Gives(m)
      <4>1. /\ TurnOf(m) = current /\ TurnOf(m)' = NoThread /\ LineOf(m) = <<>>
            /\ LineOf(m)' = LineOf(m)
        BY <2>6, <2>f, <2>g, <3>4, GivesOK, GivesEmpty DEF Gives
      <4>2. /\ Turns' = [Turns EXCEPT ![m] = NoThread] /\ Lines' = Lines
            /\ Turns[m] # NoThread /\ Lines[m] = <<>>
        <5>1. Lines' = Lines
          BY <2>1, <4>1 DEF Lines
        <5> QED BY <1>t, <2>2, <2>3, <4>1, <5>1
      <4>3. Lock!Release(m)
        BY <4>2 DEF Lock!Release, Lock!Free, Turns, Lines, TurnOf, LineOf
      <4> QED BY <2>n, <4>3
    <3>5. CASE Gets(m) \/ Quits(m)
      <4>1. Turn(m)' = Turn(m) /\ wait'[m] = wait[m]
        BY <2>6, <3>5, GetsOK, QuitsOK DEF Gets, Quits, Wakes
      <4> QED BY <2>6, <2>s, <4>1 DEF TurnOf, LineOf
    <3> QED BY <1>2, <2>6, <3>1, <3>2, <3>3, <3>4, <3>5, NeverFails DEF MutexDelta, Restored
  <2> QED BY <1>2, <2>4, <2>5, <2>6 DEF MutexDelta, MutexesOK, Joins, Passes, Takes, Gives,
             Gets, Quits, Fails, Wakes, Live
<1> QED BY <1>1, <1>2, OtherSteps, MutexSteps DEF Effect

-----------------------------------------------------------------------------
(* The invariant of the synchronization objects.                           *)

SyncInv ==
  /\ KernelInv /\ StatePlaces /\ LoopObjects
  /\ NoMissedSignal /\ DeadExact /\ DpcSignalled /\ TimersSorted /\ TimersCover
  /\ MutexesOK /\ TimedCalls

\* Before the first call nobody waits, sleeps, owns or is dead.
LEMMA InitSync == Init => SyncInv /\ Waited
<1> SUFFICES ASSUME Init PROVE SyncInv /\ Waited
  OBVIOUS
<1>1. KernelInv
  BY InitInv
<1>2. /\ Bootstrap \in Threads /\ DpcThread \in Threads /\ DpcEvent \in AllEvents
      /\ Bootstrap # DpcThread
      /\ AllEvents \subseteq Queues /\ Mutexes \subseteq Queues
  BY ThreadsAssumption DEF Threads, AllEvents, Queues
<1>3. /\ \A t \in Threads : pc[t] = IF t = Bootstrap THEN "boot" ELSE "dead"
      /\ \A t \in Threads : state[t] = IF t = Bootstrap THEN "RUNNING" ELSE "NONE"
      /\ \A t \in Threads : obj[t] = NoObject /\ block_ret[t] = NO_ERROR /\ owned[t] = {}
      /\ \A o \in Queues : wait[o] = <<>>
      /\ \A m \in Mutexes : count[m] = 0
      /\ dpc_list = <<>> /\ timer_queue = <<>>
  BY DEF Init
<1>4. {"boot", "dead"} \cap (WaitPCs \cup LoopPCs \cup WakeLoops \cup TimedPCs \cup EventPCs) = {}
  BY DEF WaitPCs, MutexPCs, EventPCs, LoopPCs, WakeLoops, TimedPCs
<1>5. StatePlaces
  BY <1>3, <1>4 DEF StatePlaces, Place, Runs
<1>6. LoopObjects
  <2>1. \A t \in Threads : LoopPlace(pc[t], obj[t], destroyed)
    BY <1>3, <1>4 DEF LoopPlace
  <2>2. autounsignal[DpcEvent] = FALSE
    BY DEF Init
  <2> QED BY <2>1, <2>2 DEF LoopObjects
<1>7. NoMissedSignal /\ DpcSignalled
  BY <1>2, <1>3 DEF NoMissedSignal, DpcSignalled
<1>8. DeadExact
  <2>1. \A t : ~OccursIn(t, dpc_list)
    BY <1>3 DEF OccursIn
  <2>2. pc[DpcThread] = "dead"
    BY <1>2, <1>3
  <2> QED BY <1>3, <2>1, <2>2 DEF DeadExact, Cleaning
<1>9. TimersSorted /\ TimersCover
  BY <1>3 DEF TimersSorted, Sorted, TimersCover
<1>10. \A m \in Mutexes, t \in Threads : m \notin owned[t] /\ ~Acquiring(t, m)
  BY <1>3 DEF Acquiring
<1>11. MutexesOK
  <2> SUFFICES ASSUME NEW m \in Mutexes PROVE MutexOK(m)
    BY DEF MutexesOK
  <2>1. Users(m) = {} /\ Turn(m) = {}
    BY <1>10 DEF Users, Turn
  <2>2. Cardinality(Users(m)) = 0
    BY <2>1, FS_EmptySet
  <2> QED BY <1>3, <1>10, <2>1, <2>2 DEF MutexOK
<1>12. TimedCalls
  BY <1>3 DEF TimedCalls
<1>13. Waited
  BY <1>2, <1>3 DEF Waited
<1> QED BY <1>1, <1>5, <1>6, <1>7, <1>8, <1>9, <1>11, <1>12, <1>13 DEF SyncInv

\* SyncInv is inductive.
LEMMA SyncStep == SyncInv /\ [Next]_vars => SyncInv'
<1> SUFFICES ASSUME SyncInv, [Next]_vars PROVE SyncInv'
  OBVIOUS
<1>1. /\ KernelInv /\ StatePlaces /\ LoopObjects
      /\ NoMissedSignal /\ DeadExact /\ DpcSignalled /\ TimersSorted /\ TimersCover
      /\ MutexesOK /\ TimedCalls
  BY DEF SyncInv
<1>2. Effect /\ KernelInv'
  BY <1>1, StepEffects, NextInv
<1>3. StatePlaces' /\ LoopObjects'
  BY <1>1, <1>2, PlacesStep, LoopObjectsStep
<1>4. NoMissedSignal' /\ DeadExact' /\ DpcSignalled'
  BY <1>1, <1>2, SignalStep, DeadStep, DpcSignalStep
<1>5. TimersSorted' /\ TimersCover'
  BY <1>1, <1>2, TimersStep
<1>6. MutexesOK' /\ TimedCalls'
  BY <1>1, <1>2, MutexesStep, TimedStep
<1> QED BY <1>2, <1>3, <1>4, <1>5, <1>6 DEF SyncInv

\* The kernel never leaves SyncInv.
THEOREM SyncInvariant == Spec => []SyncInv
<1>1. Init => SyncInv
  BY InitSync
<1> QED BY <1>1, SyncStep, PTL DEF Spec

\* However event_signal(), event_wait_timeout(), timeouts and the wake loops
\* interleave, no thread stays blocked on an event that is signalled.
THEOREM NoSignalIsMissed == Spec => []NoMissedSignal
<1>1. SyncInv => NoMissedSignal
  BY DEF SyncInv
<1> QED BY <1>1, SyncInvariant, PTL

\* Every thread that called thread_exit() is queued once for the dpc thread, or
\* is the one it cleans up, and has then left its stack; a queued cleanup keeps
\* dpc_event signalled.
THEOREM DeadThreadsAreQueued == Spec => []DeadThreadsQueued
<1>1. SyncInv => DeadThreadsQueued
  BY DeadParts DEF SyncInv
<1> QED BY <1>1, SyncInvariant, PTL

\* The timer queue is in order of expiry, holds a timer for every thread that
\* sleeps or waits with a timeout, and none on a stack frame that is gone.
THEOREM TimerQueueCorrect == Spec => []TimersExact
<1>1. SyncInv => TimersExact
  BY DEF SyncInv, KernelInv, TimersExact, TimersSorted, Sorted, TimersCover
<1> QED BY <1>1, SyncInvariant, PTL

\* One thread at a time owns a mutex, and m->holder names it.
THEOREM MutexesExclude == Spec => []MutualExclusion
<1>1. SyncInv => MutualExclusion
  BY MutexParts DEF SyncInv
<1> QED BY <1>1, SyncInvariant, PTL

\* m->count is the number of threads that own the mutex or try to.
THEOREM MutexCountsCount == Spec => []MutexCountExact
<1>1. SyncInv => MutexCountExact
  BY MutexParts DEF SyncInv
<1> QED BY <1>1, SyncInvariant, PTL

-----------------------------------------------------------------------------
(* Without timeouts.                                                       *)

\* If no timeouts are used, no thread is in a timed attempt.
LEMMA NobodyTimed ==
  ASSUME MutexTimeouts = {}, SyncInv
  PROVE  ~Timed
BY DEF SyncInv, TimedCalls, Timed

\* Without timeouts every step keeps Waited and is a step of the FIFO locks.
LEMMA UntimedStep ==
  ASSUME MutexTimeouts = {}, SyncInv, Waited, [Next]_vars
  PROVE  Waited' /\ [Lock!Next]_<<Turns, Lines>>
<1>1. KernelInv /\ StatePlaces /\ LoopObjects /\ MutexesOK
  BY DEF SyncInv
<1>2. Effect /\ KernelInv' /\ ~Timed
  BY <1>1, StepEffects, NextInv, NobodyTimed
<1> QED BY <1>1, <1>2, WaitedStep, LockStep

\* As long as nobody calls mutex_acquire_timeout() with a timeout, threads that are
\* blocked in mutex_acquire() wait for somebody (Waited).
THEOREM WaitedInvariant == ASSUME MutexTimeouts = {} PROVE Spec => []Waited
<1>1. Init => SyncInv /\ Waited
  BY InitSync
<1>2. (SyncInv /\ Waited) /\ [Next]_vars => (SyncInv /\ Waited)'
  BY SyncStep, UntimedStep
<1> QED BY <1>1, <1>2, PTL DEF Spec

\* As long as nobody calls mutex_acquire_timeout() with a timeout, whoever is
\* blocked in mutex_acquire() waits for a thread that has the mutex, or to whom
\* mutex_release() has handed it.
THEOREM NoWaiterIsOrphaned == ASSUME MutexTimeouts = {} PROVE Spec => []NoOrphanedWaiter
<1>1. Waited => NoOrphanedWaiter
  BY DEF Waited, NoOrphanedWaiter, Turn
<1> QED BY <1>1, WaitedInvariant, PTL

\* As long as nobody calls mutex_acquire_timeout() with a timeout, the mutexes
\* implement FifoLock.
THEOREM MutexesImplementFifoLocks ==
  ASSUME MutexTimeouts = {} PROVE Spec => MutexesAreFifoLocks
<1>1. Init => Lock!Init
  <2> SUFFICES ASSUME Init PROVE Lock!Init
    OBVIOUS
  <2>1. \A m \in Mutexes : m \in Queues /\ wait[m] = <<>> /\ destroyed = {} /\ Turn(m) = {}
    BY DEF Init, Turn, Acquiring, Queues
  <2> QED BY <2>1 DEF Lock!Init
<1>2. SyncInv /\ Waited /\ [Next]_vars => [Lock!Next]_<<Turns, Lines>>
  BY UntimedStep
<1>3. SyncInv /\ Waited /\ [Next]_vars => [Lock!Next]_<<
        [m \in Mutexes |-> IF m \in destroyed \/ Turn(m) = {} THEN NoThread
                             ELSE CHOOSE t \in Turn(m) : TRUE],
        [m \in Mutexes |-> IF m \in destroyed THEN <<>> ELSE wait[m]]>>
  BY <1>2 DEF Turns, Lines, TurnOf, LineOf
<1> QED BY <1>1, <1>3, SyncInvariant, WaitedInvariant, PTL DEF Spec, MutexesAreFifoLocks, Lock!Spec

-----------------------------------------------------------------------------
(* thread_resched(): who runs next, and what becomes of the critical       *)
(* section count.                                                          *)

\* A thread_resched() that is entered with a count of c.
Dispatch(c) ==
  /\ current' \in Threads
  /\ saved' = IF current' = current THEN saved ELSE [saved EXCEPT ![current] = c]
  /\ crit' = IF current' = current THEN c ELSE saved[current']
  /\ \A t \in Threads : state'[t] = "READY" => priority[t] <= priority[current']

\* thread_resched() takes the first thread of the highest queue that is not empty.
LEMMA ReschedDispatch ==
  ASSUME KernelInv, NEW rq \in RunQueues, NEW bm \in SUBSET Priorities,
         NEW st \in StateFunctions, NEW q, NEW c,
         RunQueuesMatch(rq, bm, st, priority), thread_resched(rq, bm, st, q, c)
  PROVE  Dispatch(c)
<1>1. PICK p \in Priorities :
        Highest(p, bm) /\ SwitchTo(Head(rq[p]), p, rq, bm, st, q, c)
  BY DEF thread_resched
<1> DEFINE new == Head(rq[p])
<1>2. rq[p] \in Seq(Threads) /\ rq[p] # <<>> /\ Distinct(rq[p])
  BY <1>1 DEF RunQueues, RunQueuesMatch, Highest
<1>3. new \in Threads /\ OccursIn(new, rq[p])
  BY <1>2, TailFacts
<1>4. priority[new] = p
  BY <1>3 DEF RunQueuesMatch
<1>5. priority \in [Threads -> Priorities]
  BY DEF KernelInv, TypeOK
<1>6. /\ current' = new /\ state' = [st EXCEPT ![new] = "RUNNING"]
      /\ saved' = IF new = current THEN saved ELSE [saved EXCEPT ![current] = c]
      /\ crit' = IF new = current THEN c ELSE saved[new]
  BY <1>1 DEF SwitchTo
<1> HIDE DEF new
<1>7. ASSUME NEW t \in Threads, state'[t] = "READY"
      PROVE  priority[t] <= priority[new]
  <2>1. st[t] = "READY"
    BY <1>3, <1>6, <1>7 DEF StateFunctions
  <2>2. rq[priority[t]] # <<>>
    <3>1. OccursIn(t, rq[priority[t]])
      BY <1>5, <2>1 DEF RunQueuesMatch
    <3> QED BY <3>1 DEF OccursIn
  <2>3. priority[t] \in bm
    BY <1>5, <2>2 DEF RunQueuesMatch
  <2> QED BY <1>1, <1>4, <2>3 DEF Highest
<1> QED BY <1>3, <1>6, <1>7 DEF Dispatch

\* The current thread stops with state x, which is not READY.
LEMMA StopDispatch ==
  ASSUME KernelInv, pc[current] \notin LoopPCs, NEW x \in {"BLOCKED", "SLEEPING"}, NEW c,
         thread_resched(run_queue, run_queue_bitmap, [state EXCEPT ![current] = x],
                        quantum, c)
  PROVE  Dispatch(c)
<1>1. /\ SchedTypes /\ state[current] = "RUNNING"
      /\ RunQueuesMatch(run_queue, run_queue_bitmap, state, priority)
  BY CurrentFacts
<1> DEFINE st == [state EXCEPT ![current] = x]
<1>2. st \in StateFunctions
  BY <1>1 DEF SchedTypes, StateFunctions, ThreadStates
<1>3. RunQueuesMatch(run_queue, run_queue_bitmap, st, priority)
  BY <1>1, RunQueuesOtherState DEF SchedTypes
<1> HIDE DEF st
<1> QED BY <1>1, <1>2, <1>3, ReschedDispatch DEF SchedTypes, st

\* The current thread goes back to its run queue.
LEMMA YieldDispatch ==
  ASSUME KernelInv, pc[current] \notin LoopPCs,
         NEW rq \in RunQueues, NEW bm \in SUBSET Priorities, NEW st \in StateFunctions,
         RunQueuesMatch(rq, bm, st, priority), st[current] = "RUNNING", NEW q, NEW c,
         LET bm1 == bm \cup {priority[current]}
             st1 == [st EXCEPT ![current] = "READY"]
         IN  \/ thread_resched(insert_in_run_queue_head(rq, current), bm1, st1, q, c)
             \/ thread_resched(insert_in_run_queue_tail(rq, current), bm1, st1, q, c)
  PROVE  Dispatch(c)
<1> DEFINE st1 == [st EXCEPT ![current] = "READY"]
           bm1 == bm \cup {priority[current]}
           rh == insert_in_run_queue_head(rq, current)
           rt == insert_in_run_queue_tail(rq, current)
<1>1. SchedTypes /\ OtherTypes
  BY CurrentFacts
<1>2. current \in Threads /\ priority \in [Threads -> Priorities]
  BY <1>1 DEF SchedTypes, OtherTypes
<1>3. /\ rh \in RunQueues /\ rt \in RunQueues
      /\ RunQueuesMatch(rh, bm1, st1, priority) /\ RunQueuesMatch(rt, bm1, st1, priority)
      /\ st1 \in StateFunctions /\ bm1 \in SUBSET Priorities
  BY <1>2, InsertInRunQueue
<1>4. thread_resched(rh, bm1, st1, q, c) \/ thread_resched(rt, bm1, st1, q, c)
  OBVIOUS
<1> HIDE DEF st1, bm1, rh, rt
<1> QED BY <1>3, <1>4, ReschedDispatch

\* thread_resume() of a new thread.
LEMMA ResumeDispatch ==
  ASSUME KernelInv, pc[current] \in ResumePCs, NEW p, thread_resume(obj[current], p)
  PROVE  Dispatch(crit + 2)
<1> DEFINE t == obj[current]
           st == [state EXCEPT ![t] = "READY"]
           rq == insert_in_run_queue_head(run_queue, t)
           bm == run_queue_bitmap \cup {priority[t]}
           q == [quantum EXCEPT ![current] = 0]
<1>0. pc[current] \notin LoopPCs
  BY DEF ResumePCs, LoopPCs, WakeLoops
<1>1. /\ SchedTypes /\ OtherTypes /\ state[current] = "RUNNING"
      /\ RunQueuesMatch(run_queue, run_queue_bitmap, state, priority)
  BY <1>0, CurrentFacts
<1>2. /\ t \in Threads /\ state[t] = "SUSPENDED" /\ state \in StateFunctions
      /\ current \in Threads /\ current # t
  BY <1>1 DEF KernelInv, CallsConsistent, SchedTypes
<1>3. /\ RunQueuesMatch(rq, bm, st, priority) /\ rq \in RunQueues
      /\ st \in StateFunctions /\ bm \in SUBSET Priorities
  BY <1>1, <1>2, InsertInRunQueue DEF SchedTypes, OtherTypes
<1>4. st[current] = "RUNNING"
  BY <1>1, <1>2 DEF StateFunctions
<1>5. thread_resched(insert_in_run_queue_tail(rq, current), bm \cup {priority[current]},
                     [st EXCEPT ![current] = "READY"], q, crit + 1 + 1)
  BY DEF thread_resume, thread_yield
<1>6. crit + 1 + 1 = crit + 2
  BY <1>1 DEF SchedTypes
<1> HIDE DEF st, rq, bm, q
<1>7. Dispatch(crit + 1 + 1)
  BY <1>0, <1>3, <1>4, <1>5, YieldDispatch
<1> QED BY <1>6, <1>7

\* wait_queue_wake_one() with a reschedule.
LEMMA WakeOneDispatch ==
  ASSUME KernelInv, pc[current] \notin LoopPCs, NEW o \in Queues, NEW ret,
         wait[o] # <<>>, wait_queue_wake_one_resched(o, ret)
  PROVE  Dispatch(crit + 1)
<1> DEFINE t == Head(wait[o])
           rq0 == insert_in_run_queue_head(run_queue, current)
           bm0 == run_queue_bitmap \cup {priority[current]}
           st0 == [state EXCEPT ![current] = "READY"]
           rq1 == insert_in_run_queue_head(rq0, t)
           bm1 == bm0 \cup {priority[t]}
           st1 == [st0 EXCEPT ![t] = "READY"]
<1>1. /\ SchedTypes /\ OtherTypes /\ state[current] = "RUNNING"
      /\ RunQueuesMatch(run_queue, run_queue_bitmap, state, priority)
  BY CurrentFacts
<1>2. t \in Threads /\ state[t] = "BLOCKED"
  BY FirstWaiter
<1>3. /\ current \in Threads /\ state \in StateFunctions /\ current # t
      /\ run_queue \in RunQueues /\ run_queue_bitmap \in SUBSET Priorities
      /\ priority \in [Threads -> Priorities]
  BY <1>1, <1>2 DEF SchedTypes, OtherTypes
<1>4. /\ rq0 \in RunQueues /\ RunQueuesMatch(rq0, bm0, st0, priority)
      /\ st0 \in StateFunctions /\ bm0 \in SUBSET Priorities
  BY <1>1, <1>3, InsertInRunQueue
<1>5. st0[t] = "BLOCKED"
  BY <1>2, <1>3 DEF StateFunctions
<1>6. /\ rq1 \in RunQueues /\ RunQueuesMatch(rq1, bm1, st1, priority)
      /\ st1 \in StateFunctions /\ bm1 \in SUBSET Priorities
  <2> HIDE DEF rq0, bm0, st0
  <2> QED BY <1>2, <1>3, <1>4, <1>5, InsertInRunQueue
<1>7. bm1 = run_queue_bitmap \cup {priority[current], priority[t]}
  OBVIOUS
<1>8. thread_resched(rq1, bm1, st1, quantum, crit + 1)
  BY <1>7 DEF wait_queue_wake_one_resched
<1> HIDE DEF rq1, bm1, st1, rq0, bm0, st0, t
<1> QED BY <1>6, <1>8, ReschedDispatch

-----------------------------------------------------------------------------
(* How deep in critical sections a thread is, by the call that it is in.   *)

Depth(p) ==
  CASE p \in {"boot_dpc_return", "boot_bootstrap2_return"} -> 3
    [] p \in WaitPCs \cup {"thread_resume_return"} -> 2
    [] p \in LoopPCs \cup {"boot", "boot_resume_dpc", "boot_bootstrap2",
                           "boot_resume_bootstrap2", "boot_enable",
                           "initial_thread_func", "switch_return", "wake_return"} -> 1
    [] OTHER -> 0

\* How many critical sections each place of the code is in.
LEMMA Depths ==
  /\ \A p : Depth(p) \in Nat
  /\ \A p \in {"boot_dpc_return", "boot_bootstrap2_return"} : Depth(p) = 3
  /\ \A p \in WaitPCs \cup {"thread_resume_return"} : Depth(p) = 2
  /\ \A p \in LoopPCs \cup {"boot", "boot_resume_dpc", "boot_bootstrap2",
                            "boot_resume_bootstrap2", "boot_enable",
                            "initial_thread_func", "switch_return", "wake_return"} :
       Depth(p) = 1
  /\ \A p \in {"user", "dpc_wait", "dpc_pop", "thread_cleanup_dpc", "thread_resume",
               "thread_resume_enter", "become_idle", "set_idle_thread", "idle", "dead"} :
       Depth(p) = 0
<1>1. /\ {"boot_dpc_return", "boot_bootstrap2_return"}
           \cap (WaitPCs \cup LoopPCs \cup {"thread_resume_return"}) = {}
      /\ (WaitPCs \cup {"thread_resume_return"}) \cap
           (LoopPCs \cup {"boot", "boot_resume_dpc", "boot_bootstrap2",
                          "boot_resume_bootstrap2", "boot_enable",
                          "initial_thread_func", "switch_return", "wake_return"}) = {}
      /\ (WaitPCs \cup LoopPCs) \cap
           {"user", "dpc_wait", "dpc_pop", "thread_cleanup_dpc", "thread_resume",
            "thread_resume_enter", "become_idle", "set_idle_thread", "idle", "dead"} = {}
  BY DEF WaitPCs, MutexPCs, EventPCs, LoopPCs, WakeLoops
<1> QED BY <1>1 DEF Depth

\* The steps, as far as critical sections are concerned.

Quiet == UNCHANGED <<current, pc, irq, saved, crit, ints>>

\* The current thread goes on to p; nothing else of this changes.
GoesTo(p) ==
  /\ irq[current] = "none" /\ irq' = irq
  /\ pc' = [pc EXCEPT ![current] = p]

Stays(p) == GoesTo(p) /\ current' = current /\ saved' = saved

Goes ==
  \E p : Stays(p) /\ Depth(p) = Depth(pc[current]) /\ p # "dead"
         /\ crit' = crit /\ ints' = ints

Leaves ==
  \E p : /\ Stays(p) /\ Depth(p) = 0 /\ p # "dead"
         /\ crit' = crit - Depth(pc[current])
         /\ ints' = (ints \/ crit - Depth(pc[current]) = 0)

BootLeaves ==
  \E p : /\ Stays(p) /\ Depth(p) = 1 /\ p # "dead" /\ Depth(pc[current]) = 3
         /\ crit' = crit - 2
         /\ ints' = (ints \/ crit - 2 = 0)

Enters ==
  \E p : /\ Stays(p) /\ Depth(p) = 1 /\ p # "dead"
         /\ crit = 0 /\ crit' = 1 /\ ~ints'

Switches ==
  \E p, c : /\ GoesTo(p) /\ Dispatch(c) /\ (ints' => ints /\ crit # 0)
            /\ p = "dead" \/ (Depth(p) >= 1 /\ c = crit - Depth(pc[current]) + Depth(p))

Creates ==
  \E t, p :
    /\ t \in Threads /\ irq[current] = "none" /\ state[t] = "NONE" /\ p # "dead"
    /\ pc' = [pc EXCEPT ![t] = "initial_thread_func", ![current] = p]
    /\ Depth(p) = Depth(pc[current])
    /\ saved' = [saved EXCEPT ![t] = 1]
    /\ UNCHANGED <<current, irq, crit, ints>>

Frees ==
  \E p :
    /\ GoesTo(p) /\ Depth(p) = Depth(pc[current]) /\ p # "dead"
    /\ obj[current] \in Threads /\ state[obj[current]] = "DEATH"
    /\ saved' = [saved EXCEPT ![obj[current]] = 1]
    /\ UNCHANGED <<current, crit, ints>>

Interrupted ==
  /\ ints /\ irq[current] = "none"
  /\ crit' = crit + 1 /\ ints' = FALSE
  /\ irq' = [irq EXCEPT ![current] = "timer_tick"]
  /\ UNCHANGED <<current, pc, saved>>

Preempted ==
  /\ irq[current] = "timer_tick" /\ Dispatch(crit + 1)
  /\ irq' = [irq EXCEPT ![current] = "preempted"]
  /\ UNCHANGED <<pc, ints>>

Continues ==
  /\ irq[current] = "preempted"
  /\ crit' = crit - 2 /\ ints' = TRUE
  /\ irq' = [irq EXCEPT ![current] = "none"]
  /\ UNCHANGED <<current, pc, saved>>

\* The timer interrupt comes upon a wait that is over: the early return of
\* thread_unblock_from_wait_queue() leaves its critical section behind.
Leaks ==
  /\ current' = current
  /\ \E t \in Threads : pc[t] \in TimedPCs

SectionStep ==
  \/ Quiet \/ Goes \/ Leaves \/ BootLeaves \/ Enters \/ Switches \/ Creates \/ Frees
  \/ Interrupted \/ Preempted \/ Continues \/ Leaks

-----------------------------------------------------------------------------
(* Every step is one of these.                                             *)

\* A call that ends in a switch.
LEMMA CallSwitches ==
  ASSUME KernelInv, NEW p, NEW o, NEW n \in Nat, irq[current] = "none", InCall(p, o),
         Dispatch(crit + n), disable_ints, Depth(p) = Depth(pc[current]) + n, Depth(p) >= 1
  PROVE  SectionStep
<1>1. crit \in Int /\ Depth(pc[current]) \in Nat
  BY Depths DEF KernelInv, TypeOK
<1>2. crit + n = crit - Depth(pc[current]) + Depth(p)
  BY <1>1
<1>3. GoesTo(p) /\ (ints' => ints /\ crit # 0)
  BY DEF GoesTo, InCall, disable_ints
<1>4. Switches
  BY <1>2, <1>3 DEF Switches
<1> QED BY <1>4 DEF SectionStep

\* wait_queue_wake_all() up to its loop.
LEMMA LoopEnters ==
  ASSUME KernelInv, NEW o, NEW q \in {"destroy_all", "signal_all", "signal_all_noresched"},
         irq[current] = "none", crit = 0, wait_queue_wake_all_begin(o, q)
  PROVE  SectionStep
<1>1. PICK p \in {"destroy_all", "signal_all", "signal_all_noresched"} : InCall(p, o)
  BY DEF wait_queue_wake_all_begin
<1>2. enter_critical_section /\ UNCHANGED <<current, saved>>
  BY DEF wait_queue_wake_all_begin
<1>3. Depth(p) = 1 /\ p # "dead"
  BY Depths DEF LoopPCs, WakeLoops
<1>4. Stays(p)
  BY <1>1, <1>2 DEF Stays, GoesTo, InCall
<1>5. crit' = 1
  BY <1>2 DEF enter_critical_section
<1>7. ~ints'
  BY <1>2, Zenon DEF enter_critical_section
<1>6. Enters
  BY <1>3, <1>4, <1>5, <1>7 DEF Enters
<1> QED BY <1>6 DEF SectionStep

\* What the calls on mutexes do to the critical sections.
LEMMA MutexSections ==
  ASSUME KernelInv, NEW m \in Mutexes,
         \/ mutex_acquire_free(m) \/ mutex_acquire(m)
         \/ mutex_acquire_timeout(m) \/ mutex_release(m)
         \/ mutex_destroy(m) \/ (Quiescent(m) /\ mutex_init(m))
  PROVE  SectionStep
<1>0. /\ pc[current] = "user" /\ irq[current] = "none" /\ crit = 0
      /\ "user" \notin LoopPCs /\ m \in Queues /\ Depth("user") = 0
  BY Depths DEF mutex_acquire_free, mutex_acquire, mutex_acquire_timeout, mutex_release,
         mutex_destroy, mutex_init, mutex_acquire_block, Calls, LoopPCs, WakeLoops, Queues
<1>1. CASE mutex_acquire_free(m) \/ mutex_init(m)
  BY <1>1 DEF mutex_acquire_free, mutex_init, schedVars, callVars, SectionStep, Quiet
<1>2. ASSUME NEW timeout, NEW p \in MutexPCs, mutex_acquire_block(m, timeout, p)
      PROVE  SectionStep
  <2>1. /\ disable_ints /\ wait_queue_block(m, timeout) /\ InCall(p, m)
    BY <1>2 DEF mutex_acquire_block
  <2>2. Dispatch(crit + 2)
    BY <1>0, <2>1, StopDispatch DEF wait_queue_block
  <2>3. Depth(p) = Depth(pc[current]) + 2 /\ Depth(p) >= 1 /\ 2 \in Nat
    BY <1>0, Depths DEF WaitPCs
  <2> QED BY <1>0, <2>1, <2>2, <2>3, CallSwitches
<1>3. CASE mutex_acquire(m) \/ mutex_acquire_timeout(m)
  BY <1>2, <1>3 DEF mutex_acquire, mutex_acquire_timeout, MutexPCs
<1>5. CASE mutex_release(m)
  <2>1. CASE UNCHANGED <<schedVars, callVars>>
    BY <2>1 DEF schedVars, callVars, SectionStep, Quiet
  <2>2. CASE /\ wait[m] # <<>> /\ disable_ints /\ wait_queue_wake_one_resched(m, NO_ERROR)
             /\ InCall("wake_return", NoObject)
    <3>1. Dispatch(crit + 1)
      BY <1>0, <2>2, WakeOneDispatch
    <3>2. /\ Depth("wake_return") = Depth(pc[current]) + 1
          /\ Depth("wake_return") >= 1 /\ 1 \in Nat
      BY <1>0, Depths
    <3> QED BY <1>0, <2>2, <3>1, <3>2, CallSwitches
  <2> QED BY <1>5, <2>1, <2>2 DEF mutex_release
<1>6. CASE mutex_destroy(m)
  BY <1>0, <1>6, LoopEnters DEF mutex_destroy
<1> QED BY <1>1, <1>3, <1>5, <1>6

\* What the calls on events do to them.
LEMMA EventSections ==
  ASSUME KernelInv, NEW e \in Events,
         \/ event_wait(e) \/ event_unsignal(e)
         \/ event_signal(e, TRUE) \/ event_signal(e, FALSE)
         \/ event_destroy(e) \/ (Quiescent(e) /\ event_init(e))
  PROVE  SectionStep
<1>0. /\ pc[current] = "user" /\ irq[current] = "none" /\ crit = 0
      /\ "user" \notin LoopPCs /\ e \in Queues /\ Depth("user") = 0
  BY Depths DEF event_wait, event_unsignal, event_signal, event_destroy, event_init, Calls,
         LoopPCs, WakeLoops, AllEvents, Queues
<1>1. CASE UNCHANGED <<schedVars, callVars>>
  BY <1>1 DEF schedVars, callVars, SectionStep, Quiet
<1>2. ASSUME NEW timeout, NEW p \in EventPCs, event_wait_block(e, timeout, p)
      PROVE  SectionStep
  <2>1. /\ disable_ints /\ wait_queue_block(e, timeout) /\ InCall(p, e)
    BY <1>2 DEF event_wait_block
  <2>2. Dispatch(crit + 2)
    BY <1>0, <2>1, StopDispatch DEF wait_queue_block
  <2>3. Depth(p) = Depth(pc[current]) + 2 /\ Depth(p) >= 1 /\ 2 \in Nat
    BY <1>0, Depths DEF WaitPCs
  <2> QED BY <1>0, <2>1, <2>2, <2>3, CallSwitches
<1>3. ASSUME NEW q \in {"destroy_all", "signal_all", "signal_all_noresched"},
             wait_queue_wake_all_begin(e, q)
      PROVE  SectionStep
  BY <1>0, <1>3, LoopEnters
<1>4. CASE event_wait(e)
  <2>1. CASE event_wait_through(e) /\ UNCHANGED callVars
    BY <1>1, <2>1 DEF event_wait_through
  <2> QED BY <1>2, <1>4, <2>1 DEF event_wait, EventPCs
<1>5. CASE event_unsignal(e) \/ event_init(e)
  BY <1>1, <1>5 DEF event_unsignal, event_init
<1>6. CASE event_destroy(e)
  BY <1>3, <1>6 DEF event_destroy
<1>7. ASSUME NEW r \in BOOLEAN, event_signal(e, r)
      PROVE  SectionStep
  <2>1. CASE /\ wait[e] # <<>> /\ disable_ints /\ wait_queue_wake_one_resched(e, NO_ERROR)
             /\ InCall("wake_return", NoObject)
    <3>1. Dispatch(crit + 1)
      BY <1>0, <2>1, WakeOneDispatch
    <3>2. /\ Depth("wake_return") = Depth(pc[current]) + 1
          /\ Depth("wake_return") >= 1 /\ 1 \in Nat
      BY <1>0, Depths
    <3> QED BY <1>0, <2>1, <3>1, <3>2, CallSwitches
  <2>2. CASE UNCHANGED <<current, idle_thread, priority, quantum, saved, crit, ints, callVars>>
    BY <2>2 DEF callVars, SectionStep, Quiet
  <2>3. CASE wait_queue_wake_all_begin(
               e, IF r THEN "signal_all" ELSE "signal_all_noresched")
    BY <1>3, <2>3
  <2> QED BY <1>1, <1>7, <2>1, <2>2, <2>3 DEF event_signal
<1> QED BY <1>4, <1>5, <1>6, <1>7

\* The calls of workers.
LEMMA UserSections ==
  ASSUME KernelInv, UserCall
  PROVE  SectionStep
<1>d. /\ Depth("user") = 0 /\ Depth("switch_return") = 1 /\ Depth("thread_resume") = 0
      /\ "user" \notin LoopPCs
  BY Depths DEF LoopPCs, WakeLoops
<1>1. CASE CreateThread
  <2>1. PICK t \in Workers, x \in CreatePriorities : thread_create(t, x, "thread_resume")
    BY <1>1 DEF CreateThread
  <2>2. pc[current] = "user" /\ irq[current] = "none" /\ t \in Threads
    BY <1>1 DEF CreateThread, Calls, Threads
  <2>3. /\ state[t] = "NONE" /\ irq' = irq
        /\ pc' = [pc EXCEPT ![t] = "initial_thread_func", ![current] = "thread_resume"]
        /\ saved' = [saved EXCEPT ![t] = 1] /\ UNCHANGED <<current, crit, ints>>
    BY <2>1 DEF thread_create, FreshThread
  <2>4. Creates
    BY <1>d, <2>2, <2>3 DEF Creates
  <2> QED BY <2>4 DEF SectionStep
<1>2. CASE Yield
  <2>1. /\ pc[current] = "user" /\ irq[current] = "none" /\ disable_ints
        /\ InCall("switch_return", NoObject)
        /\ thread_resched(insert_in_run_queue_tail(run_queue, current),
                          run_queue_bitmap \cup {priority[current]},
                          [state EXCEPT ![current] = "READY"],
                          [quantum EXCEPT ![current] = 0], crit + 1)
    BY <1>2 DEF Yield, Calls, thread_yield
  <2>2. /\ SchedTypes /\ state[current] = "RUNNING"
        /\ RunQueuesMatch(run_queue, run_queue_bitmap, state, priority)
    BY <1>d, <2>1, CurrentFacts
  <2>3. Dispatch(crit + 1)
    BY <1>d, <2>1, <2>2, YieldDispatch DEF SchedTypes
  <2>4. /\ Depth("switch_return") = Depth(pc[current]) + 1
        /\ Depth("switch_return") >= 1 /\ 1 \in Nat
    BY <1>d, <2>1
  <2> QED BY <2>1, <2>3, <2>4, CallSwitches
<1>3. CASE thread_sleep
  <2>1. /\ pc[current] = "user" /\ irq[current] = "none" /\ disable_ints
        /\ InCall("switch_return", NoObject)
        /\ thread_resched(run_queue, run_queue_bitmap,
                          [state EXCEPT ![current] = "SLEEPING"], quantum, crit + 1)
    BY <1>3 DEF thread_sleep, Calls
  <2>2. Dispatch(crit + 1)
    BY <1>d, <2>1, StopDispatch
  <2>3. /\ Depth("switch_return") = Depth(pc[current]) + 1
        /\ Depth("switch_return") >= 1 /\ 1 \in Nat
    BY <1>d, <2>1
  <2> QED BY <2>1, <2>2, <2>3, CallSwitches
<1>4. CASE thread_exit
  <2>1. PICK p \in {"exit_resched", "exit_signal"} : InCall(p, DpcEvent)
    BY <1>4 DEF thread_exit
  <2>2. /\ irq[current] = "none" /\ crit = 0 /\ enter_critical_section
        /\ UNCHANGED <<current, saved>>
    BY <1>4 DEF thread_exit, Calls
  <2>3. Depth(p) = 1 /\ p # "dead"
    BY Depths DEF LoopPCs, WakeLoops
  <2>4. crit' = 1 /\ Stays(p)
    BY <2>1, <2>2 DEF enter_critical_section, Stays, GoesTo, InCall
  <2>5. ~ints'
    BY <2>2, Zenon DEF enter_critical_section
  <2>6. Enters
    BY <2>2, <2>3, <2>4, <2>5 DEF Enters
  <2> QED BY <2>6 DEF SectionStep
<1>5. CASE SetPriority
  BY <1>5 DEF SetPriority, thread_set_priority, callVars, SectionStep, Quiet
<1>6. ASSUME NEW m \in Mutexes,
             \/ mutex_acquire_free(m) \/ mutex_acquire(m)
             \/ mutex_acquire_timeout(m) \/ mutex_release(m)
             \/ mutex_destroy(m) \/ (Quiescent(m) /\ mutex_init(m))
      PROVE  SectionStep
  BY <1>6, MutexSections
<1>7. ASSUME NEW e \in Events,
             \/ event_wait(e) \/ event_unsignal(e)
             \/ event_signal(e, TRUE) \/ event_signal(e, FALSE)
             \/ event_destroy(e) \/ (Quiescent(e) /\ event_init(e))
      PROVE  SectionStep
  BY <1>7, EventSections
<1> QED BY <1>1, <1>2, <1>3, <1>4, <1>5, <1>6, <1>7 DEF UserCall

\* A call that leaves its critical sections.
LEMMA CallLeaves ==
  ASSUME KernelInv, NEW p, NEW o, NEW n, Returns(pc[current]), exit_critical_sections(n),
         InCall(p, o), UNCHANGED <<current, saved>>, p # "dead",
         \/ Depth(p) = 0 /\ Depth(pc[current]) = n
         \/ Depth(p) = 1 /\ Depth(pc[current]) = 3 /\ n = 2
  PROVE  SectionStep
<1>1. Stays(p)
  BY DEF Stays, GoesTo, InCall, Returns
<1>2. Leaves \/ BootLeaves
  BY <1>1 DEF Leaves, BootLeaves, exit_critical_sections
<1> QED BY <1>2 DEF SectionStep

\* A call that goes on at the same depth.
LEMMA CallGoes ==
  ASSUME KernelInv, NEW p, NEW o, irq[current] = "none", InCall(p, o),
         UNCHANGED <<current, saved, crit, ints>>, p # "dead",
         Depth(p) = Depth(pc[current])
  PROVE  SectionStep
<1>1. Stays(p)
  BY DEF Stays, GoesTo, InCall
<1>2. Goes
  BY <1>1 DEF Goes
<1> QED BY <1>2 DEF SectionStep

\* The end of a wake loop, or of thread_exit(): interrupts are off.
LEMMA LoopSwitches ==
  ASSUME KernelInv, irq[current] = "none",
         pc[current] \in {"signal_all", "destroy_all", "exit_resched", "exit_signal"},
         thread_resched(run_queue, run_queue_bitmap, state, quantum, crit),
         NEW p \in {"wake_return", "dead"}, NEW o, InCall(p, o), UNCHANGED ints
  PROVE  SectionStep
<1>1. /\ run_queue \in RunQueues /\ run_queue_bitmap \in SUBSET Priorities
      /\ state \in StateFunctions /\ current \in Threads /\ crit \in Int
      /\ RunQueuesMatch(run_queue, run_queue_bitmap, state, priority)
  BY DEF KernelInv, TypeOK, RunQueuesExact, RunQueues, StateFunctions
<1>2. Dispatch(crit)
  BY <1>1, ReschedDispatch
<1>3. pc[current] \in LoopPCs
  BY DEF LoopPCs, WakeLoops
<1>4. ~ints
  BY <1>1, <1>3 DEF KernelInv, CallsConsistent
<1>5. Depth(pc[current]) = 1 /\ Depth("wake_return") = 1
  BY <1>3, Depths
<1>6. p = "dead" \/ (Depth(p) >= 1 /\ crit = crit - Depth(pc[current]) + Depth(p))
  BY <1>1, <1>5
<1>7. GoesTo(p)
  BY DEF GoesTo, InCall
<1>8. Switches
  BY <1>2, <1>4, <1>6, <1>7 DEF Switches
<1> QED BY <1>8 DEF SectionStep

\* The steps that the kernel takes by itself.
LEMMA KernelSections ==
  ASSUME KernelInv, KernelStep
  PROVE  SectionStep
<1>d. /\ Depth("user") = 0 /\ Depth("dpc_wait") = 0 /\ Depth("dpc_pop") = 0
      /\ Depth("thread_cleanup_dpc") = 0 /\ Depth("thread_resume") = 0
      /\ Depth("thread_resume_enter") = 0 /\ Depth("thread_resume_return") = 2
      /\ Depth("initial_thread_func") = 1 /\ Depth("switch_return") = 1
      /\ Depth("wake_return") = 1 /\ Depth("signal_all_noresched") = 1
      /\ \A p \in WaitPCs : Depth(p) = 2
      /\ {"mutex_acquire", "mutex_acquire_timeout", "event_wait", "event_wait_timeout",
          "dpc_event_wait"} \subseteq WaitPCs
      /\ "dpc_wait" \notin LoopPCs
  BY Depths DEF LoopPCs, WakeLoops, WaitPCs, MutexPCs, EventPCs
<1>1. CASE ResumeCheck
  <2>1. PICK p \in {"user", "thread_resume_enter"}, o \in {NoObject, obj[current]} :
          InCall(p, o)
    BY <1>1 DEF ResumeCheck
  <2>2. /\ irq[current] = "none" /\ pc[current] = "thread_resume"
        /\ UNCHANGED <<current, saved, crit, ints>>
    BY <1>1 DEF ResumeCheck, Calls, schedVars
  <2> QED BY <1>d, <2>1, <2>2, CallGoes
<1>2. CASE ResumeEnter
  <2>1. /\ pc[current] = "thread_resume_enter" /\ irq[current] = "none"
        /\ thread_resume(obj[current], "thread_resume_return")
    BY <1>2 DEF ResumeEnter, Calls
  <2>2. disable_ints /\ InCall("thread_resume_return", NoObject) /\ pc[current] \in ResumePCs
    BY <2>1 DEF thread_resume, ResumePCs
  <2>3. /\ Depth("thread_resume_return") = Depth(pc[current]) + 2
        /\ Depth("thread_resume_return") >= 1 /\ 2 \in Nat
    BY <1>d, <2>1
  <2>4. Dispatch(crit + 2)
    BY <2>1, <2>2, ResumeDispatch
  <2> QED BY <2>1, <2>2, <2>3, <2>4, CallSwitches
<1>3. CASE ResumeReturn
  <2>1. /\ pc[current] = "thread_resume_return" /\ Returns(pc[current])
        /\ exit_critical_sections(2) /\ InCall("user", NoObject) /\ UNCHANGED <<current, saved>>
    BY <1>3 DEF ResumeReturn, Returns
  <2> QED BY <1>d, <2>1, CallLeaves
<1>4. CASE initial_thread_func
  <2>1. PICK p \in {"dpc_wait", "user"} : InCall(p, NoObject)
    BY <1>4 DEF initial_thread_func
  <2>2. /\ pc[current] = "initial_thread_func" /\ Returns(pc[current])
        /\ exit_critical_sections(1) /\ UNCHANGED <<current, saved>>
    BY <1>4 DEF initial_thread_func, Returns
  <2> QED BY <1>d, <2>1, <2>2, CallLeaves
<1>5. CASE SwitchReturn \/ WakeReturn \/ WakeAllDone
  <2>1. /\ pc[current] \in {"switch_return", "wake_return", "signal_all_noresched"}
        /\ Returns(pc[current])
        /\ exit_critical_sections(1) /\ InCall("user", NoObject) /\ UNCHANGED <<current, saved>>
    BY <1>5 DEF SwitchReturn, WakeReturn, WakeAllDone, Returns
  <2> QED BY <1>d, <2>1, CallLeaves
<1>6. CASE ExitResched
  <2>1. /\ irq[current] = "none" /\ pc[current] \in {"exit_resched", "exit_signal"}
        /\ thread_resched(run_queue, run_queue_bitmap, state, quantum, crit)
        /\ InCall("dead", NoObject) /\ UNCHANGED ints
    BY <1>6 DEF ExitResched, Returns
  <2> QED BY <2>1, LoopSwitches
<1>7. CASE WakeAllResched
  <2>1. /\ irq[current] = "none" /\ pc[current] \in {"signal_all", "destroy_all"}
        /\ thread_resched(run_queue, run_queue_bitmap, state, quantum, crit)
        /\ InCall("wake_return", NoObject) /\ UNCHANGED ints
    BY <1>7 DEF WakeAllResched
  <2> QED BY <2>1, LoopSwitches
<1>8. CASE WakeAllStep
  BY <1>8 DEF WakeAllStep, callVars, SectionStep, Quiet
<1>9. CASE DpcWait
  <2>1. pc[current] = "dpc_wait" /\ irq[current] = "none" /\ DpcEvent \in Queues
    BY <1>9 DEF DpcWait, Calls, AllEvents, Queues
  <2>2. CASE event_wait_through(DpcEvent) /\ InCall("dpc_pop", NoObject)
    <3>1. UNCHANGED <<current, saved, crit, ints>>
      BY <2>2 DEF event_wait_through, schedVars
    <3> QED BY <1>d, <2>1, <2>2, <3>1, CallGoes
  <2>3. CASE event_wait_block(DpcEvent, INFINITE_TIME, "dpc_event_wait")
    <3>1. /\ disable_ints /\ wait_queue_block(DpcEvent, INFINITE_TIME)
          /\ InCall("dpc_event_wait", DpcEvent)
      BY <2>3 DEF event_wait_block
    <3>2. Dispatch(crit + 2)
      BY <1>d, <2>1, <3>1, StopDispatch DEF wait_queue_block
    <3>3. /\ Depth("dpc_event_wait") = Depth(pc[current]) + 2
          /\ Depth("dpc_event_wait") >= 1 /\ 2 \in Nat
      BY <1>d, <2>1
    <3> QED BY <2>1, <3>1, <3>2, <3>3, CallSwitches
  <2> QED BY <1>9, <2>2, <2>3 DEF DpcWait
<1>10. CASE DpcWaitReturn \/ event_wait_returns
  <2>1. PICK p \in {"dpc_pop", "user"} : event_wait_return(p)
    BY <1>10 DEF DpcWaitReturn, event_wait_returns
  <2>2. /\ pc[current] \in {"dpc_event_wait", "event_wait", "event_wait_timeout"}
        /\ Returns(pc[current])
    BY <1>10 DEF DpcWaitReturn, event_wait_returns, Returns
  <2>3. /\ exit_critical_sections(2) /\ InCall(p, NoObject) /\ UNCHANGED <<current, saved>>
    BY <2>1 DEF event_wait_return
  <2>4. Depth(pc[current]) = 2
    BY <1>d, <2>2
  <2> QED BY <1>d, <2>1, <2>2, <2>3, <2>4, CallLeaves
<1>11. CASE mutex_acquire_return \/ mutex_acquire_timeout_return
  <2>1. /\ pc[current] \in {"mutex_acquire", "mutex_acquire_timeout"} /\ Returns(pc[current])
        /\ exit_critical_sections(2) /\ InCall("user", NoObject) /\ UNCHANGED <<current, saved>>
    BY <1>11 DEF mutex_acquire_return, mutex_acquire_timeout_return, Returns
  <2>2. Depth(pc[current]) = 2
    BY <1>d, <2>1
  <2> QED BY <1>d, <2>1, <2>2, CallLeaves
<1>12. CASE DpcPop
  <2>1. PICK p \in {"dpc_wait", "thread_cleanup_dpc"}, o \in {NoObject, Head(dpc_list)} :
          InCall(p, o)
    BY <1>12 DEF DpcPop
  <2>2. /\ irq[current] = "none" /\ pc[current] = "dpc_pop"
        /\ UNCHANGED <<current, saved, crit, ints>>
    BY <1>12 DEF DpcPop, Calls, schedVars
  <2> QED BY <1>d, <2>1, <2>2, CallGoes
<1>13. CASE thread_cleanup_dpc
  <2>1. /\ pc[current] = "thread_cleanup_dpc" /\ irq[current] = "none"
        /\ InCall("dpc_wait", NoObject) /\ FreshThread(obj[current])
    BY <1>13 DEF thread_cleanup_dpc, Calls
  <2>2. obj[current] \in Threads /\ state[obj[current]] = "DEATH"
    BY <2>1 DEF KernelInv, CallsConsistent, TypeOK
  <2>3. saved' = [saved EXCEPT ![obj[current]] = 1] /\ UNCHANGED <<current, crit, ints>>
    BY <2>1 DEF FreshThread
  <2>4. Frees
    BY <1>d, <2>1, <2>2, <2>3 DEF Frees, GoesTo, InCall
  <2> QED BY <2>4 DEF SectionStep
<1>14. CASE kmain
  <2>d. /\ Depth("boot") = 1 /\ Depth("boot_bootstrap2") = 1 /\ Depth("boot_enable") = 1
        /\ Depth("boot_resume_dpc") = 1 /\ Depth("boot_resume_bootstrap2") = 1
        /\ Depth("boot_dpc_return") = 3 /\ Depth("boot_bootstrap2_return") = 3
        /\ Depth("become_idle") = 0
        /\ DpcThread \in Threads /\ Bootstrap2 \in Threads
    BY Depths, ThreadsAssumption DEF Threads
  <2>1. ASSUME NEW from, NEW t \in Threads, NEW x, NEW then, then # "dead",
               BootCreate(from, t, x, then), Depth(then) = Depth(from)
        PROVE  SectionStep
    <3>1. /\ pc[current] = from /\ irq[current] = "none" /\ state[t] = "NONE" /\ irq' = irq
          /\ pc' = [pc EXCEPT ![t] = "initial_thread_func", ![current] = then]
          /\ saved' = [saved EXCEPT ![t] = 1] /\ UNCHANGED <<current, crit, ints>>
      BY <2>1 DEF BootCreate, Returns, thread_create, FreshThread
    <3>2. Creates
      BY <2>1, <3>1 DEF Creates
    <3> QED BY <3>2 DEF SectionStep
  <2>2. ASSUME NEW from \in ResumePCs, NEW then, BootResume(from, then),
               Depth(from) = 1, Depth(then) = 3
        PROVE  SectionStep
    <3>1. /\ pc[current] = from /\ irq[current] = "none" /\ thread_resume(obj[current], then)
      BY <2>2 DEF BootResume, Returns
    <3>2. disable_ints /\ InCall(then, NoObject)
      BY <3>1 DEF thread_resume
    <3>3. Depth(then) = Depth(pc[current]) + 2 /\ Depth(then) >= 1 /\ 2 \in Nat
      BY <2>2, <3>1
    <3>4. Dispatch(crit + 2)
      BY <3>1, ResumeDispatch
    <3> QED BY <3>1, <3>2, <3>3, <3>4, CallSwitches
  <2>3. ASSUME NEW from, NEW n, NEW then, then # "dead", BootReturn(from, n, then),
               \/ Depth(then) = 0 /\ Depth(from) = n
               \/ Depth(then) = 1 /\ Depth(from) = 3 /\ n = 2
        PROVE  SectionStep
    <3>1. /\ pc[current] = from /\ Returns(pc[current])
          /\ exit_critical_sections(n) /\ InCall(then, NoObject) /\ UNCHANGED <<current, saved>>
      BY <2>3 DEF BootReturn, Returns
    <3> QED BY <2>3, <3>1, CallLeaves
  <2>4. {"boot_resume_dpc", "boot_resume_bootstrap2"} \subseteq ResumePCs
    BY DEF ResumePCs
  <2> QED BY <1>14, <2>d, <2>1, <2>2, <2>3, <2>4 DEF kmain
<1>15. CASE thread_become_idle
  <2>1. PICK p \in {"set_idle_thread", "idle"} : InCall(p, NoObject)
    BY <1>15 DEF thread_become_idle
  <2>2. /\ pc[current] \in {"become_idle", "set_idle_thread"} /\ irq[current] = "none"
        /\ UNCHANGED <<current, saved, crit, ints>>
    BY <1>15 DEF thread_become_idle, Returns, thread_set_priority
  <2>3. Depth(pc[current]) = 0 /\ Depth(p) = 0
    BY <2>1, <2>2, Depths
  <2> QED BY <2>1, <2>2, <2>3, CallGoes
<1> QED BY <1>1, <1>2, <1>3, <1>4, <1>5, <1>6, <1>7, <1>8, <1>9, <1>10, <1>11, <1>12,
           <1>13, <1>14, <1>15 DEF KernelStep

\* The timer interrupt.
LEMMA IrqSections ==
  ASSUME KernelInv, arm_irq \/ IrqStep
  PROVE  SectionStep
<1>1. CASE arm_irq
  BY <1>1 DEF arm_irq, SectionStep, Interrupted
<1>2. CASE timer_tick
  <2> DEFINE t == Head(timer_queue)
  <2>1. /\ timer_queue # <<>> /\ UNCHANGED <<current, saved, ints, callVars>>
    BY <1>2 DEF timer_tick, TimerDue
  <2>2. timer_queue \in Seq(Threads) /\ TimersOwned /\ Distinct(timer_queue)
    BY DEF KernelInv, TypeOK, TimersOwned
  <2>3. t \in Threads /\ OccursIn(t, timer_queue)
    BY <2>1, <2>2, TailFacts
  <2>4. CASE callback[t] = "thread_sleep_handler"
    BY <1>2, <2>1, <2>4 DEF timer_tick, callVars, SectionStep, Quiet
  <2>5. CASE callback[t] # "thread_sleep_handler"
    <3>1. pc[t] \in TimedPCs
      BY <2>2, <2>3, <2>5 DEF TimersOwned
    <3> QED BY <2>1, <2>3, <3>1 DEF SectionStep, Leaks
  <2> QED BY <2>4, <2>5
<1>3. CASE IrqPreempt
  <2> DEFINE q == thread_timer_tick
  <2>1. /\ irq[current] = "timer_tick"
        /\ thread_preempt(run_queue, run_queue_bitmap, q, crit)
        /\ irq' = [irq EXCEPT ![current] = "preempted"] /\ UNCHANGED <<pc, ints>>
    BY <1>3 DEF IrqPreempt
  <2>2. current \in Threads /\ pc[current] \notin LoopPCs
    BY <2>1 DEF KernelInv, TypeOK, CallsConsistent
  <2>3. /\ SchedTypes /\ state[current] = "RUNNING"
        /\ RunQueuesMatch(run_queue, run_queue_bitmap, state, priority)
    BY <2>2, CurrentFacts
  <2> HIDE DEF q
  <2>4. LET bm1 == run_queue_bitmap \cup {priority[current]}
            st1 == [state EXCEPT ![current] = "READY"]
        IN  \/ thread_resched(insert_in_run_queue_head(run_queue, current), bm1, st1, q, crit + 1)
            \/ thread_resched(insert_in_run_queue_tail(run_queue, current), bm1, st1, q, crit + 1)
    BY <2>1 DEF thread_preempt
  <2>5. Dispatch(crit + 1)
    BY <2>2, <2>3, <2>4, YieldDispatch DEF SchedTypes
  <2> QED BY <2>1, <2>5 DEF SectionStep, Preempted
<1>4. CASE IrqReturn
  BY <1>4 DEF IrqReturn, SectionStep, Continues
<1> QED BY <1>1, <1>2, <1>3, <1>4 DEF IrqStep

\* Every step is one of those of SectionStep.
LEMMA SectionSteps == KernelInv /\ [Next]_vars => SectionStep
<1> SUFFICES ASSUME KernelInv, [Next]_vars PROVE SectionStep
  OBVIOUS
<1>1. CASE UNCHANGED vars
  BY <1>1 DEF vars, schedVars, callVars, SectionStep, Quiet
<1> QED BY <1>1, UserSections, KernelSections, IrqSections DEF Next

\* thread_resched() switches to a thread of the highest priority that is READY,
\* whoever calls it: the calls that block or yield, the wakers, thread_exit()
\* and the timer interrupt.
THEOREM HighestIsDispatched == Spec => DispatchesHighest
<1>1. KernelInv /\ [Next]_vars =>
        [current' # current =>
           \A t \in Threads : state'[t] = "READY" => priority[t] <= priority[current']]_vars
  <2> SUFFICES ASSUME KernelInv, [Next]_vars, current' # current
               PROVE  \A t \in Threads : state'[t] = "READY" => priority[t] <= priority[current']
    OBVIOUS
  <2>1. SectionStep
    BY SectionSteps
  <2>2. PICK c : Dispatch(c)
    BY <2>1 DEF SectionStep, Quiet, Goes, Leaves, BootLeaves, Enters, Stays, Switches, Creates,
                Frees, Interrupted, Preempted, Continues, Leaks
  <2> QED BY <2>2 DEF Dispatch
<1> QED BY <1>1, KernelInvariant, PTL DEF Spec, DispatchesHighest

\* Once a waiter is woken, no timeout that comes late and no other call changes
\* what its wait will return.
THEOREM WakeReasonIsSettled == Spec => WakeReasonSettled
<1>1. SyncInv /\ [Next]_vars =>
        [\A t \in Threads :
           pc[t] \in {"mutex_acquire", "mutex_acquire_timeout", "event_wait",
                      "event_wait_timeout", "dpc_event_wait"} /\ state[t] # "BLOCKED"
           => block_ret'[t] = block_ret[t]]_vars
  <2> SUFFICES ASSUME SyncInv, [Next]_vars, NEW t \in Threads,
                      pc[t] \in WaitPCs, state[t] # "BLOCKED"
               PROVE  block_ret'[t] = block_ret[t]
    BY DEF WaitPCs, MutexPCs, EventPCs
  <2>1. KernelInv /\ StatePlaces /\ Effect
    BY StepEffects DEF SyncInv
  <2>2. block_ret \in [Threads -> BlockReturns] /\ current \in Threads
    BY <2>1, EffectTypes
  <2>3. /\ state[t] \notin {"NONE", "DEATH"}
        /\ {"user", "dpc_wait"} \cap WaitPCs = {}
    BY <2>1 DEF StatePlaces, Place, WaitPCs, MutexPCs, EventPCs
  <2>4. CASE KeepWaits
    BY <2>4 DEF KeepWaits
  <2>5. ASSUME NEW u, u # t, NEW r, block_ret' = [block_ret EXCEPT ![u] = r]
        PROVE  block_ret'[t] = block_ret[t]
    BY <2>2, <2>5
  <2>6. CASE MutexBlock \/ EventBlock
    BY <2>3, <2>5, <2>6 DEF MutexBlock, EventBlock, BlockOn
  <2>7. CASE MutexHandOver \/ EventHandOver \/ WakeTurn \/ TimerFires
    <3>1. ASSUME NEW o, NEW u, NEW list, NEW r, Woken(o, u, list, r)
          PROVE  block_ret'[t] = block_ret[t]
      BY <2>5, <3>1 DEF Woken
    <3> QED BY <2>4, <2>7, <3>1 DEF MutexHandOver, EventHandOver, WakeTurn, TimerFires
  <2>8. CASE Create \/ Cleanup
    BY <2>3, <2>5, <2>8 DEF Create, Cleanup
  <2>9. CASE EventInit \/ MutexInit
    BY <2>9 DEF EventInit, MutexInit
  <2> QED BY <2>1, <2>4, <2>6, <2>7, <2>8, <2>9
          DEF Effect, Interrupt, Move, LoopEnd, Resume, Sleep, MutexDestroy, EventDestroy,
              EventSignalAll, LoopBegin, EventSet, MutexTake, MutexGive, MutexReturn,
              EventReturn, Exit, DpcThrough, DpcNone, DpcTake
<1> QED BY <1>1, SyncInvariant, PTL DEF Spec, WakeReasonSettled

-----------------------------------------------------------------------------
(* The critical section count.                                             *)

\* The depth of a thread with the interrupt frame i on its stack, in the call p.
SectionDepth(i, p) ==
  CASE i = "timer_tick" -> 1
    [] i = "preempted" -> 2
    [] OTHER -> Depth(p)

\* critical_section_count is the depth of the current thread, and every other
\* thread has its own depth saved: it stopped inside of a critical section.
Balanced ==
  /\ crit = SectionDepth(irq[current], pc[current]) /\ CriticalSectionsBalanced
  /\ \A t \in Threads : t # current /\ pc[t] # "dead" =>
       saved[t] = SectionDepth(irq[t], pc[t]) /\ saved[t] >= 1
  /\ \A t \in Threads : irq[t] # "none" => pc[t] # "dead" /\ Depth(pc[t]) = 0

\* A thread that is done does not run.
LEMMA CurrentAlive ==
  /\ KernelInv /\ StatePlaces => pc[current] # "dead"
  /\ KernelInv' /\ StatePlaces' => pc'[current'] # "dead"
<1>1. "dead" \notin LoopPCs
  BY DEF LoopPCs, WakeLoops
<1> QED BY <1>1 DEF KernelInv, TypeOK, OneRunning, StatePlaces, Place, Runs, LoopPCs, WakeLoops

\* A thread_resched() that the current thread entered with its new depth.
LEMMA DispatchBalanced ==
  ASSUME KernelInv, KernelInv', StatePlaces', Balanced, NEW c, Dispatch(c), ~ints',
         \A t \in Threads : t # current => pc'[t] = pc[t] /\ irq'[t] = irq[t],
         \/ pc'[current] = "dead"
         \/ c = SectionDepth(irq'[current], pc'[current]) /\ c >= 1,
         irq'[current] # "none" => pc'[current] # "dead" /\ Depth(pc'[current]) = 0
  PROVE  Balanced'
<1>1. /\ current \in Threads /\ current' \in Threads /\ pc'[current'] # "dead"
      /\ saved \in [Threads -> Int]
  BY CurrentAlive DEF KernelInv, TypeOK
<1>2. crit' = SectionDepth(irq'[current'], pc'[current']) /\ crit' >= 1
  BY <1>1 DEF Dispatch, Balanced
<1>3. ASSUME NEW t \in Threads, t # current', pc'[t] # "dead"
      PROVE  saved'[t] = SectionDepth(irq'[t], pc'[t]) /\ saved'[t] >= 1
  BY <1>1, <1>3 DEF Dispatch, Balanced
<1>4. \A t \in Threads : irq'[t] # "none" => pc'[t] # "dead" /\ Depth(pc'[t]) = 0
  BY <1>1 DEF Balanced
<1>5. CriticalSectionsBalanced'
  BY <1>2 DEF CriticalSectionsBalanced
<1> QED BY <1>2, <1>3, <1>4, <1>5 DEF Balanced

\* A step in which the current thread stays, at a depth that matches.
LEMMA StayBalanced ==
  ASSUME KernelInv, Balanced, current' = current, saved' = saved,
         \A t \in Threads : t # current => pc'[t] = pc[t] /\ irq'[t] = irq[t],
         crit' = SectionDepth(irq'[current], pc'[current]), CriticalSectionsBalanced',
         irq'[current] # "none" => pc'[current] # "dead" /\ Depth(pc'[current]) = 0
  PROVE  Balanced'
<1>1. current \in Threads
  BY DEF KernelInv, TypeOK
<1>2. \A t \in Threads : t # current' /\ pc'[t] # "dead" =>
        saved'[t] = SectionDepth(irq'[t], pc'[t]) /\ saved'[t] >= 1
  BY DEF Balanced
<1>3. \A t \in Threads : irq'[t] # "none" => pc'[t] # "dead" /\ Depth(pc'[t]) = 0
  BY <1>1 DEF Balanced
<1> QED BY <1>2, <1>3 DEF Balanced

\* An interrupt adds one section, its thread_preempt() another one.
LEMMA SectionDepths ==
  /\ \A p : SectionDepth("none", p) = Depth(p) /\ Depth(p) \in Nat
  /\ \A p : SectionDepth("timer_tick", p) = 1 /\ SectionDepth("preempted", p) = 2
BY Depths DEF SectionDepth

\* Balanced survives every step but one that leaks.
LEMMA BalancedStep ==
  ASSUME KernelInv, KernelInv', StatePlaces, StatePlaces', Balanced, SectionStep, ~Leaks
  PROVE  Balanced'
<1>t. /\ current \in Threads /\ DOMAIN pc = Threads /\ DOMAIN irq = Threads
      /\ saved \in [Threads -> Int] /\ crit \in Int /\ ints \in BOOLEAN
      /\ irq[current] \in {"none", "timer_tick", "preempted"} /\ pc[current] # "dead"
  BY CurrentAlive DEF KernelInv, TypeOK
<1>b. /\ crit = SectionDepth(irq[current], pc[current]) /\ (ints <=> crit = 0)
      /\ irq[current] # "none" => Depth(pc[current]) = 0
      /\ irq[current] = "none" => crit = Depth(pc[current])
  BY <1>t, SectionDepths DEF Balanced, CriticalSectionsBalanced
<1>1. CASE Quiet
  BY <1>1 DEF Quiet, Balanced, CriticalSectionsBalanced
<1>2. ASSUME NEW p, Stays(p), p # "dead", crit' = Depth(p), ints' <=> crit' = 0
      PROVE  Balanced'
  <2>1. /\ irq' = irq /\ irq[current] = "none" /\ pc'[current] = p /\ current' = current
        /\ saved' = saved /\ \A t \in Threads : t # current => pc'[t] = pc[t]
    BY <1>2, <1>t DEF Stays, GoesTo
  <2>2. crit' = SectionDepth(irq'[current], pc'[current]) /\ CriticalSectionsBalanced'
    BY <1>2, <2>1, SectionDepths DEF CriticalSectionsBalanced
  <2> QED BY <2>1, <2>2, StayBalanced
<1>3. CASE Goes
  <2>1. PICK p : /\ Stays(p) /\ Depth(p) = Depth(pc[current]) /\ p # "dead"
                 /\ crit' = crit /\ ints' = ints
    BY <1>3 DEF Goes
  <2>2. irq[current] = "none" /\ (ints' <=> crit' = 0)
    BY <1>b, <2>1 DEF Stays, GoesTo
  <2> QED BY <1>2, <1>b, <2>1, <2>2
<1>4. ASSUME NEW p, NEW n \in Nat, Stays(p), p # "dead", Depth(p) = Depth(pc[current]) - n,
             n > 0, crit' = crit - n, ints' = (ints \/ crit - n = 0)
      PROVE  Balanced'
  <2>1. irq[current] = "none"
    BY <1>4 DEF Stays, GoesTo
  <2>2. crit - n = Depth(p) /\ Depth(p) \in Nat /\ ~ints
    BY <1>4, <1>b, <2>1, Depths
  <2>3. ints' <=> crit' = 0
    BY <1>4, <2>2, Zenon
  <2> QED BY <1>2, <1>4, <2>2, <2>3
<1>5. CASE Leaves
  <2>1. PICK p : /\ Stays(p) /\ Depth(p) = 0 /\ p # "dead"
                 /\ crit' = crit - Depth(pc[current])
                 /\ ints' = (ints \/ crit - Depth(pc[current]) = 0)
    BY <1>5 DEF Leaves
  <2>2. Depth(pc[current]) \in Nat
    BY Depths
  <2>3. CASE Depth(pc[current]) > 0
    BY <1>4, <2>1, <2>2, <2>3
  <2>4. CASE Depth(pc[current]) = 0
    <3>1. irq[current] = "none"
      BY <2>1 DEF Stays, GoesTo
    <3>2. crit = 0 /\ crit' = 0 /\ crit - Depth(pc[current]) = 0
      BY <1>b, <2>1, <2>4, <3>1
    <3>3. ints'
      BY <2>1, <3>2, Zenon
    <3> QED BY <1>2, <2>1, <3>2, <3>3
  <2> QED BY <2>2, <2>3, <2>4
<1>6. CASE BootLeaves
  <2>1. PICK p : /\ Stays(p) /\ Depth(p) = 1 /\ p # "dead" /\ Depth(pc[current]) = 3
                 /\ crit' = crit - 2 /\ ints' = (ints \/ crit - 2 = 0)
    BY <1>6 DEF BootLeaves
  <2>2. Depth(p) = Depth(pc[current]) - 2 /\ 2 \in Nat /\ 2 > 0
    BY <2>1
  <2> QED BY <1>4, <2>1, <2>2, Zenon
<1>7. CASE Enters
  BY <1>2, <1>7 DEF Enters
<1>8. CASE Switches
  <2>1. PICK p, c : /\ GoesTo(p) /\ Dispatch(c) /\ (ints' => ints /\ crit # 0)
                    /\ \/ p = "dead"
                       \/ Depth(p) >= 1 /\ c = crit - Depth(pc[current]) + Depth(p)
    BY <1>8 DEF Switches
  <2>2. ~ints'
    BY <1>b, <2>1
  <2>3. /\ irq' = irq /\ irq[current] = "none" /\ pc'[current] = p
        /\ \A t \in Threads : t # current => pc'[t] = pc[t]
    BY <2>1, <1>t DEF GoesTo
  <2>4. p = "dead" \/ (c = SectionDepth(irq'[current], pc'[current]) /\ c >= 1)
    <3>1. /\ crit = Depth(pc[current]) /\ Depth(p) \in Nat
          /\ SectionDepth(irq'[current], pc'[current]) = Depth(p)
      BY <1>b, <2>3, SectionDepths
    <3> QED BY <1>t, <2>1, <3>1
  <2> QED BY <2>1, <2>2, <2>3, <2>4, DispatchBalanced
<1>9. CASE Creates
  <2>1. PICK t, p :
          /\ t \in Threads /\ irq[current] = "none" /\ state[t] = "NONE" /\ p # "dead"
          /\ pc' = [pc EXCEPT ![t] = "initial_thread_func", ![current] = p]
          /\ Depth(p) = Depth(pc[current])
          /\ saved' = [saved EXCEPT ![t] = 1]
          /\ UNCHANGED <<current, irq, crit, ints>>
    BY <1>9 DEF Creates
  <2>2. pc[t] = "dead" /\ t # current
    BY <2>1, <1>t DEF StatePlaces, Place
  <2>3. /\ pc'[t] = "initial_thread_func" /\ pc'[current] = p /\ saved'[t] = 1
        /\ \A u \in Threads : u # t => saved'[u] = saved[u]
        /\ \A u \in Threads : u # t /\ u # current => pc'[u] = pc[u]
    BY <1>t, <2>1, <2>2
  <2>4. irq[t] = "none"
    BY <2>1, <2>2 DEF Balanced
  <2>5. SectionDepth(irq[t], pc'[t]) = 1
    BY <2>3, <2>4, SectionDepths, Depths
  <2>6. crit' = SectionDepth(irq'[current'], pc'[current'])
    BY <1>b, <2>1, <2>3, SectionDepths
  <2>7. \A u \in Threads : u # current' /\ pc'[u] # "dead" =>
          saved'[u] = SectionDepth(irq'[u], pc'[u]) /\ saved'[u] >= 1
    <3> SUFFICES ASSUME NEW u \in Threads, u # current, pc'[u] # "dead"
                 PROVE  saved'[u] = SectionDepth(irq[u], pc'[u]) /\ saved'[u] >= 1
      BY <2>1
    <3>1. CASE u = t
      BY <2>3, <2>5, <3>1
    <3>2. CASE u # t
      BY <2>3, <3>2 DEF Balanced
    <3> QED BY <3>1, <3>2
  <2>8. \A u \in Threads : irq'[u] # "none" => pc'[u] # "dead" /\ Depth(pc'[u]) = 0
    BY <2>1, <2>3, <2>4 DEF Balanced
  <2>9. CriticalSectionsBalanced'
    BY <1>b, <2>1 DEF CriticalSectionsBalanced
  <2> QED BY <2>6, <2>7, <2>8, <2>9 DEF Balanced
<1>10. CASE Frees
  <2>1. PICK p :
          /\ GoesTo(p) /\ Depth(p) = Depth(pc[current]) /\ p # "dead"
          /\ obj[current] \in Threads /\ state[obj[current]] = "DEATH"
          /\ saved' = [saved EXCEPT ![obj[current]] = 1]
          /\ UNCHANGED <<current, crit, ints>>
    BY <1>10 DEF Frees
  <2> DEFINE t == obj[current]
  <2>2. pc[t] = "dead" \/ t = current
    BY <2>1 DEF StatePlaces, Place, KernelInv, CallsConsistent, LoopPCs, WakeLoops
  <2>3. /\ irq' = irq /\ irq[current] = "none" /\ pc'[current] = p
        /\ \A u \in Threads : u # current => pc'[u] = pc[u]
        /\ \A u \in Threads : u # t => saved'[u] = saved[u]
    BY <2>1, <1>t DEF GoesTo
  <2>4. crit' = SectionDepth(irq'[current'], pc'[current'])
    BY <1>b, <2>1, <2>3, SectionDepths
  <2>5. \A u \in Threads : u # current' /\ pc'[u] # "dead" =>
          saved'[u] = SectionDepth(irq'[u], pc'[u]) /\ saved'[u] >= 1
    BY <2>1, <2>2, <2>3 DEF Balanced
  <2>6. \A u \in Threads : irq'[u] # "none" => pc'[u] # "dead" /\ Depth(pc'[u]) = 0
    BY <2>1, <2>3 DEF Balanced
  <2>7. CriticalSectionsBalanced'
    BY <1>b, <2>1 DEF CriticalSectionsBalanced
  <2> QED BY <2>4, <2>5, <2>6, <2>7 DEF Balanced
<1>11. CASE Interrupted
  <2>1. /\ irq'[current] = "timer_tick" /\ pc' = pc /\ current' = current /\ saved' = saved
        /\ \A t \in Threads : t # current => irq'[t] = irq[t]
        /\ irq[current] = "none" /\ ints
    BY <1>11, <1>t DEF Interrupted
  <2>2. crit = 0 /\ crit' = 1 /\ ~ints'
    BY <1>11, <1>b DEF Interrupted
  <2>3. CriticalSectionsBalanced'
    BY <2>2 DEF CriticalSectionsBalanced
  <2>4. Depth(pc[current]) = 0
    BY <1>b, <2>1, <2>2
  <2> QED BY <1>t, <2>1, <2>2, <2>3, <2>4, StayBalanced, SectionDepths
<1>12. CASE Preempted
  <2>1. /\ irq'[current] = "preempted" /\ pc' = pc /\ ints' = ints /\ Dispatch(crit + 1)
        /\ \A t \in Threads : t # current => irq'[t] = irq[t]
        /\ irq[current] = "timer_tick"
    BY <1>12, <1>t DEF Preempted
  <2>2. crit = 1 /\ crit + 1 = 2 /\ ~ints'
    BY <1>b, <2>1, SectionDepths
  <2>3. crit + 1 = SectionDepth(irq'[current], pc'[current]) /\ crit + 1 >= 1
    BY <2>1, <2>2, SectionDepths
  <2>4. Depth(pc[current]) = 0
    BY <1>b, <2>1
  <2> QED BY <1>t, <2>1, <2>2, <2>3, <2>4, DispatchBalanced
<1>13. CASE Continues
  <2>1. /\ irq'[current] = "none" /\ pc' = pc /\ current' = current /\ saved' = saved
        /\ \A t \in Threads : t # current => irq'[t] = irq[t]
        /\ irq[current] = "preempted"
    BY <1>13, <1>t DEF Continues
  <2>2. crit' = 0 /\ ints'
    BY <1>13, <1>b, <2>1, SectionDepths DEF Continues
  <2>3. CriticalSectionsBalanced'
    BY <2>2 DEF CriticalSectionsBalanced
  <2>4. Depth(pc[current]) = 0
    BY <1>b, <2>1
  <2> QED BY <2>1, <2>2, <2>3, <2>4, StayBalanced, SectionDepths
<1> QED BY <1>1, <1>3, <1>5, <1>6, <1>7, <1>8, <1>9, <1>10, <1>11, <1>12, <1>13
        DEF SectionStep

\* As long as no call has a timeout, interrupts are enabled exactly outside of
\* critical sections: every path through the scheduler, the wakers, thread_exit()
\* and the timer interrupt enters as many critical sections as it leaves.
THEOREM SectionsAreBalanced ==
  ASSUME MutexTimeouts = {}, EventTimeouts = {} PROVE Spec => []CriticalSectionsBalanced
<1>1. Init => SyncInv /\ Balanced
  <2> SUFFICES ASSUME Init PROVE Balanced
    BY InitSync
  <2>1. /\ current = Bootstrap /\ Bootstrap \in Threads /\ crit = 1 /\ ints = FALSE
        /\ \A t \in Threads : pc[t] = IF t = Bootstrap THEN "boot" ELSE "dead"
        /\ \A t \in Threads : irq[t] = "none"
    BY DEF Init, Threads
  <2>2. SectionDepth("none", "boot") = 1
    BY Depths, SectionDepths
  <2> QED BY <2>1, <2>2 DEF Balanced, CriticalSectionsBalanced
<1>2. (SyncInv /\ Balanced) /\ [Next]_vars => (SyncInv /\ Balanced)'
  <2> SUFFICES ASSUME SyncInv, Balanced, [Next]_vars PROVE SyncInv' /\ Balanced'
    OBVIOUS
  <2>1. SyncInv'
    BY SyncStep
  <2>2. KernelInv /\ StatePlaces /\ KernelInv' /\ StatePlaces'
    BY <2>1 DEF SyncInv
  <2>3. ~Leaks
    BY DEF SyncInv, TimedCalls, Leaks, TimedPCs
  <2> QED BY <2>1, <2>2, <2>3, SectionSteps, BalancedStep
<1>3. Balanced => CriticalSectionsBalanced
  BY DEF Balanced
<1> QED BY <1>1, <1>2, <1>3, PTL DEF Spec

=============================================================================
