------------------------------- MODULE Mutex -------------------------------
(***************************************************************************)
(* Mutexes: src/kernel/mutex.c.  owned[t] is the view of the application:  *)
(* the mutexes of which t has been told by NO_ERROR that it acquired them, *)
(* and which it has not released.  The application is one that does not    *)
(* run into the panic()s of mutex.c and uses no destroyed object.          *)
(*                                                                         *)
(* Names that end in _Faulty are variants with a bug; no action uses them. *)
(***************************************************************************)
EXTENDS WaitQueue

CONSTANTS
  MutexTimeouts,  \* timeouts of mutex_acquire_timeout(), in ticks, not 0
  Destroyable     \* the objects the application destroys

ASSUME MutexAssumption ==
  MutexTimeouts \subseteq 1 .. MaxDelay /\ Destroyable \subseteq Mutexes \cup Events

VARIABLES
  count, holder,  \* m->count, m->holder
  owned,
  destroyed       \* the objects destroyed and not initialized again

mutexVars == <<count, holder, owned>>

\* No thread is in a call about o.
Quiescent(o) == \A t \in Threads : obj[t] # o

-----------------------------------------------------------------------------
mutex_init(m) ==
  /\ Calls("user") /\ m \in destroyed
  /\ count' = [count EXCEPT ![m] = 0]
  /\ holder' = [holder EXCEPT ![m] = NoThread]
  /\ wait' = [wait EXCEPT ![m] = <<>>] /\ wcount' = [wcount EXCEPT ![m] = 0]
  /\ destroyed' = destroyed \ {m}
  /\ owned' = [t \in Threads |-> owned[t] \ {m}]
  /\ UNCHANGED <<schedVars, callVars, blocking, block_ret, timerVars>>

mutex_destroy(m) ==
  /\ Calls("user") /\ m \in Destroyable \ destroyed
  /\ count' = [count EXCEPT ![m] = 0]
  /\ destroyed' = destroyed \cup {m}
  /\ wait_queue_wake_all_begin(m, "destroy_all")
  /\ UNCHANGED <<waitVars, timerVars, holder, owned>>

\* Both acquire functions, when nobody has the mutex.
mutex_acquire_free(m) ==
  /\ Calls("user") /\ m \notin destroyed /\ holder[m] # current
  /\ count[m] + 1 <= 1
  /\ count' = [count EXCEPT ![m] = @ + 1]
  /\ holder' = [holder EXCEPT ![m] = current]
  /\ owned' = [owned EXCEPT ![current] = @ \cup {m}]
  /\ UNCHANGED <<schedVars, callVars, waitVars, timerVars, destroyed>>

\* They block when somebody has it.  (A timeout of 0 takes the increment
\* back at once, so that call leaves everything as it was.)
mutex_acquire_block(m, timeout, p) ==
  /\ Calls("user") /\ m \notin destroyed /\ holder[m] # current
  /\ count[m] + 1 > 1
  /\ count' = [count EXCEPT ![m] = @ + 1]
  /\ disable_ints
  /\ wait_queue_block(m, timeout)
  /\ InCall(p, m)
  /\ UNCHANGED <<idle_thread, priority, holder, owned, destroyed>>

mutex_acquire(m) ==
  mutex_acquire_block(m, INFINITE_TIME, "mutex_acquire")

mutex_acquire_timeout(m) ==
  \E timeout \in MutexTimeouts :
    mutex_acquire_block(m, timeout, "mutex_acquire_timeout")

\* mutex_acquire() after its wait: ownership only if the wait returned NO_ERROR.
mutex_acquire_return ==
  LET m == obj[current] IN
  /\ Returns("mutex_acquire")
  /\ exit_critical_sections(2)
  /\ IF block_ret[current] = NO_ERROR
       THEN /\ holder' = [holder EXCEPT ![m] = current]
            /\ owned' = [owned EXCEPT ![current] = @ \cup {m}]
       ELSE UNCHANGED <<holder, owned>>
  /\ InCall("user", NoObject)
  /\ UNCHANGED <<current, idle_thread, state, priority, quantum, saved, run_queue,
                 run_queue_bitmap, waitVars, timerVars, count, destroyed>>

\* As below, but a timeout does not back out the increment.
mutex_acquire_timeout_return_CountKept_Faulty ==
  LET m == obj[current] IN
  /\ Returns("mutex_acquire_timeout")
  /\ exit_critical_sections(2)
  /\ timer_cancel(current)
  /\ IF block_ret[current] = NO_ERROR
       THEN /\ holder' = [holder EXCEPT ![m] = current]
            /\ owned' = [owned EXCEPT ![current] = @ \cup {m}]
       ELSE UNCHANGED <<holder, owned>>
  /\ InCall("user", NoObject)
  /\ UNCHANGED <<current, idle_thread, state, priority, quantum, saved, run_queue,
                 run_queue_bitmap, waitVars, count, destroyed>>

\* As below, but a timeout falls through to the assignment of the holder.
mutex_acquire_timeout_return_FallThrough_Faulty ==
  LET m == obj[current] IN
  /\ Returns("mutex_acquire_timeout")
  /\ exit_critical_sections(2)
  /\ timer_cancel(current)
  /\ count' = [count EXCEPT ![m] = IF block_ret[current] = ERR_TIMED_OUT
                                     THEN @ - 1 ELSE @]
  /\ holder' = [holder EXCEPT ![m] = current]
  /\ owned' = IF block_ret[current] = NO_ERROR
                THEN [owned EXCEPT ![current] = @ \cup {m}] ELSE owned
  /\ InCall("user", NoObject)
  /\ UNCHANGED <<current, idle_thread, state, priority, quantum, saved, run_queue,
                 run_queue_bitmap, waitVars, destroyed>>

\* mutex_acquire_timeout() after its wait: the timer is cancelled, a timeout
\* backs out the increment, and every other result writes the holder.
mutex_acquire_timeout_return ==
  LET m == obj[current] IN
  /\ Returns("mutex_acquire_timeout")
  /\ exit_critical_sections(2)
  /\ timer_cancel(current)
  /\ IF block_ret[current] = ERR_TIMED_OUT
       THEN /\ count' = [count EXCEPT ![m] = @ - 1]
            /\ UNCHANGED <<holder, owned>>
       ELSE /\ holder' = [holder EXCEPT ![m] = current]
            /\ owned' = IF block_ret[current] = NO_ERROR
                          THEN [owned EXCEPT ![current] = @ \cup {m}]
                          ELSE owned
            /\ UNCHANGED count
  /\ InCall("user", NoObject)
  /\ UNCHANGED <<current, idle_thread, state, priority, quantum, saved, run_queue,
                 run_queue_bitmap, waitVars, destroyed>>

\* As below, but off by one: a single waiter is not woken.
mutex_release_Faulty(m) ==
  /\ Calls("user") /\ m \notin destroyed
  /\ m \in owned[current] /\ holder[m] = current
  /\ holder' = [holder EXCEPT ![m] = NoThread]
  /\ count' = [count EXCEPT ![m] = @ - 1]
  /\ owned' = [owned EXCEPT ![current] = @ \ {m}]
  /\ IF count[m] - 1 > 1 /\ wait[m] # <<>>
       THEN /\ disable_ints
            /\ wait_queue_wake_one_resched(m, NO_ERROR)
            /\ InCall("wake_return", NoObject)
            /\ UNCHANGED <<idle_thread, priority>>
       ELSE UNCHANGED <<schedVars, callVars, waitVars>>
  /\ UNCHANGED <<timerVars, destroyed>>

\* mutex_release(): the count, not the holder, tells whether to wake a waiter.
mutex_release(m) ==
  /\ Calls("user") /\ m \notin destroyed
  /\ m \in owned[current] /\ holder[m] = current
  /\ holder' = [holder EXCEPT ![m] = NoThread]
  /\ count' = [count EXCEPT ![m] = @ - 1]
  /\ owned' = [owned EXCEPT ![current] = @ \ {m}]
  /\ IF count[m] - 1 >= 1 /\ wait[m] # <<>>
       THEN /\ disable_ints
            /\ wait_queue_wake_one_resched(m, NO_ERROR)
            /\ InCall("wake_return", NoObject)
            /\ UNCHANGED <<idle_thread, priority>>
       ELSE UNCHANGED <<schedVars, callVars, waitVars>>
  /\ UNCHANGED <<timerVars, destroyed>>

=============================================================================
