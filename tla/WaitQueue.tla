----------------------------- MODULE WaitQueue -----------------------------
(***************************************************************************)
(* Wait queues (src/kernel/thread.c, from wait_queue_init on) and the      *)
(* one-shot timers that a thread keeps on its own stack while it is in     *)
(* wait_queue_block() or thread_sleep() (src/kernel/timer.c).              *)
(*                                                                         *)
(* A thread has at most one such timer, so the timer queue is a sequence   *)
(* of threads.  Times are in ticks of the 10 ms platform timer, relative   *)
(* to now: every tick takes one off each queued timer, and a timer is due  *)
(* when nothing is left.                                                   *)
(*                                                                         *)
(* Names that end in _Faulty are variants with a bug; no action uses them. *)
(***************************************************************************)
EXTENDS Sched

CONSTANTS
  Mutexes,      \* mutex_t objects
  Events,       \* event_t objects of the application
  DpcEvent,     \* dpc_event of dpc.c
  NoObject,     \* the null pointer
  MaxDelay      \* bound: longest timer, in ticks

ASSUME ObjectsAssumption ==
  /\ Mutexes \cap Events = {} /\ DpcEvent \notin Mutexes \cup Events
  /\ NoObject \notin Mutexes \cup Events \cup {DpcEvent} \cup Threads
  /\ (Mutexes \cup Events \cup {DpcEvent}) \cap (Threads \cup {NoThread}) = {}
  /\ MaxDelay \in Nat

AllEvents == Events \cup {DpcEvent}
Queues    == Mutexes \cup AllEvents   \* each of them contains one wait queue

VARIABLES
  wait,         \* wait->list, head first
  wcount,       \* wait->count
  blocking,     \* t->blocking_wait_queue
  block_ret,    \* t->wait_queue_block_ret
  timer_queue,  \* timer_queue of timer.c: the threads whose timer is queued
  left,         \* ticks until the timer of t is due
  callback      \* callback of the timer of t

waitVars  == <<wait, wcount, blocking, block_ret>>
timerVars == <<timer_queue, left, callback>>

NO_ERROR             == "NO_ERROR"
ERR_TIMED_OUT        == "ERR_TIMED_OUT"
ERR_OBJECT_DESTROYED == "ERR_OBJECT_DESTROYED"
BlockReturns == {NO_ERROR, ERR_TIMED_OUT, ERR_OBJECT_DESTROYED}

-----------------------------------------------------------------------------
(* Timers.                                                                 *)

\* insert_timer_in_queue(): before the first entry that is due later.
insert_timer_in_queue(t, d) ==
  \E n \in 1 .. Len(timer_queue) + 1 :
    /\ \A j \in 1 .. n - 1 : left[timer_queue[j]] <= d
    /\ n <= Len(timer_queue) => left[timer_queue[n]] > d
    /\ timer_queue' = InsertAt(timer_queue, n, t)

timer_set_oneshot(t, d, cb) ==
  /\ insert_timer_in_queue(t, d)
  /\ left' = [left EXCEPT ![t] = d]
  /\ callback' = [callback EXCEPT ![t] = cb]

timer_cancel_Faulty(t) == UNCHANGED timerVars

timer_cancel(t) ==
  /\ timer_queue' = Without(timer_queue, t)
  /\ left' = [left EXCEPT ![t] = 0]
  /\ callback' = [callback EXCEPT ![t] = "none"]

-----------------------------------------------------------------------------
(* Wait queues.                                                            *)

INFINITE_TIME == -1

\* As below, but waiters queue up at the head.
wait_queue_block_Lifo_Faulty(o, timeout) ==
  /\ wait' = [wait EXCEPT ![o] = <<current>> \o @]
  /\ wcount' = [wcount EXCEPT ![o] = @ + 1]
  /\ blocking' = [blocking EXCEPT ![current] = o]
  /\ block_ret' = [block_ret EXCEPT ![current] = NO_ERROR]
  /\ UNCHANGED timerVars
  /\ thread_resched(run_queue, run_queue_bitmap,
                    [state EXCEPT ![current] = "BLOCKED"], quantum, crit + 2)

\* wait_queue_block() up to its thread_block(), for a non-zero timeout; the
\* caller has entered one critical section, thread_block() enters another.
wait_queue_block(o, timeout) ==
  /\ wait' = [wait EXCEPT ![o] = Append(@, current)]
  /\ wcount' = [wcount EXCEPT ![o] = @ + 1]
  /\ blocking' = [blocking EXCEPT ![current] = o]
  /\ block_ret' = [block_ret EXCEPT ![current] = NO_ERROR]
  /\ IF timeout = INFINITE_TIME
       THEN UNCHANGED timerVars
       ELSE timer_set_oneshot(current, timeout, "wait_queue_timeout_handler")
  /\ thread_resched(run_queue, run_queue_bitmap,
                    [state EXCEPT ![current] = "BLOCKED"], quantum, crit + 2)

\* A waiter t leaves the list of o (its head, or wherever it stands) and is
\* given the value that its wait_queue_block() will return.
Unlink(o, list, t, ret) ==
  /\ wait' = [wait EXCEPT ![o] = list]
  /\ wcount' = [wcount EXCEPT ![o] = @ - 1]
  /\ blocking' = [blocking EXCEPT ![t] = NoObject]
  /\ block_ret' = [block_ret EXCEPT ![t] = ret]

\* wait_queue_wake_one() on a non-empty queue, rescheduling: the current
\* thread goes to the head of its run queue, and the woken one before it.
wait_queue_wake_one_resched(o, ret) ==
  LET t == Head(wait[o])
  IN  /\ Unlink(o, Tail(wait[o]), t, ret)
      /\ thread_resched(
           insert_in_run_queue_head(
             insert_in_run_queue_head(run_queue, current), t),
           run_queue_bitmap \cup {priority[current], priority[t]},
           [state EXCEPT ![current] = "READY", ![t] = "READY"],
           quantum, crit + 1)

\* The part that waking without a reschedule, one turn of the loop of
\* wait_queue_wake_all(), and thread_unblock_from_wait_queue() have in common.
MakeReady(o, list, t, ret) ==
  /\ Unlink(o, list, t, ret)
  /\ state' = [state EXCEPT ![t] = "READY"]
  /\ run_queue' = insert_in_run_queue_head(run_queue, t)
  /\ run_queue_bitmap' = run_queue_bitmap \cup {priority[t]}

\* As below, but the list node is not deleted.
thread_unblock_StillListed_Faulty(t, ret) ==
  IF state[t] = "BLOCKED"
    THEN /\ MakeReady(blocking[t], wait[blocking[t]], t, ret)
         /\ UNCHANGED crit
    ELSE /\ crit' = crit + 1
         /\ UNCHANGED <<waitVars, state, run_queue, run_queue_bitmap>>

\* As below, but the return value is overwritten before the state is checked.
thread_unblock_LateTimeout_Faulty(t, ret) ==
  IF state[t] = "BLOCKED"
    THEN /\ MakeReady(blocking[t], Without(wait[blocking[t]], t), t, ret)
         /\ UNCHANGED crit
    ELSE /\ crit' = crit + 1
         /\ block_ret' = [block_ret EXCEPT ![t] = ret]
         /\ UNCHANGED <<wait, wcount, blocking, state, run_queue, run_queue_bitmap>>

\* thread_unblock_from_wait_queue(t, false, ret), called by the timer
\* interrupt.  A thread that is no longer blocked is left alone, and that
\* early return skips exit_critical_section().
thread_unblock_from_wait_queue(t, ret) ==
  IF state[t] = "BLOCKED"
    THEN /\ MakeReady(blocking[t], Without(wait[blocking[t]], t), t, ret)
         /\ UNCHANGED crit
    ELSE /\ crit' = crit + 1
         /\ UNCHANGED <<waitVars, state, run_queue, run_queue_bitmap>>

-----------------------------------------------------------------------------
(* What the wait queues must look like.                                    *)

WaitQueuesMatch(wl, wc, bl, st) ==
  \A o \in Queues :
    /\ Distinct(wl[o]) /\ wc[o] = Len(wl[o])
    /\ \A t \in Threads : OccursIn(t, wl[o]) <=> st[t] = "BLOCKED" /\ bl[t] = o

\* wait_queue_block(), the wakers and the timeout handler agree on the wait
\* queues: a thread is in the list of a queue, once, exactly when it is BLOCKED
\* with blocking_wait_queue pointing there, and wait->count is the length.
WaitQueuesExact == WaitQueuesMatch(wait, wcount, blocking, state)

-----------------------------------------------------------------------------
(* wait_queue_wake_all(), which several calls use: the call puts the       *)
(* current thread at the head of its run queue if it is to reschedule and  *)
(* anyone waits, then every turn of the loop takes one waiter.  The loop   *)
(* runs inside the critical section of the call.                           *)

WakeLoops == {"signal_all", "signal_all_noresched", "destroy_all", "exit_signal"}
WakeRet(p) == IF p = "destroy_all" THEN ERR_OBJECT_DESTROYED ELSE NO_ERROR

wait_queue_wake_all_begin(o, p) ==
  /\ enter_critical_section
  /\ IF p # "signal_all_noresched" /\ wcount[o] > 0
       THEN /\ state' = [state EXCEPT ![current] = "READY"]
            /\ run_queue' = insert_in_run_queue_head(run_queue, current)
            /\ run_queue_bitmap' = run_queue_bitmap \cup {priority[current]}
            /\ InCall(p, o)
       ELSE /\ UNCHANGED <<state, run_queue, run_queue_bitmap>>
            /\ InCall("signal_all_noresched", o)
  /\ UNCHANGED <<current, idle_thread, priority, quantum, saved>>

WakeAllStep ==
  LET o == obj[current] IN
  /\ irq[current] = "none" /\ pc[current] \in WakeLoops /\ wait[o] # <<>>
  /\ MakeReady(o, Tail(wait[o]), Head(wait[o]), WakeRet(pc[current]))
  /\ UNCHANGED <<current, idle_thread, priority, quantum, saved, crit, ints,
                 callVars, timerVars>>

\* After the last waiter: thread_resched() if anyone was woken.
WakeAllResched ==
  /\ irq[current] = "none" /\ pc[current] \in {"signal_all", "destroy_all"}
  /\ wait[obj[current]] = <<>>
  /\ thread_resched(run_queue, run_queue_bitmap, state, quantum, crit)
  /\ InCall("wake_return", NoObject)
  /\ UNCHANGED <<idle_thread, priority, ints, waitVars, timerVars>>

WakeAllDone ==
  /\ Returns("signal_all_noresched") /\ wait[obj[current]] = <<>>
  /\ exit_critical_sections(1)
  /\ InCall("user", NoObject)
  /\ UNCHANGED <<current, idle_thread, state, priority, quantum, saved,
                 run_queue, run_queue_bitmap, waitVars, timerVars>>

\* A waker that rescheduled is running again.
WakeReturn ==
  /\ Returns("wake_return")
  /\ exit_critical_sections(1)
  /\ InCall("user", NoObject)
  /\ UNCHANGED <<current, idle_thread, state, priority, quantum, saved,
                 run_queue, run_queue_bitmap, waitVars, timerVars>>

=============================================================================
