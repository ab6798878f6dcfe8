------------------------------- MODULE Sched -------------------------------
(***************************************************************************)
(* The scheduler of the little kernel: thread structures, the run queues   *)
(* and their bitmap, the critical-section counter, and thread_resched(),   *)
(* which picks the next thread and switches to it (src/kernel/thread.c,    *)
(* src/include/kernel/thread.h, src/arch/arm/thread.c).                    *)
(*                                                                         *)
(* There is one CPU.  A kernel call runs inside a critical section (with   *)
(* interrupts off), so it is atomic up to the point where thread_resched() *)
(* switches to another thread; what remains of the call is executed when   *)
(* the thread is switched in again.  pc[t] says which call of t is pending *)
(* and obj[t] which object (or thread) the call is about.                  *)
(*                                                                         *)
(* The operators below that stand for functions of the source take the     *)
(* values their caller has already computed (rq, bm, st, q, c stand for    *)
(* the run queues, the bitmap, the states, the quanta and the critical     *)
(* section count at the time of the call) and fix the primed variables.    *)
(*                                                                         *)
(* Names that end in _Faulty are variants with a bug; no action uses them. *)
(***************************************************************************)
EXTENDS Integers, FiniteSets, Lists

CONSTANTS
  Workers,          \* the threads the application creates, bootstrap2 included
  Bootstrap,        \* the statically allocated boot thread, later the idle one
  DpcThread,        \* the thread of dpc.c
  Bootstrap2,       \* the worker created by kmain()
  NoThread,         \* the null thread_t pointer
  NUM_PRIORITIES,   \* thread.h has 32
  QUANTUM           \* ticks of a time slice; thread_resched() has 5

ASSUME ThreadsAssumption ==
  /\ Bootstrap # DpcThread
  /\ Bootstrap \notin Workers /\ DpcThread \notin Workers
  /\ Bootstrap2 \in Workers
  /\ NoThread \notin Workers \cup {Bootstrap, DpcThread}
  /\ IsFiniteSet(Workers)

ASSUME PrioritiesAssumption ==
  NUM_PRIORITIES \in Nat /\ NUM_PRIORITIES >= 2 /\ QUANTUM \in Nat \ {0}

Threads == Workers \cup {Bootstrap, DpcThread}

LOWEST_PRIORITY  == 0
HIGHEST_PRIORITY == NUM_PRIORITIES - 1
DPC_PRIORITY     == NUM_PRIORITIES - 2
IDLE_PRIORITY    == LOWEST_PRIORITY
DEFAULT_PRIORITY == NUM_PRIORITIES \div 2
Priorities       == LOWEST_PRIORITY .. HIGHEST_PRIORITY

\* enum thread_state; NONE stands for "no thread_t is allocated".
ThreadStates ==
  {"NONE", "SUSPENDED", "READY", "RUNNING", "BLOCKED", "SLEEPING", "DEATH"}

VARIABLES
  current,          \* current_thread
  idle_thread,      \* idle_thread, NoThread until thread_become_idle()
  state,            \* t->state
  priority,         \* t->priority
  quantum,          \* t->remaining_quantum; a negative value is kept as 0
  saved,            \* t->saved_critical_section_count
  crit,             \* critical_section_count
  ints,             \* are interrupts enabled on the CPU
  run_queue,        \* run_queue[p], head first
  run_queue_bitmap, \* the set of priorities whose bit is set
  pc, obj,          \* the call each thread is in, and what it is about
  irq               \* the interrupt frame on the stack of each thread

schedVars == <<current, idle_thread, state, priority, quantum, saved, crit,
               ints, run_queue, run_queue_bitmap>>
callVars  == <<pc, obj, irq>>

-----------------------------------------------------------------------------
(* Critical sections.  Interrupts change only when the count meets 0.      *)

enter_critical_section ==
  /\ crit' = crit + 1
  /\ ints' = (ints /\ crit # 0)

\* The enter_critical_section() of a call that goes on to thread_resched(),
\* which accounts for the counter itself.
disable_ints == ints' = (ints /\ crit # 0)

exit_critical_sections(n) ==
  /\ crit' = crit - n
  /\ ints' = (ints \/ crit - n = 0)

(* Run queues.                                                             *)

insert_in_run_queue_head(rq, t) ==
  [rq EXCEPT ![priority[t]] = <<t>> \o @]

insert_in_run_queue_tail(rq, t) ==
  [rq EXCEPT ![priority[t]] = Append(@, t)]

Highest_Faulty(p, bm) == p \in bm /\ \A r \in bm : p <= r

\* p is the priority that __builtin_clz() finds in the bitmap.
Highest(p, bm) == p \in bm /\ \A r \in bm : r <= p

\* As SwitchTo, but the bit of an emptied queue stays set.
SwitchTo_Faulty(newthread, p, rq, bm, st, q, c) ==
  /\ run_queue' = [rq EXCEPT ![p] = Tail(@)]
  /\ run_queue_bitmap' = bm
  /\ state' = [st EXCEPT ![newthread] = "RUNNING"]
  /\ current' = newthread
  /\ quantum' = q
  /\ saved' = IF newthread = current THEN saved ELSE [saved EXCEPT ![current] = c]
  /\ crit' = IF newthread = current THEN c ELSE saved[newthread]

\* Dequeue the head of run queue p and run it.  The quantum is refilled and the
\* critical section counts are exchanged only if it is not the current thread.
SwitchTo(newthread, p, rq, bm, st, q, c) ==
  /\ run_queue' = [rq EXCEPT ![p] = Tail(@)]
  /\ run_queue_bitmap' = IF Tail(rq[p]) = <<>> THEN bm \ {p} ELSE bm
  /\ state' = [st EXCEPT ![newthread] = "RUNNING"]
  /\ current' = newthread
  /\ quantum' = IF newthread # current /\ q[newthread] = 0
                  THEN [q EXCEPT ![newthread] = QUANTUM] ELSE q
  /\ saved' = IF newthread = current THEN saved ELSE [saved EXCEPT ![current] = c]
  /\ crit' = IF newthread = current THEN c ELSE saved[newthread]

\* thread_resched(): the head of the highest non-empty run queue is next.
thread_resched(rq, bm, st, q, c) ==
  \E next_queue \in Priorities :
    /\ Highest(next_queue, bm)
    /\ SwitchTo(Head(rq[next_queue]), next_queue, rq, bm, st, q, c)

\* thread_yield(), entered with a critical section count of c: to the tail.
thread_yield(rq, bm, st, c) ==
  thread_resched(insert_in_run_queue_tail(rq, current),
                 bm \cup {priority[current]},
                 [st EXCEPT ![current] = "READY"],
                 [quantum EXCEPT ![current] = 0], c + 1)

\* As below, but without the assignment of THREAD_READY.
thread_preempt_StaysRunning_Faulty(rq, bm, q, c) ==
  thread_resched(insert_in_run_queue_tail(rq, current),
                 bm \cup {priority[current]}, state, q, c + 1)

\* As below, but the time slice is not looked at.
thread_preempt_AlwaysHead_Faulty(rq, bm, q, c) ==
  thread_resched(insert_in_run_queue_head(rq, current),
                 bm \cup {priority[current]},
                 [state EXCEPT ![current] = "READY"], q, c + 1)

\* thread_preempt(): to the head while the time slice lasts, else to the tail.
thread_preempt(rq, bm, q, c) ==
  thread_resched(IF q[current] > 0 THEN insert_in_run_queue_head(rq, current)
                                   ELSE insert_in_run_queue_tail(rq, current),
                 bm \cup {priority[current]},
                 [state EXCEPT ![current] = "READY"], q, c + 1)

\* thread_timer_tick(): the idle thread has no time slice.
thread_timer_tick ==
  [quantum EXCEPT ![current] =
     IF current = idle_thread \/ @ = 0 THEN @ ELSE @ - 1]

-----------------------------------------------------------------------------
(* What the run queues must look like.                                     *)

RunQueuesMatch(rq, bm, st, pr) ==
  \A p \in Priorities :
    /\ Distinct(rq[p])
    /\ \A t \in Threads : OccursIn(t, rq[p]) <=> st[t] = "READY" /\ pr[t] = p
    /\ p \in bm <=> rq[p] # <<>>

\* insert_in_run_queue_*(), thread_resched() and every waker agree on the run
\* queues: a thread is READY exactly when it is in the run queue of its own
\* priority, once, and the bitmap names the non-empty queues.  (The lists share
\* one queue_node per thread: a second insertion would tie them together.)
RunQueuesExact == RunQueuesMatch(run_queue, run_queue_bitmap, state, priority)

-----------------------------------------------------------------------------
(* Where the current thread is.                                            *)

\* It is about to make a kernel call, from outside of any critical section.
Calls(p) == irq[current] = "none" /\ pc[current] = p /\ crit = 0

\* It has been switched in, and goes on with the call it was in.
Returns(p) == irq[current] = "none" /\ pc[current] = p

InCall(p, o) == /\ pc' = [pc EXCEPT ![current] = p]
                /\ obj' = [obj EXCEPT ![current] = o]
                /\ UNCHANGED irq

=============================================================================
