---------------------------- MODULE KernelProofs ----------------------------
(***************************************************************************)
(* Proof that KernelInv is an invariant of the kernel, for any number of   *)
(* threads, mutexes, events and priorities.                                *)
(*                                                                         *)
(* The lemmas on the run queues and the wait queues say what each way of   *)
(* inserting and removing a thread does to RunQueuesMatch and              *)
(* WaitQueuesMatch.  They are stated for the intermediate values that a    *)
(* call computes, and cited for every action that goes through them.       *)
(***************************************************************************)
EXTENDS Kernel, ListProofs

RunQueues == [Priorities -> Seq(Threads)]
StateFunctions == [Threads -> ThreadStates]

-----------------------------------------------------------------------------
(* Run queues.                                                             *)

\* insert_in_run_queue_head() and _tail() of a thread that was in no run queue.
LEMMA InsertInRunQueue ==
  ASSUME NEW rq \in RunQueues, NEW bm \in SUBSET Priorities,
         NEW st \in StateFunctions, NEW t \in Threads,
         priority \in [Threads -> Priorities],
         RunQueuesMatch(rq, bm, st, priority), st[t] # "READY"
  PROVE  LET st1 == [st EXCEPT ![t] = "READY"]
             bm1 == bm \cup {priority[t]}
         IN  /\ insert_in_run_queue_head(rq, t) \in RunQueues
             /\ insert_in_run_queue_tail(rq, t) \in RunQueues
             /\ RunQueuesMatch(insert_in_run_queue_head(rq, t), bm1, st1, priority)
             /\ RunQueuesMatch(insert_in_run_queue_tail(rq, t), bm1, st1, priority)
             /\ st1 \in StateFunctions /\ bm1 \in SUBSET Priorities
<1> DEFINE p0 == priority[t]
           st1 == [st EXCEPT ![t] = "READY"]
           h == <<t>> \o rq[p0]
           l == Append(rq[p0], t)
<1>1. p0 \in Priorities /\ rq[p0] \in Seq(Threads)
  BY DEF RunQueues
<1>2. Distinct(rq[p0]) /\ ~OccursIn(t, rq[p0])
  BY <1>1 DEF RunQueuesMatch
<1>3. /\ h \in Seq(Threads) /\ h # <<>> /\ Distinct(h)
      /\ \A u : OccursIn(u, h) <=> OccursIn(u, rq[p0]) \/ u = t
  BY <1>1, <1>2, PushFacts
<1>4. /\ l \in Seq(Threads) /\ l # <<>> /\ Distinct(l)
      /\ \A u : OccursIn(u, l) <=> OccursIn(u, rq[p0]) \/ u = t
  BY <1>1, <1>2, AppendFacts
<1> HIDE DEF h, l
<1>5. ASSUME NEW x \in Seq(Threads), x # <<>>, Distinct(x),
             \A u : OccursIn(u, x) <=> OccursIn(u, rq[p0]) \/ u = t
      PROVE  /\ [rq EXCEPT ![p0] = x] \in RunQueues
             /\ RunQueuesMatch([rq EXCEPT ![p0] = x], bm \cup {p0}, st1, priority)
  <2>1. [rq EXCEPT ![p0] = x] \in RunQueues
    BY <1>1 DEF RunQueues
  <2>2. ASSUME NEW p \in Priorities
        PROVE  LET y == [rq EXCEPT ![p0] = x][p] IN
               /\ Distinct(y)
               /\ \A u \in Threads : OccursIn(u, y) <=> st1[u] = "READY" /\ priority[u] = p
               /\ p \in bm \cup {p0} <=> y # <<>>
    <3>1. CASE p = p0
      <4>1. [rq EXCEPT ![p0] = x][p] = x
        BY <3>1 DEF RunQueues
      <4>2. \A u \in Threads : OccursIn(u, x) <=> st1[u] = "READY" /\ priority[u] = p
        BY <3>1, <1>5, <1>1 DEF RunQueuesMatch, StateFunctions
      <4> QED BY <4>1, <4>2, <3>1, <1>5
    <3>2. CASE p # p0
      <4>1. [rq EXCEPT ![p0] = x][p] = rq[p]
        BY <3>2 DEF RunQueues
      <4>2. \A u \in Threads : OccursIn(u, rq[p]) <=> st1[u] = "READY" /\ priority[u] = p
        BY <3>2 DEF RunQueuesMatch, StateFunctions
      <4> QED BY <4>1, <4>2, <3>2 DEF RunQueuesMatch
    <3> QED BY <3>1, <3>2
  <2> QED BY <2>1, <2>2 DEF RunQueuesMatch
<1>6. st1 \in StateFunctions /\ bm \cup {p0} \in SUBSET Priorities
  BY <1>1 DEF StateFunctions, ThreadStates
<1> QED BY <1>3, <1>4, <1>5, <1>6
        DEF insert_in_run_queue_head, insert_in_run_queue_tail, h, l

\* A thread that goes from one state to another, neither of them READY, is of
\* no concern to the run queues.
LEMMA RunQueuesOtherState ==
  ASSUME NEW rq, NEW bm, NEW st \in StateFunctions, NEW pr, NEW t \in Threads, NEW x,
         RunQueuesMatch(rq, bm, st, pr), st[t] # "READY", x # "READY"
  PROVE  RunQueuesMatch(rq, bm, [st EXCEPT ![t] = x], pr)
BY DEF RunQueuesMatch, StateFunctions

\* The dequeue of thread_resched(): it finds a READY thread, and leaves the run
\* queues and the bitmap in order.
LEMMA ReschedFacts ==
  ASSUME NEW rq \in RunQueues, NEW bm \in SUBSET Priorities,
         NEW st \in StateFunctions, NEW q \in [Threads -> 0 .. QUANTUM],
         NEW c \in Int, TypeOK,
         RunQueuesMatch(rq, bm, st, priority),
         thread_resched(rq, bm, st, q, c)
  PROVE  /\ current' \in Threads /\ st[current'] = "READY"
         /\ state' = [st EXCEPT ![current'] = "RUNNING"]
         /\ state' \in StateFunctions
         /\ run_queue' \in RunQueues /\ run_queue_bitmap' \in SUBSET Priorities
         /\ RunQueuesMatch(run_queue', run_queue_bitmap', state', priority)
         /\ quantum' \in [Threads -> 0 .. QUANTUM]
         /\ saved' \in [Threads -> Int] /\ crit' \in Int
<1>1. PICK p \in Priorities :
        Highest(p, bm) /\ SwitchTo(Head(rq[p]), p, rq, bm, st, q, c)
  BY DEF thread_resched
<1> DEFINE s == rq[p]
           new == Head(s)
           r == Tail(s)
<1>2. s \in Seq(Threads) /\ s # <<>> /\ Distinct(s)
  BY <1>1 DEF RunQueues, RunQueuesMatch, Highest
<1>3. /\ r \in Seq(Threads) /\ new \in Threads /\ Distinct(r) /\ OccursIn(new, s)
      /\ \A u : OccursIn(u, r) <=> OccursIn(u, s) /\ u # new
  BY <1>2, TailFacts
<1>4. st[new] = "READY" /\ priority[new] = p
  BY <1>3 DEF RunQueuesMatch
<1>5. /\ current' = new /\ state' = [st EXCEPT ![new] = "RUNNING"]
      /\ run_queue' = [rq EXCEPT ![p] = r]
      /\ run_queue_bitmap' = IF r = <<>> THEN bm \ {p} ELSE bm
  BY <1>1 DEF SwitchTo
<1>6. /\ quantum' \in [Threads -> 0 .. QUANTUM]
      /\ saved' \in [Threads -> Int] /\ crit' \in Int
  <2>1. saved \in [Threads -> Int] /\ current \in Threads /\ QUANTUM \in 0 .. QUANTUM
    BY PrioritiesAssumption DEF TypeOK
  <2>2. /\ quantum' = IF new # current /\ q[new] = 0
                        THEN [q EXCEPT ![new] = QUANTUM] ELSE q
        /\ saved' = IF new = current THEN saved ELSE [saved EXCEPT ![current] = c]
        /\ crit' = IF new = current THEN c ELSE saved[new]
    BY <1>1 DEF SwitchTo
  <2> HIDE DEF new
  <2> QED BY <2>1, <2>2, <1>3
<1> HIDE DEF s, new, r
<1>7. ASSUME NEW x \in Priorities
      PROVE  LET y == run_queue'[x] IN
             /\ Distinct(y)
             /\ \A u \in Threads : OccursIn(u, y) <=> state'[u] = "READY" /\ priority[u] = x
             /\ x \in run_queue_bitmap' <=> y # <<>>
  <2>1. CASE x = p
    <3>1. run_queue'[x] = r
      BY <2>1, <1>5 DEF RunQueues
    <3>2. \A u \in Threads : OccursIn(u, r) <=> state'[u] = "READY" /\ priority[u] = x
      BY <2>1, <1>3, <1>4, <1>5 DEF RunQueuesMatch, StateFunctions, s
    <3>3. p \in bm
      BY <1>1 DEF Highest
    <3> QED BY <3>1, <3>2, <3>3, <2>1, <1>3, <1>5
  <2>2. CASE x # p
    <3>1. run_queue'[x] = rq[x]
      BY <2>2, <1>5 DEF RunQueues
    <3>2. \A u \in Threads : OccursIn(u, rq[x]) <=> state'[u] = "READY" /\ priority[u] = x
      BY <2>2, <1>4, <1>5 DEF RunQueuesMatch, StateFunctions
    <3>3. x \in run_queue_bitmap' <=> x \in bm
      BY <2>2, <1>5
    <3> QED BY <3>1, <3>2, <3>3 DEF RunQueuesMatch
  <2> QED BY <2>1, <2>2
<1>8. /\ run_queue' \in RunQueues /\ run_queue_bitmap' \in SUBSET Priorities
      /\ state' \in StateFunctions
  BY <1>3, <1>5 DEF RunQueues, StateFunctions, ThreadStates
<1> QED BY <1>3, <1>4, <1>5, <1>6, <1>7, <1>8 DEF RunQueuesMatch

-----------------------------------------------------------------------------
(* Wait queues.                                                            *)

WaitLists == [Queues -> Seq(Threads)]

\* A change between two states, neither of them BLOCKED, is of no concern to
\* the wait queues.
LEMMA WaitQueuesOtherState ==
  ASSUME NEW wl, NEW wc, NEW bl, NEW st \in StateFunctions, NEW t \in Threads, NEW x,
         WaitQueuesMatch(wl, wc, bl, st), st[t] # "BLOCKED", x # "BLOCKED"
  PROVE  WaitQueuesMatch(wl, wc, bl, [st EXCEPT ![t] = x])
BY DEF WaitQueuesMatch, StateFunctions

\* wait_queue_block() adds a thread that was not blocked.
LEMMA BlockFacts ==
  ASSUME NEW wl \in WaitLists, NEW wc \in [Queues -> Int],
         NEW bl \in [Threads -> Queues \cup {NoObject}],
         NEW st \in StateFunctions, NEW t \in Threads, NEW o \in Queues,
         WaitQueuesMatch(wl, wc, bl, st), st[t] # "BLOCKED"
  PROVE  /\ [wl EXCEPT ![o] = Append(@, t)] \in WaitLists
         /\ WaitQueuesMatch([wl EXCEPT ![o] = Append(@, t)], [wc EXCEPT ![o] = @ + 1],
                            [bl EXCEPT ![t] = o], [st EXCEPT ![t] = "BLOCKED"])
<1> DEFINE x == Append(wl[o], t)
           wl1 == [wl EXCEPT ![o] = x]
           bl1 == [bl EXCEPT ![t] = o]
           st1 == [st EXCEPT ![t] = "BLOCKED"]
<1>1. wl[o] \in Seq(Threads) /\ Distinct(wl[o]) /\ ~OccursIn(t, wl[o])
  BY DEF WaitLists, WaitQueuesMatch
<1>2. /\ x \in Seq(Threads) /\ Distinct(x) /\ Len(x) = Len(wl[o]) + 1
      /\ \A u : OccursIn(u, x) <=> OccursIn(u, wl[o]) \/ u = t
  BY <1>1, AppendFacts
<1> HIDE DEF x
<1>3. ASSUME NEW p \in Queues
      PROVE  /\ Distinct(wl1[p]) /\ [wc EXCEPT ![o] = @ + 1][p] = Len(wl1[p])
             /\ \A u \in Threads : OccursIn(u, wl1[p]) <=> st1[u] = "BLOCKED" /\ bl1[u] = p
  <2>1. CASE p = o
    <3>1. wl1[p] = x
      BY <2>1 DEF WaitLists
    <3>2. \A u \in Threads : OccursIn(u, x) <=> st1[u] = "BLOCKED" /\ bl1[u] = p
      BY <2>1, <1>2 DEF WaitQueuesMatch, StateFunctions
    <3> QED BY <3>1, <3>2, <2>1, <1>2 DEF WaitQueuesMatch
  <2>2. CASE p # o
    <3>1. wl1[p] = wl[p]
      BY <2>2 DEF WaitLists
    <3>2. \A u \in Threads : OccursIn(u, wl[p]) <=> st1[u] = "BLOCKED" /\ bl1[u] = p
      BY <2>2 DEF WaitQueuesMatch, StateFunctions
    <3> QED BY <3>1, <3>2, <2>2 DEF WaitQueuesMatch
  <2> QED BY <2>1, <2>2
<1>4. wl1 \in WaitLists
  BY <1>2 DEF WaitLists
<1> QED BY <1>3, <1>4 DEF WaitQueuesMatch, x

\* A waiter leaves its queue and is BLOCKED no longer.
LEMMA UnlinkFacts ==
  ASSUME NEW st \in StateFunctions, NEW t \in Threads, NEW o \in Queues, NEW x,
         NEW list \in Seq(Threads), NEW ret \in BlockReturns, TypeOK,
         WaitQueuesMatch(wait, wcount, blocking, st), OccursIn(t, wait[o]),
         Distinct(list), Len(list) = Len(wait[o]) - 1,
         \A u : OccursIn(u, list) <=> OccursIn(u, wait[o]) /\ u # t,
         Unlink(o, list, t, ret), x # "BLOCKED"
  PROVE  /\ wait' \in WaitLists /\ wcount' \in [Queues -> Int]
         /\ blocking' \in [Threads -> Queues \cup {NoObject}]
         /\ \A u \in Threads \ {t} : blocking'[u] = blocking[u]
         /\ block_ret' \in [Threads -> BlockReturns]
         /\ st[t] = "BLOCKED"
         /\ WaitQueuesMatch(wait', wcount', blocking', [st EXCEPT ![t] = x])
<1>1. /\ wait \in WaitLists /\ wcount \in [Queues -> Int]
      /\ blocking \in [Threads -> Queues \cup {NoObject}]
      /\ block_ret \in [Threads -> BlockReturns]
  BY DEF TypeOK, WaitLists
<1>2. /\ wait' = [wait EXCEPT ![o] = list] /\ wcount' = [wcount EXCEPT ![o] = @ - 1]
      /\ blocking' = [blocking EXCEPT ![t] = NoObject]
      /\ block_ret' = [block_ret EXCEPT ![t] = ret]
  BY DEF Unlink
<1>3. st[t] = "BLOCKED" /\ blocking[t] = o
  BY DEF WaitQueuesMatch
<1>4. NoObject \notin Queues
  BY ObjectsAssumption DEF Queues, AllEvents
<1> DEFINE st1 == [st EXCEPT ![t] = x]
<1>5. ASSUME NEW p \in Queues
      PROVE  /\ Distinct(wait'[p]) /\ wcount'[p] = Len(wait'[p])
             /\ \A u \in Threads : OccursIn(u, wait'[p]) <=>
                                     st1[u] = "BLOCKED" /\ blocking'[u] = p
  <2>1. CASE p = o
    <3>1. wait'[p] = list /\ wcount'[p] = wcount[o] - 1
      BY <2>1, <1>1, <1>2 DEF WaitLists
    <3>2. \A u \in Threads : OccursIn(u, list) <=> st1[u] = "BLOCKED" /\ blocking'[u] = p
      BY <2>1, <1>1, <1>2, <1>3 DEF WaitQueuesMatch, StateFunctions
    <3> QED BY <3>1, <3>2 DEF WaitQueuesMatch
  <2>2. CASE p # o
    <3>1. wait'[p] = wait[p] /\ wcount'[p] = wcount[p]
      BY <2>2, <1>1, <1>2 DEF WaitLists
    <3>2. \A u \in Threads : OccursIn(u, wait[p]) <=> st1[u] = "BLOCKED" /\ blocking'[u] = p
      BY <2>2, <1>1, <1>2, <1>3, <1>4 DEF WaitQueuesMatch, StateFunctions
    <3> QED BY <3>1, <3>2 DEF WaitQueuesMatch
  <2> QED BY <2>1, <2>2
<1>6. WaitQueuesMatch(wait', wcount', blocking', st1)
  BY <1>5 DEF WaitQueuesMatch
<1> QED BY <1>1, <1>2, <1>3, <1>6 DEF WaitLists

-----------------------------------------------------------------------------
(* Calls and timers.                                                       *)

MutexPCs == {"mutex_acquire", "mutex_acquire_timeout"}

\* The current thread goes on to p, a place outside of the loops that run in a
\* critical section, and only suspended threads that it resumes are resumed.
LEMMA CallFacts ==
  ASSUME KernelInv, NEW p, NEW o, InCall(p, o), irq[current] = "none",
         p \notin LoopPCs, p \notin ResumePCs, p # "thread_cleanup_dpc",
         p \in BootPCs <=> pc[current] \in BootPCs,
         p \in DpcPCs => current = DpcThread,
         p \in MutexPCs => o \in Mutexes,
         UNCHANGED dpc_list, state' \in StateFunctions,
         \A u \in Threads : state'[u] = "BLOCKED" =>
                              obj'[u] \in Queues /\ blocking'[u] = obj'[u],
         \A u \in Threads : pc'[u] \in TimedPCs =>
                              state'[u] \in {"BLOCKED", "READY", "RUNNING"},
         \A u \in Threads : state[u] = "DEATH" => state'[u] = "DEATH",
         \A u \in Threads : state[u] = "SUSPENDED" =>
            state'[u] = "SUSPENDED" \/ (pc[current] \in ResumePCs /\ u = obj[current])
  PROVE  CallsConsistent' /\ \A u \in Threads : pc'[u] \notin LoopPCs
<1>1. /\ pc' = [pc EXCEPT ![current] = p] /\ obj' = [obj EXCEPT ![current] = o]
      /\ irq' = irq
  BY DEF InCall
<1>2. current \in Threads /\ pc \in [Threads -> PCs] /\ DOMAIN obj = Threads
  BY DEF KernelInv, TypeOK
<1>3. /\ pc'[current] = p /\ obj'[current] = o
      /\ \A u \in Threads : u # current => pc'[u] = pc[u] /\ obj'[u] = obj[u]
  BY <1>1, <1>2
<1>4. CallsConsistent
  BY DEF KernelInv
<1>5. \A u \in Threads : pc'[u] \notin LoopPCs
  BY <1>3, <1>4 DEF CallsConsistent
<1>6. ASSUME NEW t \in Threads
      PROVE  /\ pc'[t] \in BootPCs <=> t = Bootstrap
             /\ pc'[t] \in DpcPCs => t = DpcThread
             /\ irq'[t] # "timer_tick"
             /\ pc'[t] \in MutexPCs => obj'[t] \in Mutexes
  <2>1. CASE t = current
    BY <2>1, <1>1, <1>3, <1>4 DEF CallsConsistent, MutexPCs
  <2>2. CASE t # current
    BY <2>2, <1>1, <1>3, <1>4 DEF CallsConsistent, MutexPCs
  <2> QED BY <2>1, <2>2
<1>7. ASSUME NEW t \in Threads, pc'[t] \in ResumePCs
      PROVE  /\ t # current /\ pc[t] \in ResumePCs /\ obj'[t] = obj[t]
             /\ obj[t] \in Threads /\ state'[obj[t]] = "SUSPENDED"
  <2>1. t # current /\ pc[t] \in ResumePCs /\ obj'[t] = obj[t]
    BY <1>3, <1>7
  <2>2. obj[t] \in Threads /\ state[obj[t]] = "SUSPENDED"
    BY <2>1, <1>4 DEF CallsConsistent
  <2>3. pc[current] \in ResumePCs => obj[t] # obj[current]
    BY <2>1, <1>2, <1>4 DEF CallsConsistent
  <2> QED BY <2>1, <2>2, <2>3
<1>8. ASSUME NEW t \in Threads, pc'[t] = "thread_cleanup_dpc"
      PROVE  /\ obj'[t] \in Threads /\ state'[obj'[t]] = "DEATH"
             /\ ~OccursIn(obj'[t], dpc_list)
  BY <1>3, <1>4, <1>8 DEF CallsConsistent
<1>9. Distinct(dpc_list) /\ \A t \in Threads : OccursIn(t, dpc_list) => state'[t] = "DEATH"
  BY <1>4 DEF CallsConsistent
<1>10. WakeLoops \subseteq LoopPCs
  BY DEF LoopPCs
<1>11. \A t, u \in Threads :
         pc'[t] \in ResumePCs /\ pc'[u] \in ResumePCs /\ obj'[t] = obj'[u] => t = u
  BY <1>4, <1>7 DEF CallsConsistent
<1> QED BY <1>5, <1>6, <1>7, <1>8, <1>9, <1>10, <1>11 DEF CallsConsistent, MutexPCs

\* Timers that are left alone stay owned.
LEMMA TimersKept ==
  ASSUME TimersOwned, UNCHANGED <<timer_queue, callback>>,
         \A u \in Threads : state[u] = "SLEEPING" => state'[u] = "SLEEPING",
         \A u \in Threads : pc[u] \in TimedPCs => pc'[u] \in TimedPCs
  PROVE  TimersOwned'
BY DEF TimersOwned

\* timer_set_oneshot() by a thread that has no timer yet.
LEMMA TimerSet ==
  ASSUME TypeOK, TimersOwned, NEW d \in 1 .. MaxDelay,
         NEW cb \in {"wait_queue_timeout_handler", "thread_sleep_handler"},
         timer_set_oneshot(current, d, cb), ~OccursIn(current, timer_queue),
         \A u \in Threads \ {current} : state[u] = "SLEEPING" => state'[u] = "SLEEPING",
         \A u \in Threads \ {current} : pc[u] \in TimedPCs => pc'[u] \in TimedPCs,
         \/ state'[current] = "SLEEPING" /\ cb = "thread_sleep_handler"
         \/ pc'[current] \in TimedPCs /\ cb = "wait_queue_timeout_handler"
  PROVE  /\ TimersOwned' /\ timer_queue' \in Seq(Threads)
         /\ left' \in [Threads -> 0 .. MaxDelay]
         /\ callback' \in [Threads ->
               {"none", "wait_queue_timeout_handler", "thread_sleep_handler"}]
<1>1. PICK n \in 1 .. Len(timer_queue) + 1 :
        timer_queue' = InsertAt(timer_queue, n, current)
  BY DEF timer_set_oneshot, insert_timer_in_queue
<1>2. timer_queue \in Seq(Threads) /\ current \in Threads
  BY DEF TypeOK
<1>3. /\ timer_queue' \in Seq(Threads) /\ Distinct(timer_queue')
      /\ \A u : OccursIn(u, timer_queue') <=> OccursIn(u, timer_queue) \/ u = current
  BY <1>1, <1>2, InsertFacts DEF TimersOwned
<1>4. /\ left' = [left EXCEPT ![current] = d]
      /\ callback' = [callback EXCEPT ![current] = cb]
  BY DEF timer_set_oneshot
<1>5. /\ left' \in [Threads -> 0 .. MaxDelay]
      /\ callback' \in [Threads ->
            {"none", "wait_queue_timeout_handler", "thread_sleep_handler"}]
      /\ callback'[current] = cb
      /\ \A u \in Threads \ {current} : callback'[u] = callback[u]
  BY <1>2, <1>4 DEF TypeOK
<1> QED BY <1>2, <1>3, <1>5 DEF TimersOwned

\* timer_cancel() of the timer of the current thread.
LEMMA TimerCancel ==
  ASSUME TypeOK, TimersOwned, timer_cancel(current),
         \A u \in Threads \ {current} : state[u] = "SLEEPING" => state'[u] = "SLEEPING",
         \A u \in Threads \ {current} : pc[u] \in TimedPCs => pc'[u] \in TimedPCs
  PROVE  /\ TimersOwned' /\ timer_queue' \in Seq(Threads)
         /\ left' \in [Threads -> 0 .. MaxDelay]
         /\ callback' \in [Threads ->
               {"none", "wait_queue_timeout_handler", "thread_sleep_handler"}]
<1>1. timer_queue \in Seq(Threads) /\ current \in Threads /\ MaxDelay \in Nat
  BY ObjectsAssumption DEF TypeOK
<1>2. /\ timer_queue' \in Seq(Threads) /\ Distinct(timer_queue')
      /\ \A u : OccursIn(u, timer_queue') <=> OccursIn(u, timer_queue) /\ u # current
  BY <1>1, WithoutFacts DEF timer_cancel, TimersOwned
<1>3. /\ left' = [left EXCEPT ![current] = 0]
      /\ callback' = [callback EXCEPT ![current] = "none"]
  BY DEF timer_cancel
<1>4. /\ left' \in [Threads -> 0 .. MaxDelay]
      /\ callback' \in [Threads ->
            {"none", "wait_queue_timeout_handler", "thread_sleep_handler"}]
      /\ \A u \in Threads \ {current} : callback'[u] = callback[u]
  BY <1>1, <1>3 DEF TypeOK
<1> QED BY <1>2, <1>4 DEF TimersOwned

-----------------------------------------------------------------------------
(* The two ways in which a call moves on: it ends in thread_resched(), or  *)
(* it leaves the threads and their queues alone.                           *)

\* Where the current thread may go on to, from outside or inside of a call.
PlainMove(p, o) ==
  /\ p \notin LoopPCs /\ p \notin ResumePCs /\ p # "thread_cleanup_dpc"
  /\ p \in BootPCs <=> pc[current] \in BootPCs
  /\ p \in DpcPCs => current = DpcThread
  /\ p \in MutexPCs => o \in Mutexes

SchedTypes ==
  /\ current \in Threads /\ state \in StateFunctions
  /\ run_queue \in RunQueues /\ run_queue_bitmap \in SUBSET Priorities
  /\ quantum \in [Threads -> 0 .. QUANTUM]
  /\ saved \in [Threads -> Int] /\ crit \in Int

\* A call that ends in thread_resched(), after it made the states st.
LEMMA SwitchStep ==
  ASSUME KernelInv, NEW rq \in RunQueues, NEW bm \in SUBSET Priorities,
         NEW st \in StateFunctions, NEW q \in [Threads -> 0 .. QUANTUM], NEW c \in Int,
         RunQueuesMatch(rq, bm, st, priority), thread_resched(rq, bm, st, q, c),
         NEW p, NEW o, InCall(p, o), PlainMove(p, o), irq[current] = "none",
         UNCHANGED <<priority, dpc_list>>,
         WaitQueuesMatch(wait', wcount', blocking', st),
         \A u \in Threads : st[u] # "RUNNING", st[Bootstrap] = "READY",
         \A u \in Threads : st[u] = "BLOCKED" =>
                              obj'[u] \in Queues /\ blocking'[u] = obj'[u],
         \A u \in Threads : pc'[u] \in TimedPCs => st[u] \in {"BLOCKED", "READY"},
         \A u \in Threads : state[u] = "DEATH" => st[u] = "DEATH",
         \A u \in Threads : state[u] = "SUSPENDED" =>
            st[u] = "SUSPENDED" \/ (pc[current] \in ResumePCs /\ u = obj[current])
  PROVE  /\ SchedTypes' /\ RunQueuesExact' /\ WaitQueuesExact' /\ OneRunning'
         /\ CallsConsistent'
         /\ \A u \in Threads : st[u] # "READY" => state'[u] = st[u]
<1>1. /\ current' \in Threads /\ st[current'] = "READY"
      /\ state' = [st EXCEPT ![current'] = "RUNNING"]
      /\ SchedTypes'
      /\ RunQueuesMatch(run_queue', run_queue_bitmap', state', priority)
  BY ReschedFacts DEF SchedTypes, KernelInv
<1>2. /\ state'[current'] = "RUNNING" /\ state' \in StateFunctions
      /\ \A u \in Threads : u # current' => state'[u] = st[u]
  BY <1>1 DEF StateFunctions, SchedTypes
<1>3. RunQueuesExact'
  BY <1>1 DEF RunQueuesExact
<1>4. WaitQueuesExact'
  BY <1>1, WaitQueuesOtherState DEF WaitQueuesExact
<1>5. CallsConsistent' /\ \A u \in Threads : pc'[u] \notin LoopPCs
  <2>1. \A u \in Threads : state'[u] = "BLOCKED" =>
                             obj'[u] \in Queues /\ blocking'[u] = obj'[u]
    BY <1>1, <1>2
  <2>2. \A u \in Threads : pc'[u] \in TimedPCs =>
                             state'[u] \in {"BLOCKED", "READY", "RUNNING"}
    BY <1>1, <1>2
  <2>3. \A u \in Threads : state[u] = "DEATH" => state'[u] = "DEATH"
    BY <1>1, <1>2
  <2>4. \A u \in Threads : state[u] = "SUSPENDED" =>
          state'[u] = "SUSPENDED" \/ (pc[current] \in ResumePCs /\ u = obj[current])
    BY <1>1, <1>2
  <2>5. UNCHANGED dpc_list /\ state' \in StateFunctions
    BY <1>2
  <2> QED BY <2>1, <2>2, <2>3, <2>4, <2>5, CallFacts, Zenon DEF PlainMove
<1>6. Bootstrap \in Threads
  BY DEF Threads
<1>7. OneRunning'
  BY <1>1, <1>2, <1>5, <1>6 DEF OneRunning, LoopPCs, WakeLoops
<1> QED BY <1>1, <1>2, <1>3, <1>4, <1>5, <1>7

\* A call that moves on and leaves the threads and their queues alone.
LEMMA StayStep ==
  ASSUME KernelInv, NEW p, NEW o, InCall(p, o), PlainMove(p, o),
         irq[current] = "none", pc[current] \notin LoopPCs, p \notin TimedPCs,
         UNCHANGED <<current, state, priority, run_queue, run_queue_bitmap, wait,
                     wcount, blocking, dpc_list>>
  PROVE  RunQueuesExact' /\ WaitQueuesExact' /\ OneRunning' /\ CallsConsistent'
<1>1. RunQueuesExact' /\ WaitQueuesExact'
  BY DEF KernelInv, RunQueuesExact, WaitQueuesExact
<1>2. /\ pc \in [Threads -> PCs] /\ obj \in [Threads -> Queues \cup Threads \cup {NoObject}]
      /\ current \in Threads /\ state \in StateFunctions
  BY DEF KernelInv, TypeOK, StateFunctions
<1>3. /\ pc' = [pc EXCEPT ![current] = p] /\ obj' = [obj EXCEPT ![current] = o]
  BY DEF InCall
<1>4. state[current] = "RUNNING"
  BY DEF KernelInv, OneRunning, LoopPCs, WakeLoops
<1>5. \A u \in Threads : state'[u] = "BLOCKED" =>
                              obj'[u] \in Queues /\ blocking'[u] = obj'[u]
  BY <1>2, <1>3, <1>4 DEF KernelInv, CallsConsistent
<1>6. \A u \in Threads : pc'[u] \in TimedPCs =>
                              state'[u] \in {"BLOCKED", "READY", "RUNNING"}
  BY <1>2, <1>3, <1>4 DEF KernelInv, CallsConsistent
<1>7. CallsConsistent' /\ \A u \in Threads : pc'[u] \notin LoopPCs
  BY <1>2, <1>5, <1>6, CallFacts DEF PlainMove
<1>8. OneRunning'
  BY <1>2, <1>4, <1>7 DEF KernelInv, OneRunning, LoopPCs, WakeLoops
<1> QED BY <1>1, <1>7, <1>8

-----------------------------------------------------------------------------
(* TypeOK by groups of variables, and what KernelInv says of the current   *)
(* thread.                                                                 *)

CallTypes ==
  /\ pc \in [Threads -> PCs]
  /\ obj \in [Threads -> Queues \cup Threads \cup {NoObject}]
  /\ irq \in [Threads -> {"none", "timer_tick", "preempted"}]

WaitTypes ==
  /\ wait \in WaitLists /\ wcount \in [Queues -> Int]
  /\ blocking \in [Threads -> Queues \cup {NoObject}]
  /\ block_ret \in [Threads -> BlockReturns]

TimerTypes ==
  /\ timer_queue \in Seq(Threads) /\ left \in [Threads -> 0 .. MaxDelay]
  /\ callback \in [Threads ->
       {"none", "wait_queue_timeout_handler", "thread_sleep_handler"}]

SyncTypes ==
  /\ count \in [Mutexes -> Int] /\ holder \in [Mutexes -> Threads \cup {NoThread}]
  /\ owned \in [Threads -> SUBSET Mutexes]
  /\ destroyed \in SUBSET (Mutexes \cup Events)
  /\ signalled \in [AllEvents -> BOOLEAN] /\ autounsignal \in [AllEvents -> BOOLEAN]
  /\ dpc_list \in Seq(Threads)

OtherTypes ==
  /\ idle_thread \in {NoThread, Bootstrap} /\ priority \in [Threads -> Priorities]
  /\ ints \in BOOLEAN

\* TypeOK is the conjunction of the groups, before and after a step.
LEMMA TypeParts ==
  /\ TypeOK <=> /\ SchedTypes /\ CallTypes /\ WaitTypes /\ TimerTypes /\ SyncTypes
                /\ OtherTypes
  /\ TypeOK' <=> /\ SchedTypes' /\ CallTypes' /\ WaitTypes' /\ TimerTypes' /\ SyncTypes'
                 /\ OtherTypes'
BY DEF TypeOK, SchedTypes, CallTypes, WaitTypes, TimerTypes, SyncTypes, OtherTypes,
       StateFunctions, RunQueues, WaitLists

\* Outside of the loops the current thread is RUNNING, and it has a timer at
\* most in a call with a timeout.
LEMMA CurrentFacts ==
  ASSUME KernelInv, pc[current] \notin LoopPCs
  PROVE  /\ SchedTypes /\ CallTypes /\ WaitTypes /\ TimerTypes /\ SyncTypes /\ OtherTypes
         /\ state[current] = "RUNNING"
         /\ \A u \in Threads : state[u] = "RUNNING" => u = current
         /\ Bootstrap \in Threads
         /\ current # Bootstrap => state[Bootstrap] = "READY"
         /\ pc[current] \in BootPCs <=> current = Bootstrap
         /\ pc[current] \notin TimedPCs => ~OccursIn(current, timer_queue)
         /\ RunQueuesMatch(run_queue, run_queue_bitmap, state, priority)
         /\ WaitQueuesMatch(wait, wcount, blocking, state)
<1>1. SchedTypes /\ CallTypes /\ WaitTypes /\ TimerTypes /\ SyncTypes /\ OtherTypes
  BY TypeParts DEF KernelInv
<1>2. /\ state[current] = "RUNNING"
      /\ \A u \in Threads : state[u] = "RUNNING" => u = current
      /\ state[Bootstrap] \in {"READY", "RUNNING"} /\ Bootstrap \in Threads
  BY DEF KernelInv, OneRunning, LoopPCs, WakeLoops, Threads
<1>3. pc[current] \notin TimedPCs => ~OccursIn(current, timer_queue)
  BY <1>1, <1>2 DEF KernelInv, TimersOwned, SchedTypes
<1>4. pc[current] \in BootPCs <=> current = Bootstrap
  BY <1>1 DEF KernelInv, CallsConsistent, SchedTypes
<1> QED BY <1>1, <1>2, <1>3, <1>4 DEF KernelInv, RunQueuesExact, WaitQueuesExact

\* Going on to p about o.
LEMMA InCallTypes ==
  ASSUME CallTypes, NEW p \in PCs, NEW o \in Queues \cup Threads \cup {NoObject},
         InCall(p, o)
  PROVE  CallTypes'
BY DEF CallTypes, InCall

-----------------------------------------------------------------------------
(* Calls that block, and calls that wake.                                  *)

\* wait_queue_block(), with the timer if there is a timeout.
LEMMA BlockStep ==
  ASSUME KernelInv, NEW o \in Queues, NEW timeout, NEW p \in PCs,
         irq[current] = "none", wait_queue_block(o, timeout), InCall(p, o),
         PlainMove(p, o), pc[current] \notin LoopPCs \cup TimedPCs \cup BootPCs,
         \/ timeout = INFINITE_TIME
         \/ timeout \in 1 .. MaxDelay /\ p \in TimedPCs,
         UNCHANGED <<priority, dpc_list>>
  PROVE  /\ SchedTypes' /\ CallTypes' /\ WaitTypes' /\ TimerTypes'
         /\ RunQueuesExact' /\ WaitQueuesExact' /\ OneRunning' /\ CallsConsistent'
         /\ TimersOwned'
<1>1. /\ SchedTypes /\ CallTypes /\ WaitTypes /\ TimerTypes /\ OtherTypes
      /\ state[current] = "RUNNING" /\ current # Bootstrap /\ Bootstrap \in Threads
      /\ \A u \in Threads : state[u] = "RUNNING" => u = current
      /\ state[Bootstrap] = "READY" /\ ~OccursIn(current, timer_queue)
      /\ RunQueuesMatch(run_queue, run_queue_bitmap, state, priority)
      /\ WaitQueuesMatch(wait, wcount, blocking, state)
  BY CurrentFacts
<1> DEFINE st == [state EXCEPT ![current] = "BLOCKED"]
<1>2. /\ st \in StateFunctions /\ st[current] = "BLOCKED"
      /\ \A u \in Threads : u # current => st[u] = state[u]
  BY <1>1 DEF SchedTypes, StateFunctions, ThreadStates
<1>3. /\ wait' = [wait EXCEPT ![o] = Append(@, current)]
      /\ wcount' = [wcount EXCEPT ![o] = @ + 1]
      /\ blocking' = [blocking EXCEPT ![current] = o]
      /\ block_ret' = [block_ret EXCEPT ![current] = NO_ERROR]
      /\ thread_resched(run_queue, run_queue_bitmap, st, quantum, crit + 2)
  BY DEF wait_queue_block
<1>4. /\ wait' \in WaitLists /\ WaitQueuesMatch(wait', wcount', blocking', st)
  BY <1>1, <1>3, BlockFacts DEF SchedTypes, WaitTypes
<1>5. WaitTypes'
  <2>1. NO_ERROR \in BlockReturns
    BY DEF BlockReturns
  <2>2. /\ wcount \in [Queues -> Int] /\ blocking \in [Threads -> Queues \cup {NoObject}]
        /\ block_ret \in [Threads -> BlockReturns]
    BY <1>1 DEF WaitTypes
  <2>3. wcount' \in [Queues -> Int]
    BY <2>2, <1>3
  <2>4. blocking' \in [Threads -> Queues \cup {NoObject}]
    BY <2>2, <1>3
  <2>5. block_ret' \in [Threads -> BlockReturns]
    BY <2>1, <2>2, <1>3
  <2> QED BY <2>3, <2>4, <2>5, <1>4 DEF WaitTypes
<1>6. RunQueuesMatch(run_queue, run_queue_bitmap, st, priority)
  BY <1>1, RunQueuesOtherState DEF SchedTypes
<1>7. /\ \A u \in Threads : u # current => pc'[u] = pc[u] /\ obj'[u] = obj[u]
      /\ pc'[current] = p /\ obj'[current] = o
  BY <1>1 DEF InCall, CallTypes, SchedTypes
<1>8. \A u \in Threads : st[u] = "BLOCKED" => obj'[u] \in Queues /\ blocking'[u] = obj'[u]
  <2> HIDE DEF st
  <2>1. /\ blocking'[current] = o
        /\ \A u \in Threads : u # current => blocking'[u] = blocking[u]
    BY <1>1, <1>3 DEF WaitTypes, SchedTypes
  <2>2. \A u \in Threads : state[u] = "BLOCKED" => obj[u] \in Queues /\ blocking[u] = obj[u]
    BY DEF KernelInv, CallsConsistent
  <2> QED BY <2>1, <2>2, <1>2, <1>7
<1>9. \A u \in Threads : pc'[u] \in TimedPCs => st[u] \in {"BLOCKED", "READY"}
  BY <1>1, <1>2, <1>7 DEF KernelInv, CallsConsistent
<1>10. \A u \in Threads :
         /\ st[u] # "RUNNING"
         /\ state[u] = "DEATH" => st[u] = "DEATH"
         /\ state[u] = "SUSPENDED" => st[u] = "SUSPENDED"
  BY <1>1, <1>2
<1>11. st[Bootstrap] = "READY" /\ crit + 2 \in Int
  BY <1>1, <1>2 DEF SchedTypes
<1>12. \A u \in Threads : state[u] = "SLEEPING" => st[u] = "SLEEPING"
  BY <1>1, <1>2
<1> HIDE DEF st
<1>13. /\ SchedTypes' /\ RunQueuesExact' /\ WaitQueuesExact' /\ OneRunning'
       /\ CallsConsistent'
       /\ \A u \in Threads : st[u] # "READY" => state'[u] = st[u]
  <2>1. /\ run_queue \in RunQueues /\ run_queue_bitmap \in SUBSET Priorities
        /\ quantum \in [Threads -> 0 .. QUANTUM]
    BY <1>1 DEF SchedTypes
  <2> QED BY <2>1, <1>2, <1>3, <1>4, <1>6, <1>8, <1>9, <1>10, <1>11, SwitchStep, ZenonT(40)
<1>14. TimersOwned' /\ TimerTypes'
  <2>1. /\ \A u \in Threads : state[u] = "SLEEPING" => state'[u] = "SLEEPING"
        /\ \A u \in Threads : pc[u] \in TimedPCs => pc'[u] \in TimedPCs
    BY <1>7, <1>12, <1>13
  <2>2. CASE timeout = INFINITE_TIME
    <3>1. UNCHANGED timerVars
      BY <2>2 DEF wait_queue_block
    <3> QED BY <3>1, <2>1, <1>1, TimersKept DEF timerVars, TimerTypes, KernelInv
  <2>3. CASE timeout \in 1 .. MaxDelay /\ p \in TimedPCs
    <3>1. timer_set_oneshot(current, timeout, "wait_queue_timeout_handler")
      BY <2>3 DEF wait_queue_block, INFINITE_TIME
    <3> QED BY <3>1, <2>1, <2>3, <1>1, <1>7, TimerSet DEF TimerTypes, KernelInv
  <2> QED BY <2>2, <2>3
<1>15. CallTypes'
  BY <1>1, InCallTypes
<1> QED BY <1>5, <1>13, <1>14, <1>15

\* The first waiter of a queue, taken off its list.
LEMMA FirstWaiter ==
  ASSUME KernelInv, NEW o \in Queues, wait[o] # <<>>
  PROVE  LET t == Head(wait[o])
             list == Tail(wait[o])
         IN  /\ t \in Threads /\ OccursIn(t, wait[o]) /\ list \in Seq(Threads)
             /\ Distinct(list) /\ Len(list) = Len(wait[o]) - 1
             /\ \A u : OccursIn(u, list) <=> OccursIn(u, wait[o]) /\ u # t
             /\ state[t] = "BLOCKED" /\ blocking[t] = o
<1>1. wait[o] \in Seq(Threads) /\ Distinct(wait[o])
  BY DEF KernelInv, TypeOK, WaitQueuesExact, WaitQueuesMatch
<1>2. LET t == Head(wait[o])
          list == Tail(wait[o])
      IN  /\ t \in Threads /\ OccursIn(t, wait[o]) /\ list \in Seq(Threads)
          /\ Distinct(list) /\ Len(list) = Len(wait[o]) - 1
          /\ \A u : OccursIn(u, list) <=> OccursIn(u, wait[o]) /\ u # t
  BY <1>1, TailFacts
<1> QED BY <1>2 DEF KernelInv, WaitQueuesExact, WaitQueuesMatch

\* wait_queue_wake_one() with a reschedule, by a call that ends in wake_return.
LEMMA WakeOneStep ==
  ASSUME KernelInv, NEW o \in Queues, NEW ret \in BlockReturns, wait[o] # <<>>,
         pc[current] = "user", irq[current] = "none",
         wait_queue_wake_one_resched(o, ret), InCall("wake_return", NoObject),
         UNCHANGED <<priority, dpc_list, timerVars>>
  PROVE  /\ SchedTypes' /\ CallTypes' /\ WaitTypes' /\ TimerTypes'
         /\ RunQueuesExact' /\ WaitQueuesExact' /\ OneRunning' /\ CallsConsistent'
         /\ TimersOwned'
<1> DEFINE t == Head(wait[o])
           list == Tail(wait[o])
           st1 == [state EXCEPT ![current] = "READY"]
           st == [state EXCEPT ![current] = "READY", ![t] = "READY"]
           rq1 == insert_in_run_queue_head(run_queue, current)
           rq == insert_in_run_queue_head(rq1, t)
           bm == run_queue_bitmap \cup {priority[current], priority[t]}
<1>0. "user" \notin LoopPCs \cup TimedPCs \cup BootPCs \cup ResumePCs
  BY DEF LoopPCs, WakeLoops, TimedPCs, BootPCs, ResumePCs
<1>1. /\ SchedTypes /\ CallTypes /\ WaitTypes /\ TimerTypes /\ OtherTypes
      /\ state[current] = "RUNNING" /\ current # Bootstrap /\ Bootstrap \in Threads
      /\ \A u \in Threads : state[u] = "RUNNING" => u = current
      /\ state[Bootstrap] = "READY"
      /\ RunQueuesMatch(run_queue, run_queue_bitmap, state, priority)
      /\ WaitQueuesMatch(wait, wcount, blocking, state)
  BY <1>0, CurrentFacts
<1>2. /\ t \in Threads /\ OccursIn(t, wait[o]) /\ list \in Seq(Threads)
      /\ Distinct(list) /\ Len(list) = Len(wait[o]) - 1
      /\ \A u : OccursIn(u, list) <=> OccursIn(u, wait[o]) /\ u # t
      /\ state[t] = "BLOCKED"
  BY FirstWaiter
<1>3. Unlink(o, list, t, ret) /\ thread_resched(rq, bm, st, quantum, crit + 1)
  BY DEF wait_queue_wake_one_resched
<1> HIDE DEF t, list
<1>4. /\ current \in Threads /\ state \in StateFunctions /\ run_queue \in RunQueues
      /\ run_queue_bitmap \in SUBSET Priorities /\ priority \in [Threads -> Priorities]
      /\ quantum \in [Threads -> 0 .. QUANTUM] /\ crit + 1 \in Int
  BY <1>1 DEF SchedTypes, OtherTypes
<1>5. /\ RunQueuesMatch(rq1, run_queue_bitmap \cup {priority[current]}, st1, priority)
      /\ st1 \in StateFunctions /\ rq1 \in RunQueues
      /\ run_queue_bitmap \cup {priority[current]} \in SUBSET Priorities
  BY <1>1, <1>4, InsertInRunQueue
<1>6. st1[t] = "BLOCKED" /\ [st1 EXCEPT ![t] = "READY"] = st
  BY <1>1, <1>2, <1>4 DEF StateFunctions
<1>7. (run_queue_bitmap \cup {priority[current]}) \cup {priority[t]} = bm
  OBVIOUS
<1> HIDE DEF rq1, bm, st1
<1>8. /\ RunQueuesMatch(rq, bm, st, priority) /\ rq \in RunQueues /\ st \in StateFunctions
      /\ bm \in SUBSET Priorities
  BY <1>2, <1>4, <1>5, <1>6, <1>7, InsertInRunQueue
<1>9. /\ st[current] = "READY" /\ st[t] = "READY"
      /\ \A u \in Threads : u # t /\ u # current => st[u] = state[u]
  BY <1>2, <1>4 DEF StateFunctions
<1>10. WaitQueuesMatch(wait, wcount, blocking, st1)
  BY <1>1, <1>4, WaitQueuesOtherState DEF st1
<1>11. /\ WaitQueuesMatch(wait', wcount', blocking', [st1 EXCEPT ![t] = "READY"])
       /\ WaitTypes' /\ \A u \in Threads \ {t} : blocking'[u] = blocking[u]
  BY <1>2, <1>3, <1>5, <1>10, UnlinkFacts DEF WaitTypes, KernelInv
<1> HIDE DEF rq, st
<1>12. /\ \A u \in Threads : u # current => pc'[u] = pc[u] /\ obj'[u] = obj[u]
       /\ pc'[current] = "wake_return"
  BY <1>1, <1>4 DEF InCall, CallTypes
<1>13. \A u \in Threads : st[u] = "BLOCKED" => obj'[u] \in Queues /\ blocking'[u] = obj'[u]
  BY <1>9, <1>11, <1>12 DEF KernelInv, CallsConsistent
<1>14. \A u \in Threads : pc'[u] \in TimedPCs => st[u] \in {"BLOCKED", "READY"}
  BY <1>1, <1>9, <1>12 DEF KernelInv, CallsConsistent
<1>15. \A u \in Threads :
         /\ st[u] # "RUNNING"
         /\ state[u] = "DEATH" => st[u] = "DEATH"
         /\ state[u] = "SUSPENDED" => st[u] = "SUSPENDED"
         /\ state[u] = "SLEEPING" => st[u] = "SLEEPING"
  BY <1>1, <1>2, <1>9
<1>16. st[Bootstrap] = "READY"
  BY <1>1, <1>9
<1>17. PlainMove("wake_return", NoObject)
  BY <1>0 DEF PlainMove, LoopPCs, WakeLoops, ResumePCs, BootPCs, DpcPCs, MutexPCs
<1>18. /\ SchedTypes' /\ RunQueuesExact' /\ WaitQueuesExact' /\ OneRunning'
       /\ CallsConsistent'
       /\ \A u \in Threads : st[u] # "READY" => state'[u] = st[u]
  BY <1>3, <1>4, <1>6, <1>8, <1>11, <1>13, <1>14, <1>15, <1>16, <1>17, SwitchStep
<1>19. TimersOwned' /\ TimerTypes'
  <2>1. /\ \A u \in Threads : state[u] = "SLEEPING" => state'[u] = "SLEEPING"
        /\ \A u \in Threads : pc[u] \in TimedPCs => pc'[u] \in TimedPCs
    BY <1>0, <1>12, <1>15, <1>18
  <2> QED BY <2>1, <1>1, TimersKept DEF timerVars, TimerTypes, KernelInv
<1>20. CallTypes'
  <2>1. "wake_return" \in PCs
    BY DEF PCs
  <2> QED BY <2>1, <1>1, InCallTypes
<1> QED BY <1>11, <1>18, <1>19, <1>20

\* A waiter t of o becomes READY while the current thread runs on.
LEMMA MakeReadyStep ==
  ASSUME KernelInv, NEW o \in Queues, NEW ret \in BlockReturns, NEW t \in Threads,
         NEW list \in Seq(Threads), OccursIn(t, wait[o]),
         Distinct(list), Len(list) = Len(wait[o]) - 1,
         \A u : OccursIn(u, list) <=> OccursIn(u, wait[o]) /\ u # t,
         MakeReady(o, list, t, ret),
         UNCHANGED <<current, priority, ints, callVars, dpc_list>>
  PROVE  /\ state' \in StateFunctions /\ WaitTypes'
         /\ run_queue' \in RunQueues /\ run_queue_bitmap' \in SUBSET Priorities
         /\ RunQueuesExact' /\ WaitQueuesExact' /\ OneRunning' /\ CallsConsistent'
         /\ state[t] = "BLOCKED"
         /\ \A u \in Threads : state[u] = "SLEEPING" => state'[u] = "SLEEPING"
<1>1. /\ SchedTypes /\ WaitTypes /\ OtherTypes
      /\ RunQueuesMatch(run_queue, run_queue_bitmap, state, priority)
      /\ WaitQueuesMatch(wait, wcount, blocking, state)
  BY TypeParts DEF KernelInv, RunQueuesExact, WaitQueuesExact
<1>2. /\ state' = [state EXCEPT ![t] = "READY"] /\ Unlink(o, list, t, ret)
      /\ run_queue' = insert_in_run_queue_head(run_queue, t)
      /\ run_queue_bitmap' = run_queue_bitmap \cup {priority[t]}
  BY DEF MakeReady
<1>3. state \in StateFunctions /\ state[t] = "BLOCKED"
  BY <1>1 DEF SchedTypes, WaitQueuesMatch
<1>4. /\ run_queue' \in RunQueues /\ run_queue_bitmap' \in SUBSET Priorities
      /\ RunQueuesMatch(run_queue', run_queue_bitmap', state', priority)
      /\ state' \in StateFunctions
  BY <1>1, <1>2, <1>3, InsertInRunQueue DEF SchedTypes, OtherTypes
<1>5. /\ WaitQueuesMatch(wait', wcount', blocking', state') /\ WaitTypes'
      /\ \A u \in Threads \ {t} : blocking'[u] = blocking[u]
  BY <1>1, <1>2, <1>3, UnlinkFacts DEF WaitTypes, KernelInv
<1>6. state'[t] = "READY" /\ \A u \in Threads : u # t => state'[u] = state[u]
  BY <1>2, <1>3 DEF StateFunctions
<1>7. current \in Threads /\ t # current /\ t # Bootstrap
  BY <1>1, <1>3 DEF KernelInv, OneRunning, SchedTypes
<1>8. OneRunning'
  BY <1>6, <1>7 DEF KernelInv, OneRunning, callVars, Threads
<1>9. CallsConsistent'
  BY <1>3, <1>5, <1>6 DEF KernelInv, CallsConsistent, callVars
<1> QED BY <1>3, <1>4, <1>5, <1>6, <1>8, <1>9 DEF RunQueuesExact, WaitQueuesExact

-----------------------------------------------------------------------------
(* Calls that enter a loop inside a critical section.                      *)

\* A worker enters one of the loops, or the rest of thread_exit(), in state x.
LEMMA LoopFacts ==
  ASSUME KernelInv, Calls("user"), NEW p \in LoopPCs, NEW o \in Queues, InCall(p, o),
         ints' = FALSE, UNCHANGED <<current, blocking, timerVars>>,
         NEW x \in {"READY", "RUNNING", "DEATH"}, state' = [state EXCEPT ![current] = x],
         \/ UNCHANGED dpc_list
         \/ x = "DEATH" /\ dpc_list' = Append(dpc_list, current)
  PROVE  CallTypes' /\ TimersOwned' /\ CallsConsistent' /\ dpc_list' \in Seq(Threads)
<1>0. "user" \notin LoopPCs \cup TimedPCs \cup BootPCs \cup ResumePCs \cup DpcPCs
  BY DEF LoopPCs, WakeLoops, TimedPCs, BootPCs, ResumePCs, DpcPCs
<1>1. p \notin TimedPCs \cup BootPCs \cup ResumePCs \cup DpcPCs \cup MutexPCs /\ p \in PCs
  BY DEF LoopPCs, WakeLoops, TimedPCs, BootPCs, ResumePCs, DpcPCs, MutexPCs, PCs
<1>2. irq[current] = "none" /\ pc[current] = "user"
  BY DEF Calls
<1>3. /\ current \in Threads /\ state \in StateFunctions /\ CallTypes /\ SyncTypes
      /\ state[current] = "RUNNING" /\ ~OccursIn(current, timer_queue)
  BY <1>0, <1>2, CurrentFacts DEF SchedTypes
<1>4. CallTypes'
  BY <1>1, <1>3, InCallTypes
<1>5. /\ pc'[current] = p /\ obj'[current] = o /\ irq' = irq
      /\ \A u \in Threads : u # current => pc'[u] = pc[u] /\ obj'[u] = obj[u]
  BY <1>3 DEF InCall, CallTypes
<1>6. state'[current] = x /\ \A u \in Threads : u # current => state'[u] = state[u]
  BY <1>3 DEF StateFunctions
<1>7. TimersOwned'
  BY <1>3, <1>5, <1>6 DEF KernelInv, TimersOwned, timerVars
<1>8. CallsConsistent
  BY DEF KernelInv
<1>9. ~OccursIn(current, dpc_list) /\ Distinct(dpc_list) /\ dpc_list \in Seq(Threads)
  BY <1>3, <1>8 DEF CallsConsistent, SyncTypes
<1>10. /\ Distinct(dpc_list') /\ dpc_list' \in Seq(Threads)
       /\ \A u \in Threads : OccursIn(u, dpc_list') =>
                               OccursIn(u, dpc_list) \/ (u = current /\ x = "DEATH")
  <2>1. CASE UNCHANGED dpc_list
    BY <2>1, <1>9
  <2>2. CASE x = "DEATH" /\ dpc_list' = Append(dpc_list, current)
    <3>1. /\ Distinct(dpc_list') /\ dpc_list' \in Seq(Threads)
          /\ \A u : OccursIn(u, dpc_list') <=> OccursIn(u, dpc_list) \/ u = current
      BY <2>2, <1>3, <1>9, AppendFacts
    <3> QED BY <3>1, <2>2
  <2> QED BY <2>1, <2>2
<1>11. ASSUME NEW t \in Threads
       PROVE  /\ pc'[t] \in BootPCs <=> t = Bootstrap
              /\ pc'[t] \in DpcPCs => t = DpcThread
              /\ pc'[t] \in LoopPCs => t = current /\ irq'[t] = "none"
              /\ pc'[t] \in WakeLoops => obj'[t] \in Queues
              /\ irq'[t] # "timer_tick"
              /\ state'[t] = "BLOCKED" => obj'[t] \in Queues /\ blocking'[t] = obj'[t]
              /\ pc'[t] \in MutexPCs => obj'[t] \in Mutexes
              /\ pc'[t] \in TimedPCs => state'[t] \in {"BLOCKED", "READY", "RUNNING"}
  <2>1. CASE t = current
    BY <2>1, <1>0, <1>1, <1>2, <1>5, <1>6, <1>8 DEF CallsConsistent
  <2>2. CASE t # current
    <3>1. WakeLoops \subseteq LoopPCs
      BY DEF LoopPCs
    <3> QED BY <3>1, <2>2, <1>2, <1>5, <1>6, <1>8 DEF CallsConsistent, MutexPCs
  <2> QED BY <2>1, <2>2
<1>12. ASSUME NEW t \in Threads, pc'[t] \in ResumePCs
       PROVE  /\ pc[t] \in ResumePCs /\ obj'[t] = obj[t]
              /\ obj[t] \in Threads /\ state'[obj[t]] = "SUSPENDED"
  BY <1>1, <1>3, <1>5, <1>6, <1>8, <1>12 DEF CallsConsistent
<1>13. ASSUME NEW t \in Threads, pc'[t] = "thread_cleanup_dpc"
       PROVE  /\ obj'[t] \in Threads /\ state'[obj'[t]] = "DEATH"
              /\ ~OccursIn(obj'[t], dpc_list')
  <2>1. "thread_cleanup_dpc" \in DpcPCs
    BY DEF DpcPCs
  <2>2. t # current /\ pc[t] = "thread_cleanup_dpc" /\ obj'[t] = obj[t]
    BY <2>1, <1>1, <1>5, <1>13
  <2>3. obj[t] \in Threads /\ state[obj[t]] = "DEATH" /\ ~OccursIn(obj[t], dpc_list)
    BY <2>2, <1>8 DEF CallsConsistent
  <2>4. obj[t] # current
    BY <2>3, <1>3
  <2> QED BY <2>2, <2>3, <2>4, <1>6, <1>10
<1>14. \A t \in Threads : OccursIn(t, dpc_list') => state'[t] = "DEATH"
  <2>1. \A t \in Threads : OccursIn(t, dpc_list) => state[t] = "DEATH"
    BY <1>8 DEF CallsConsistent
  <2> QED BY <2>1, <1>6, <1>9, <1>10
<1>15. \A t, u \in Threads :
         pc'[t] \in ResumePCs /\ pc'[u] \in ResumePCs /\ obj'[t] = obj'[u] => t = u
  BY <1>8, <1>12 DEF CallsConsistent
<1>16. CallsConsistent'
  BY <1>10, <1>11, <1>12, <1>13, <1>14, <1>15 DEF CallsConsistent, MutexPCs
<1> QED BY <1>4, <1>7, <1>10, <1>16

\* The start of wait_queue_wake_all().
LEMMA WakeAllBeginStep ==
  ASSUME KernelInv, NEW o \in Queues, Calls("user"),
         NEW p \in {"signal_all", "signal_all_noresched", "destroy_all"},
         wait_queue_wake_all_begin(o, p), UNCHANGED <<waitVars, timerVars, dpc_list>>
  PROVE  /\ SchedTypes' /\ CallTypes' /\ WaitTypes' /\ TimerTypes' /\ OtherTypes'
         /\ RunQueuesExact' /\ WaitQueuesExact' /\ OneRunning' /\ CallsConsistent'
         /\ TimersOwned'
<1>0. "user" \notin LoopPCs \cup BootPCs /\ {p, "signal_all_noresched"} \subseteq LoopPCs
  BY DEF LoopPCs, WakeLoops, BootPCs
<1>1. /\ pc[current] = "user"
      /\ SchedTypes /\ CallTypes /\ WaitTypes /\ TimerTypes /\ OtherTypes
      /\ state[current] = "RUNNING" /\ Bootstrap \in Threads /\ current # Bootstrap
      /\ \A u \in Threads : state[u] = "RUNNING" => u = current
      /\ state[Bootstrap] = "READY"
      /\ RunQueuesMatch(run_queue, run_queue_bitmap, state, priority)
      /\ WaitQueuesMatch(wait, wcount, blocking, state)
  BY <1>0, CurrentFacts DEF Calls
<1>2. /\ crit' = crit + 1 /\ ints' = FALSE
      /\ UNCHANGED <<current, idle_thread, priority, quantum, saved>>
  BY DEF wait_queue_wake_all_begin, enter_critical_section, Calls
<1>3. state \in StateFunctions /\ current \in Threads
  BY <1>1 DEF SchedTypes
<1>4. UNCHANGED <<wait, wcount, blocking>> /\ WaitTypes' /\ TimerTypes' /\ OtherTypes'
  BY <1>1, <1>2 DEF waitVars, timerVars, WaitTypes, TimerTypes, OtherTypes
<1>5. CASE p # "signal_all_noresched" /\ wcount[o] > 0
  <2>1. /\ state' = [state EXCEPT ![current] = "READY"] /\ InCall(p, o)
        /\ run_queue' = insert_in_run_queue_head(run_queue, current)
        /\ run_queue_bitmap' = run_queue_bitmap \cup {priority[current]}
    BY <1>5 DEF wait_queue_wake_all_begin
  <2>2. /\ run_queue' \in RunQueues /\ run_queue_bitmap' \in SUBSET Priorities
        /\ state' \in StateFunctions
        /\ RunQueuesMatch(run_queue', run_queue_bitmap', state', priority)
    BY <1>1, <2>1, InsertInRunQueue DEF SchedTypes, OtherTypes
  <2>3. WaitQueuesMatch(wait', wcount', blocking', state')
    BY <1>1, <1>3, <1>4, <2>1, WaitQueuesOtherState
  <2>4. SchedTypes'
    BY <1>1, <1>2, <2>2 DEF SchedTypes
  <2>5. CallTypes' /\ TimersOwned' /\ CallsConsistent'
    BY <1>0, <1>2, <1>4, <2>1, LoopFacts
  <2>6. /\ state'[current] = "READY" /\ pc'[current] = p
        /\ \A u \in Threads : u # current => state'[u] = state[u]
    BY <1>1, <1>3, <2>1 DEF StateFunctions, InCall, CallTypes
  <2>7. OneRunning'
    BY <1>1, <1>2, <1>3, <1>5, <2>6 DEF OneRunning
  <2> QED BY <1>2, <1>4, <2>2, <2>3, <2>4, <2>5, <2>7 DEF RunQueuesExact, WaitQueuesExact
<1>6. CASE ~(p # "signal_all_noresched" /\ wcount[o] > 0)
  <2>1. /\ UNCHANGED <<state, run_queue, run_queue_bitmap>>
        /\ InCall("signal_all_noresched", o)
    BY <1>6 DEF wait_queue_wake_all_begin
  <2>2. state' = [state EXCEPT ![current] = "RUNNING"]
    BY <1>1, <1>3, <2>1 DEF StateFunctions
  <2>3. CallTypes' /\ TimersOwned' /\ CallsConsistent'
    BY <1>0, <1>2, <1>4, <2>1, <2>2, LoopFacts
  <2>4. SchedTypes'
    BY <1>1, <1>2, <2>1 DEF SchedTypes
  <2>5. pc'[current] = "signal_all_noresched"
    BY <1>1, <1>3, <2>1 DEF InCall, CallTypes
  <2>6. OneRunning'
    BY <1>1, <1>2, <2>1, <2>5 DEF OneRunning
  <2> QED BY <1>1, <1>2, <1>4, <2>1, <2>3, <2>4, <2>6 DEF RunQueuesExact, WaitQueuesExact
<1> QED BY <1>5, <1>6

-----------------------------------------------------------------------------
(* The remaining calls that end in thread_resched().                       *)

\* thread_yield() and thread_resume() put the current thread at the tail of its
\* run queue; st are the states, rq and bm the run queues before that.
LEMMA YieldStep ==
  ASSUME KernelInv, NEW rq \in RunQueues, NEW bm \in SUBSET Priorities,
         NEW st \in StateFunctions, NEW c \in Int,
         RunQueuesMatch(rq, bm, st, priority), thread_yield(rq, bm, st, c),
         pc[current] \notin LoopPCs \cup TimedPCs, irq[current] = "none",
         NEW p \in PCs, p \notin TimedPCs, InCall(p, NoObject), PlainMove(p, NoObject),
         UNCHANGED <<priority, waitVars, timerVars, dpc_list>>,
         \A u \in Threads : st[u] # state[u] =>
            /\ state[u] = "SUSPENDED" /\ st[u] = "READY"
            /\ pc[current] \in ResumePCs /\ u = obj[current]
  PROVE  /\ SchedTypes' /\ CallTypes' /\ WaitTypes' /\ TimerTypes'
         /\ RunQueuesExact' /\ WaitQueuesExact' /\ OneRunning' /\ CallsConsistent'
         /\ TimersOwned'
<1>1. /\ SchedTypes /\ CallTypes /\ WaitTypes /\ TimerTypes /\ OtherTypes
      /\ state[current] = "RUNNING" /\ Bootstrap \in Threads
      /\ \A u \in Threads : state[u] = "RUNNING" => u = current
      /\ current # Bootstrap => state[Bootstrap] = "READY"
      /\ WaitQueuesMatch(wait, wcount, blocking, state)
  BY CurrentFacts
<1> DEFINE st1 == [st EXCEPT ![current] = "READY"]
           rq1 == insert_in_run_queue_tail(rq, current)
           bm1 == bm \cup {priority[current]}
           q == [quantum EXCEPT ![current] = 0]
<1>2. /\ current \in Threads /\ priority \in [Threads -> Priorities]
      /\ state \in StateFunctions /\ st[current] = "RUNNING"
  BY <1>1 DEF SchedTypes, OtherTypes
<1>3. thread_resched(rq1, bm1, st1, q, c + 1)
  BY DEF thread_yield
<1>4. /\ RunQueuesMatch(rq1, bm1, st1, priority) /\ rq1 \in RunQueues
      /\ st1 \in StateFunctions /\ bm1 \in SUBSET Priorities
  BY <1>2, InsertInRunQueue
<1>5. st1[current] = "READY" /\ \A u \in Threads : u # current => st1[u] = st[u]
  BY <1>2 DEF StateFunctions
<1>6. q \in [Threads -> 0 .. QUANTUM] /\ c + 1 \in Int
  BY <1>1, PrioritiesAssumption DEF SchedTypes
<1>7. UNCHANGED <<wait, wcount, blocking>> /\ WaitTypes' /\ TimerTypes'
  BY <1>1 DEF waitVars, timerVars, WaitTypes, TimerTypes
<1> HIDE DEF st1, rq1, bm1, q
<1>8. WaitQueuesMatch(wait', wcount', blocking', st1)
  <2>1. \A u \in Threads : st1[u] = "BLOCKED" <=> state[u] = "BLOCKED"
    BY <1>1, <1>5
  <2> QED BY <2>1, <1>1, <1>7 DEF WaitQueuesMatch
<1>9. /\ pc'[current] = p
      /\ \A u \in Threads : u # current => pc'[u] = pc[u] /\ obj'[u] = obj[u]
  BY <1>1, <1>2 DEF InCall, CallTypes
<1>10. \A u \in Threads :
         /\ st1[u] # "RUNNING"
         /\ state[u] = "DEATH" => st1[u] = "DEATH"
         /\ state[u] = "SLEEPING" => st1[u] = "SLEEPING"
         /\ state[u] = "SUSPENDED" =>
              st1[u] = "SUSPENDED" \/ (pc[current] \in ResumePCs /\ u = obj[current])
  BY <1>1, <1>5
<1>11. st1[Bootstrap] = "READY"
  BY <1>1, <1>5
<1>12. \A u \in Threads : st1[u] = "BLOCKED" => obj'[u] \in Queues /\ blocking'[u] = obj'[u]
  <2>1. \A u \in Threads : state[u] = "BLOCKED" => obj[u] \in Queues /\ blocking[u] = obj[u]
    BY DEF KernelInv, CallsConsistent
  <2> QED BY <2>1, <1>5, <1>7, <1>9
<1>13. \A u \in Threads : pc'[u] \in TimedPCs => st1[u] \in {"BLOCKED", "READY"}
  <2>1. \A u \in Threads : pc[u] \in TimedPCs => state[u] \in {"BLOCKED", "READY", "RUNNING"}
    BY DEF KernelInv, CallsConsistent
  <2> QED BY <2>1, <1>1, <1>5, <1>9
<1>14. /\ SchedTypes' /\ RunQueuesExact' /\ WaitQueuesExact' /\ OneRunning'
       /\ CallsConsistent'
       /\ \A u \in Threads : st1[u] # "READY" => state'[u] = st1[u]
  BY <1>3, <1>4, <1>6, <1>8, <1>10, <1>11, <1>12, <1>13, SwitchStep
<1>15. TimersOwned'
  <2>1. /\ \A u \in Threads : state[u] = "SLEEPING" => state'[u] = "SLEEPING"
        /\ \A u \in Threads : pc[u] \in TimedPCs => pc'[u] \in TimedPCs
    BY <1>9, <1>10, <1>14
  <2> QED BY <2>1, TimersKept DEF timerVars, KernelInv
<1>16. CallTypes'
  BY <1>1, InCallTypes
<1> QED BY <1>7, <1>14, <1>15, <1>16

\* thread_resume() of the suspended thread that the call is about.
LEMMA ResumeStep ==
  ASSUME KernelInv, pc[current] \in ResumePCs, irq[current] = "none",
         NEW p \in PCs, p \notin TimedPCs, PlainMove(p, NoObject),
         thread_resume(obj[current], p)
  PROVE  KernelInv'
<1> DEFINE t == obj[current]
           st == [state EXCEPT ![t] = "READY"]
           rq == insert_in_run_queue_head(run_queue, t)
           bm == run_queue_bitmap \cup {priority[t]}
<1>0. pc[current] \notin LoopPCs \cup TimedPCs
  BY DEF ResumePCs, LoopPCs, WakeLoops, TimedPCs
<1>1. /\ SchedTypes /\ SyncTypes /\ OtherTypes
      /\ RunQueuesMatch(run_queue, run_queue_bitmap, state, priority)
  BY <1>0, CurrentFacts
<1>2. t \in Threads /\ state[t] = "SUSPENDED" /\ state \in StateFunctions /\ crit + 1 \in Int
  BY <1>1 DEF KernelInv, CallsConsistent, SchedTypes
<1>3. /\ RunQueuesMatch(rq, bm, st, priority) /\ rq \in RunQueues
      /\ st \in StateFunctions /\ bm \in SUBSET Priorities
  BY <1>1, <1>2, InsertInRunQueue DEF SchedTypes, OtherTypes
<1>4. \A u \in Threads : st[u] # state[u] => u = t /\ st[u] = "READY"
  BY <1>2 DEF StateFunctions
<1>5. /\ thread_yield(rq, bm, st, crit + 1) /\ InCall(p, NoObject) /\ disable_ints
      /\ UNCHANGED <<idle_thread, priority, waitVars, timerVars, syncVars, dpc_list>>
  BY DEF thread_resume
<1>6. SyncTypes' /\ OtherTypes'
  BY <1>1, <1>5 DEF SyncTypes, OtherTypes, syncVars, mutexVars, eventVars, disable_ints
<1> HIDE DEF st, rq, bm
<1>7. /\ SchedTypes' /\ CallTypes' /\ WaitTypes' /\ TimerTypes'
      /\ RunQueuesExact' /\ WaitQueuesExact' /\ OneRunning' /\ CallsConsistent'
      /\ TimersOwned'
  BY <1>0, <1>2, <1>3, <1>4, <1>5, YieldStep
<1> QED BY <1>6, <1>7, TypeParts DEF KernelInv

\* thread_sleep(): SLEEPING, with a timer.
LEMMA SleepStep ==
  ASSUME KernelInv, thread_sleep
  PROVE  KernelInv'
<1> DEFINE st == [state EXCEPT ![current] = "SLEEPING"]
           p == "switch_return"
<1>0. /\ "user" \notin LoopPCs \cup TimedPCs \cup BootPCs /\ p \in PCs
      /\ pc[current] = "user" /\ irq[current] = "none" /\ PlainMove(p, NoObject)
      /\ p \notin TimedPCs
  BY DEF LoopPCs, WakeLoops, TimedPCs, BootPCs, ResumePCs, DpcPCs, MutexPCs, PCs,
         thread_sleep, Calls, PlainMove
<1>1. /\ SchedTypes /\ CallTypes /\ WaitTypes /\ TimerTypes /\ SyncTypes /\ OtherTypes
      /\ state[current] = "RUNNING" /\ current # Bootstrap /\ Bootstrap \in Threads
      /\ \A u \in Threads : state[u] = "RUNNING" => u = current
      /\ state[Bootstrap] = "READY" /\ ~OccursIn(current, timer_queue)
      /\ RunQueuesMatch(run_queue, run_queue_bitmap, state, priority)
      /\ WaitQueuesMatch(wait, wcount, blocking, state)
  BY <1>0, CurrentFacts
<1>2. PICK delay \in 1 .. MaxDelay :
        timer_set_oneshot(current, delay, "thread_sleep_handler")
  BY KernelAssumption DEF thread_sleep
<1>3. /\ thread_resched(run_queue, run_queue_bitmap, st, quantum, crit + 1)
      /\ InCall(p, NoObject) /\ disable_ints
      /\ UNCHANGED <<idle_thread, priority, waitVars, syncVars, dpc_list>>
  BY DEF thread_sleep
<1>4. /\ current \in Threads /\ state \in StateFunctions /\ run_queue \in RunQueues
      /\ run_queue_bitmap \in SUBSET Priorities
      /\ quantum \in [Threads -> 0 .. QUANTUM] /\ crit + 1 \in Int
  BY <1>1 DEF SchedTypes
<1>5. /\ st[current] = "SLEEPING" /\ st \in StateFunctions
      /\ \A u \in Threads : u # current => st[u] = state[u]
  BY <1>4 DEF StateFunctions, ThreadStates
<1>6. /\ RunQueuesMatch(run_queue, run_queue_bitmap, st, priority)
      /\ WaitQueuesMatch(wait, wcount, blocking, st)
  BY <1>1, <1>4, RunQueuesOtherState, WaitQueuesOtherState
<1>7. UNCHANGED <<wait, wcount, blocking>> /\ WaitTypes' /\ SyncTypes' /\ OtherTypes'
  BY <1>1, <1>3 DEF waitVars, WaitTypes, SyncTypes, OtherTypes, syncVars, mutexVars,
                    eventVars, disable_ints
<1> HIDE DEF st
<1>8. /\ pc'[current] = p
      /\ \A u \in Threads : u # current => pc'[u] = pc[u] /\ obj'[u] = obj[u]
  BY <1>1, <1>3, <1>4 DEF InCall, CallTypes
<1>9. /\ \A u \in Threads :
           /\ st[u] # "RUNNING"
           /\ state[u] = "DEATH" => st[u] = "DEATH"
           /\ state[u] = "SUSPENDED" => st[u] = "SUSPENDED"
           /\ state[u] = "SLEEPING" => st[u] = "SLEEPING"
      /\ st[Bootstrap] = "READY"
  BY <1>1, <1>5
<1>10. \A u \in Threads : st[u] = "BLOCKED" => obj'[u] \in Queues /\ blocking'[u] = obj'[u]
  <2>1. \A u \in Threads : state[u] = "BLOCKED" => obj[u] \in Queues /\ blocking[u] = obj[u]
    BY DEF KernelInv, CallsConsistent
  <2> QED BY <2>1, <1>5, <1>7, <1>8
<1>11. \A u \in Threads : pc'[u] \in TimedPCs => st[u] \in {"BLOCKED", "READY"}
  <2>1. \A u \in Threads : pc[u] \in TimedPCs => state[u] \in {"BLOCKED", "READY", "RUNNING"}
    BY DEF KernelInv, CallsConsistent
  <2> QED BY <2>1, <1>0, <1>1, <1>5, <1>8
<1> HIDE DEF p
<1>12. /\ SchedTypes' /\ RunQueuesExact' /\ WaitQueuesExact' /\ OneRunning'
       /\ CallsConsistent'
       /\ \A u \in Threads : st[u] # "READY" => state'[u] = st[u]
  BY <1>0, <1>3, <1>4, <1>5, <1>6, <1>7, <1>9, <1>10, <1>11, SwitchStep
<1>13. TimersOwned' /\ TimerTypes'
  <2>1. /\ \A u \in Threads : state[u] = "SLEEPING" => state'[u] = "SLEEPING"
        /\ \A u \in Threads : pc[u] \in TimedPCs => pc'[u] \in TimedPCs
        /\ state'[current] = "SLEEPING"
    BY <1>0, <1>4, <1>5, <1>8, <1>9, <1>12
  <2> QED BY <2>1, <1>1, <1>2, TimerSet DEF TimerTypes, KernelInv
<1>14. CallTypes'
  BY <1>0, <1>1, <1>3, InCallTypes
<1> QED BY <1>7, <1>12, <1>13, <1>14, TypeParts DEF KernelInv

\* The thread_resched() at the end of wait_queue_wake_all() and thread_exit().
LEMMA LoopEndStep ==
  ASSUME KernelInv, irq[current] = "none",
         pc[current] \in {"signal_all", "destroy_all", "exit_signal", "exit_resched"},
         NEW p \in {"wake_return", "dead"}, InCall(p, NoObject),
         thread_resched(run_queue, run_queue_bitmap, state, quantum, crit),
         UNCHANGED <<idle_thread, priority, ints, waitVars, timerVars, syncVars, dpc_list>>
  PROVE  KernelInv'
<1>0. /\ p \in PCs /\ p \notin TimedPCs /\ PlainMove(p, NoObject)
      /\ pc[current] \notin TimedPCs
  BY DEF LoopPCs, WakeLoops, TimedPCs, BootPCs, ResumePCs, DpcPCs, MutexPCs, PCs, PlainMove
<1>1. /\ SchedTypes /\ CallTypes /\ WaitTypes /\ TimerTypes /\ SyncTypes /\ OtherTypes
      /\ RunQueuesMatch(run_queue, run_queue_bitmap, state, priority)
      /\ WaitQueuesMatch(wait, wcount, blocking, state)
  BY TypeParts DEF KernelInv, RunQueuesExact, WaitQueuesExact
<1>2. \A u \in Threads : state[u] # "RUNNING"
  BY DEF KernelInv, OneRunning
<1>3. state[Bootstrap] = "READY"
  BY <1>2 DEF KernelInv, OneRunning, Threads
<1>4. /\ UNCHANGED <<wait, wcount, blocking>> /\ WaitTypes' /\ TimerTypes' /\ SyncTypes'
      /\ OtherTypes'
  BY <1>1 DEF waitVars, timerVars, syncVars, mutexVars, eventVars, WaitTypes, TimerTypes,
              SyncTypes, OtherTypes
<1>5. /\ current \in Threads /\ state \in StateFunctions /\ run_queue \in RunQueues
      /\ run_queue_bitmap \in SUBSET Priorities
      /\ quantum \in [Threads -> 0 .. QUANTUM] /\ crit \in Int
  BY <1>1 DEF SchedTypes
<1>6. /\ pc'[current] = p
      /\ \A u \in Threads : u # current => pc'[u] = pc[u] /\ obj'[u] = obj[u]
  BY <1>1, <1>5 DEF InCall, CallTypes
<1>7. state[current] # "BLOCKED"
  BY DEF KernelInv, OneRunning
<1>8. \A u \in Threads : state[u] = "BLOCKED" => obj'[u] \in Queues /\ blocking'[u] = obj'[u]
  <2>1. \A u \in Threads : state[u] = "BLOCKED" => obj[u] \in Queues /\ blocking[u] = obj[u]
    BY DEF KernelInv, CallsConsistent
  <2> QED BY <2>1, <1>4, <1>6, <1>7
<1>9. \A u \in Threads : pc'[u] \in TimedPCs => state[u] \in {"BLOCKED", "READY"}
  <2>1. \A u \in Threads : pc[u] \in TimedPCs => state[u] \in {"BLOCKED", "READY", "RUNNING"}
    BY DEF KernelInv, CallsConsistent
  <2> QED BY <2>1, <1>0, <1>2, <1>6
<1>10. /\ SchedTypes' /\ RunQueuesExact' /\ WaitQueuesExact' /\ OneRunning'
       /\ CallsConsistent'
       /\ \A u \in Threads : state[u] # "READY" => state'[u] = state[u]
  BY <1>0, <1>1, <1>2, <1>3, <1>4, <1>5, <1>8, <1>9, SwitchStep
<1>11. TimersOwned'
  <2>1. \A u \in Threads : pc[u] \in TimedPCs => pc'[u] \in TimedPCs
    BY <1>0, <1>6
  <2> QED BY <2>1, <1>10, TimersKept DEF timerVars, KernelInv
<1>12. CallTypes'
  BY <1>0, <1>1, InCallTypes
<1> QED BY <1>4, <1>10, <1>11, <1>12, TypeParts DEF KernelInv

-----------------------------------------------------------------------------
(* Calls that return.                                                      *)

\* The rest of a call, after the switch back: critical sections are left, and
\* a timer that may still be queued is cancelled.
LEMMA ReturnStep ==
  ASSUME KernelInv, irq[current] = "none", pc[current] \notin LoopPCs,
         NEW n \in Nat, exit_critical_sections(n),
         NEW p \in PCs, p \notin TimedPCs, InCall(p, NoObject), PlainMove(p, NoObject),
         UNCHANGED <<current, idle_thread, state, priority, quantum, saved, run_queue,
                     run_queue_bitmap, waitVars, dpc_list>>,
         \/ UNCHANGED timerVars /\ pc[current] \notin TimedPCs
         \/ timer_cancel(current),
         SyncTypes'
  PROVE  KernelInv'
<1>1. SchedTypes /\ CallTypes /\ WaitTypes /\ TimerTypes /\ OtherTypes /\ TimersOwned
  BY CurrentFacts DEF KernelInv
<1>2. UNCHANGED <<wait, wcount, blocking>> /\ WaitTypes'
  BY <1>1 DEF waitVars, WaitTypes
<1>3. RunQueuesExact' /\ WaitQueuesExact' /\ OneRunning' /\ CallsConsistent'
  BY <1>2, StayStep
<1>4. /\ pc'[current] = p
      /\ \A u \in Threads : u # current => pc'[u] = pc[u]
  BY <1>1 DEF InCall, CallTypes, SchedTypes
<1>5. TimersOwned' /\ TimerTypes'
  <2>1. CASE UNCHANGED timerVars /\ pc[current] \notin TimedPCs
    BY <2>1, <1>1, <1>4, TimersKept DEF timerVars, TimerTypes
  <2>2. CASE timer_cancel(current)
    BY <2>2, <1>1, <1>4, TimerCancel DEF TimerTypes, KernelInv
  <2> QED BY <2>1, <2>2
<1>6. SchedTypes' /\ OtherTypes'
  <2>1. crit' = crit - n /\ ints' \in BOOLEAN
    BY <1>1 DEF exit_critical_sections, OtherTypes
  <2> QED BY <2>1, <1>1 DEF SchedTypes, OtherTypes
<1>7. CallTypes'
  BY <1>1, InCallTypes
<1> QED BY <1>2, <1>3, <1>5, <1>6, <1>7, TypeParts DEF KernelInv

-----------------------------------------------------------------------------
(* Creation, exit and clean-up of threads.                                 *)

\* thread_create() by the current thread, which goes on to resume the new one.
LEMMA CreateStep ==
  ASSUME KernelInv, pc[current] \notin LoopPCs \cup TimedPCs \cup ResumePCs,
         irq[current] = "none", NEW t \in Threads, NEW x \in Priorities,
         NEW p \in ResumePCs, p \in BootPCs <=> pc[current] \in BootPCs,
         thread_create(t, x, p)
  PROVE  KernelInv'
<1>0. /\ p \notin LoopPCs \cup TimedPCs \cup DpcPCs \cup MutexPCs /\ p \in PCs
      /\ "initial_thread_func" \notin
           LoopPCs \cup TimedPCs \cup DpcPCs \cup MutexPCs \cup BootPCs \cup ResumePCs
      /\ "initial_thread_func" \in PCs
  BY DEF LoopPCs, WakeLoops, TimedPCs, DpcPCs, BootPCs, ResumePCs, MutexPCs, PCs
<1>1. /\ SchedTypes /\ CallTypes /\ WaitTypes /\ TimerTypes /\ SyncTypes /\ OtherTypes
      /\ state[current] = "RUNNING"
      /\ \A u \in Threads : state[u] = "RUNNING" => u = current
      /\ Bootstrap \in Threads
      /\ current # Bootstrap => state[Bootstrap] = "READY"
      /\ RunQueuesMatch(run_queue, run_queue_bitmap, state, priority)
      /\ WaitQueuesMatch(wait, wcount, blocking, state)
      /\ CallsConsistent /\ TimersOwned /\ current \in Threads
  BY CurrentFacts DEF KernelInv, SchedTypes
<1>2. /\ state[t] = "NONE" /\ state' = [state EXCEPT ![t] = "SUSPENDED"]
      /\ priority' = [priority EXCEPT ![t] = x]
      /\ pc' = [pc EXCEPT ![t] = "initial_thread_func", ![current] = p]
      /\ obj' = [obj EXCEPT ![current] = t] /\ irq' = irq
      /\ quantum' = [quantum EXCEPT ![t] = 0] /\ saved' = [saved EXCEPT ![t] = 1]
      /\ blocking' = [blocking EXCEPT ![t] = NoObject]
      /\ block_ret' = [block_ret EXCEPT ![t] = NO_ERROR]
      /\ UNCHANGED <<current, idle_thread, crit, ints, run_queue, run_queue_bitmap,
                     wait, wcount, timerVars, syncVars, dpc_list>>
  BY DEF thread_create, FreshThread
<1>3. /\ t # current /\ t # Bootstrap
      /\ state'[t] = "SUSPENDED" /\ \A u \in Threads : u # t => state'[u] = state[u]
      /\ pc'[t] = "initial_thread_func" /\ pc'[current] = p /\ obj'[current] = t
      /\ \A u \in Threads : u # current /\ u # t => pc'[u] = pc[u]
      /\ \A u \in Threads : u # current => obj'[u] = obj[u]
      /\ \A u \in Threads : u # t => blocking'[u] = blocking[u] /\ priority'[u] = priority[u]
  BY <1>1, <1>2 DEF SchedTypes, StateFunctions, CallTypes, WaitTypes, OtherTypes
<1>4. SchedTypes' /\ OtherTypes'
  <2>1. state' \in StateFunctions
    BY <1>1, <1>2 DEF SchedTypes, StateFunctions, ThreadStates
  <2>2. quantum' \in [Threads -> 0 .. QUANTUM] /\ saved' \in [Threads -> Int]
    BY <1>1, <1>2, PrioritiesAssumption DEF SchedTypes
  <2> QED BY <2>1, <2>2, <1>1, <1>2 DEF SchedTypes, OtherTypes
<1>5. CallTypes'
  BY <1>0, <1>1, <1>2 DEF CallTypes
<1>6. WaitTypes'
  BY <1>1, <1>2 DEF WaitTypes, BlockReturns
<1>7. TimerTypes' /\ SyncTypes'
  BY <1>1, <1>2 DEF TimerTypes, SyncTypes, timerVars, syncVars, mutexVars, eventVars
<1>8. RunQueuesExact'
  <2>1. \A u \in Threads, y \in Priorities :
          (state'[u] = "READY" /\ priority'[u] = y) <=> (state[u] = "READY" /\ priority[u] = y)
    BY <1>2, <1>3
  <2>2. UNCHANGED <<run_queue, run_queue_bitmap>>
    BY <1>2
  <2> QED BY <2>1, <2>2, <1>1 DEF RunQueuesExact, RunQueuesMatch
<1>9. WaitQueuesExact'
  <2>1. \A u \in Threads, o \in Queues :
         (state'[u] = "BLOCKED" /\ blocking'[u] = o) <=> (state[u] = "BLOCKED" /\ blocking[u] = o)
    BY <1>2, <1>3
  <2>2. UNCHANGED <<wait, wcount>>
    BY <1>2
  <2> QED BY <2>1, <2>2, <1>1 DEF WaitQueuesExact, WaitQueuesMatch
<1>10. OneRunning'
  <2>1. current' = current /\ pc'[current] \notin LoopPCs
    BY <1>0, <1>2, <1>3
  <2> QED BY <2>1, <1>1, <1>3 DEF OneRunning, LoopPCs, WakeLoops
<1>11. TimersOwned'
  <2>1. ~OccursIn(t, timer_queue)
    BY <1>1, <1>2 DEF TimersOwned, CallsConsistent
  <2>2. UNCHANGED <<timer_queue, callback>>
    BY <1>2 DEF timerVars
  <2>3. ~OccursIn(current, timer_queue)
    BY <1>1 DEF TimersOwned
  <2> QED BY <2>1, <2>2, <2>3, <1>1, <1>3 DEF TimersOwned
<1>12. CallsConsistent'
  <2>0. irq' = irq /\ dpc_list' = dpc_list /\ state[t] = "NONE" /\ CallsConsistent
    BY <1>1, <1>2
  <2>1. ASSUME NEW u \in Threads
        PROVE  /\ pc'[u] \in BootPCs <=> u = Bootstrap
               /\ pc'[u] \in DpcPCs => u = DpcThread
               /\ pc'[u] \notin LoopPCs
               /\ irq'[u] # "timer_tick"
               /\ state'[u] = "BLOCKED" => obj'[u] \in Queues /\ blocking'[u] = obj'[u]
               /\ pc'[u] \in MutexPCs => obj'[u] \in Mutexes
               /\ pc'[u] \in TimedPCs => state'[u] \in {"BLOCKED", "READY", "RUNNING"}
               /\ OccursIn(u, dpc_list') => state'[u] = "DEATH"
    <3>1. CASE u = current
      BY <3>1, <2>0, <1>0, <1>1, <1>3 DEF CallsConsistent
    <3>2. CASE u = t
      BY <3>2, <2>0, <1>0, <1>3 DEF CallsConsistent
    <3>3. CASE u # t /\ u # current
      BY <3>3, <2>0, <1>3 DEF CallsConsistent, MutexPCs
    <3> QED BY <3>1, <3>2, <3>3
  <2>2. ASSUME NEW u \in Threads, pc'[u] \in ResumePCs
        PROVE  \/ u = current /\ obj'[u] = t
               \/ /\ u # current /\ pc[u] \in ResumePCs /\ obj'[u] = obj[u]
                  /\ obj[u] \in Threads /\ obj[u] # t /\ state'[obj[u]] = "SUSPENDED"
    <3>1. CASE u # current
      <4>1. u # t /\ pc[u] \in ResumePCs /\ obj'[u] = obj[u]
        BY <3>1, <2>2, <1>0, <1>3
      <4>2. obj[u] \in Threads /\ state[obj[u]] = "SUSPENDED"
        BY <4>1, <2>0 DEF CallsConsistent
      <4> QED BY <3>1, <4>1, <4>2, <2>0, <1>3
    <3> QED BY <3>1, <1>3
  <2>3. ASSUME NEW u \in Threads, pc'[u] = "thread_cleanup_dpc"
        PROVE  /\ obj'[u] \in Threads /\ state'[obj'[u]] = "DEATH"
               /\ ~OccursIn(obj'[u], dpc_list')
    <3>1. "thread_cleanup_dpc" \in DpcPCs
      BY DEF DpcPCs
    <3>2. u # t /\ u # current /\ pc[u] = "thread_cleanup_dpc" /\ obj'[u] = obj[u]
      BY <3>1, <2>3, <1>0, <1>3
    <3> QED BY <3>2, <1>1, <1>2, <1>3 DEF CallsConsistent
  <2>4. \A u, v \in Threads :
         pc'[u] \in ResumePCs /\ pc'[v] \in ResumePCs /\ obj'[u] = obj'[v] => u = v
    BY <2>2, <1>1 DEF CallsConsistent
  <2>5. Distinct(dpc_list')
    BY <1>1, <1>2 DEF CallsConsistent
  <2>6. WakeLoops \subseteq LoopPCs /\ state'[t] = "SUSPENDED"
    BY <1>3 DEF LoopPCs
  <2> QED BY <2>1, <2>2, <2>3, <2>4, <2>5, <2>6 DEF CallsConsistent, MutexPCs
<1> QED BY <1>4, <1>5, <1>6, <1>7, <1>8, <1>9, <1>10, <1>11, <1>12, TypeParts DEF KernelInv

\* thread_exit() up to the loop that wakes the dpc thread.
LEMMA ExitStep ==
  ASSUME KernelInv, thread_exit
  PROVE  KernelInv'
<1> DEFINE p == IF signalled[DpcEvent] THEN "exit_resched" ELSE "exit_signal"
<1>0. /\ "user" \notin LoopPCs \cup BootPCs /\ p \in LoopPCs
      /\ p \in {"exit_resched", "exit_signal"} /\ DpcEvent \in Queues
  BY DEF LoopPCs, WakeLoops, BootPCs, Queues, AllEvents
<1>1. pc[current] = "user" /\ Calls("user") /\ ints' = FALSE /\ crit' = crit + 1
  BY DEF thread_exit, Calls, enter_critical_section
<1>2. /\ SchedTypes /\ CallTypes /\ WaitTypes /\ TimerTypes /\ SyncTypes /\ OtherTypes
      /\ state[current] = "RUNNING" /\ Bootstrap \in Threads /\ current # Bootstrap
      /\ \A u \in Threads : state[u] = "RUNNING" => u = current
      /\ state[Bootstrap] = "READY"
      /\ RunQueuesMatch(run_queue, run_queue_bitmap, state, priority)
      /\ WaitQueuesMatch(wait, wcount, blocking, state)
  BY <1>0, <1>1, CurrentFacts
<1>3. /\ state' = [state EXCEPT ![current] = "DEATH"] /\ InCall(p, DpcEvent)
      /\ dpc_list' = Append(dpc_list, current)
      /\ signalled' = [signalled EXCEPT ![DpcEvent] = TRUE]
      /\ UNCHANGED <<current, idle_thread, priority, quantum, saved, run_queue,
                     run_queue_bitmap, waitVars, timerVars, mutexVars, destroyed,
                     autounsignal>>
  BY DEF thread_exit
<1>4. state \in StateFunctions /\ current \in Threads /\ UNCHANGED <<wait, wcount, blocking>>
  BY <1>2, <1>3 DEF SchedTypes, waitVars
<1> HIDE DEF p
<1>5. CallTypes' /\ TimersOwned' /\ CallsConsistent' /\ dpc_list' \in Seq(Threads)
  BY <1>0, <1>1, <1>3, <1>4, LoopFacts
<1>6. /\ state'[current] = "DEATH" /\ pc'[current] = p /\ state' \in StateFunctions
      /\ \A u \in Threads : u # current => state'[u] = state[u]
  BY <1>2, <1>3, <1>4 DEF StateFunctions, ThreadStates, InCall, CallTypes
<1>7. RunQueuesExact' /\ WaitQueuesExact'
  BY <1>2, <1>3, <1>4, RunQueuesOtherState, WaitQueuesOtherState
     DEF RunQueuesExact, WaitQueuesExact
<1>8. OneRunning'
  BY <1>0, <1>2, <1>3, <1>4, <1>6 DEF OneRunning
<1>9. SchedTypes' /\ OtherTypes' /\ WaitTypes' /\ TimerTypes'
  <2>1. SchedTypes'
    BY <1>1, <1>2, <1>3, <1>6 DEF SchedTypes
  <2>2. OtherTypes'
    BY <1>1, <1>2, <1>3 DEF OtherTypes
  <2>3. WaitTypes' /\ TimerTypes'
    BY <1>2, <1>3 DEF WaitTypes, TimerTypes, waitVars, timerVars
  <2> QED BY <2>1, <2>2, <2>3
<1>10. SyncTypes'
  BY <1>2, <1>3, <1>5 DEF SyncTypes, mutexVars
<1> QED BY <1>5, <1>7, <1>8, <1>9, <1>10, TypeParts DEF KernelInv

\* The dpc thread takes a dead thread off dpc_list.
LEMMA DpcPopStep ==
  ASSUME KernelInv, DpcPop
  PROVE  KernelInv'
<1>0. /\ pc[current] = "dpc_pop" /\ irq[current] = "none"
      /\ "dpc_pop" \notin LoopPCs \cup TimedPCs \cup BootPCs /\ "dpc_pop" \in DpcPCs
  BY DEF DpcPop, Calls, LoopPCs, WakeLoops, TimedPCs, BootPCs, DpcPCs
<1>1. /\ SchedTypes /\ CallTypes /\ WaitTypes /\ TimerTypes /\ SyncTypes /\ OtherTypes
      /\ CallsConsistent /\ TimersOwned /\ current \in Threads
      /\ state[current] = "RUNNING" /\ RunQueuesExact /\ WaitQueuesExact
      /\ \A u \in Threads : state[u] = "RUNNING" => u = current
      /\ state[Bootstrap] \in {"READY", "RUNNING"}
  BY <1>0, CurrentFacts DEF KernelInv, SchedTypes, OneRunning
<1>2. /\ UNCHANGED <<schedVars, waitVars, timerVars, mutexVars, destroyed, autounsignal>>
      /\ irq' = irq
  BY DEF DpcPop, InCall
<1>3. SchedTypes' /\ WaitTypes' /\ TimerTypes' /\ OtherTypes'
  BY <1>1, <1>2 DEF schedVars, waitVars, timerVars, SchedTypes, WaitTypes, TimerTypes,
                    OtherTypes
<1>4. UNCHANGED <<current, state, priority, run_queue, run_queue_bitmap, wait, wcount,
                  blocking>>
  BY <1>2 DEF schedVars, waitVars
<1>5. CASE dpc_list = <<>>
  <2>1. /\ InCall("dpc_wait", NoObject) /\ UNCHANGED dpc_list
        /\ signalled' = [signalled EXCEPT ![DpcEvent] = FALSE]
    BY <1>5 DEF DpcPop
  <2>2. /\ PlainMove("dpc_wait", NoObject) /\ "dpc_wait" \in PCs
        /\ "dpc_wait" \notin TimedPCs
    BY <1>0, <1>1 DEF PlainMove, LoopPCs, WakeLoops, ResumePCs, TimedPCs, BootPCs, DpcPCs,
                      MutexPCs, PCs, CallsConsistent
  <2>3. RunQueuesExact' /\ WaitQueuesExact' /\ OneRunning' /\ CallsConsistent'
    BY <2>1, <2>2, <1>0, <1>4, StayStep
  <2>4. TimersOwned'
    <3>1. \A u \in Threads : pc[u] \in TimedPCs => pc'[u] \in TimedPCs
      BY <2>1, <1>0, <1>1 DEF InCall, CallTypes
    <3> QED BY <3>1, <1>1, <1>2, <1>4, TimersKept DEF timerVars
  <2>5. CallTypes'
    BY <2>1, <2>2, <1>1, InCallTypes
  <2>6. SyncTypes'
    BY <2>1, <1>1, <1>2 DEF SyncTypes, mutexVars
  <2> QED BY <2>3, <2>4, <2>5, <2>6, <1>3, TypeParts DEF KernelInv
<1>6. CASE dpc_list # <<>>
  <2> DEFINE d == Head(dpc_list)
             p == "thread_cleanup_dpc"
  <2>1. dpc_list' = Tail(dpc_list) /\ InCall(p, d) /\ UNCHANGED signalled
    BY <1>6 DEF DpcPop
  <2>2. /\ d \in Threads /\ dpc_list' \in Seq(Threads) /\ Distinct(dpc_list')
        /\ OccursIn(d, dpc_list)
        /\ \A u : OccursIn(u, dpc_list') <=> OccursIn(u, dpc_list) /\ u # d
    BY <2>1, <1>1, <1>6, TailFacts DEF SyncTypes, CallsConsistent
  <2>3. state[d] = "DEATH" /\ \A u \in Threads : OccursIn(u, dpc_list) => state[u] = "DEATH"
    BY <2>2, <1>1 DEF CallsConsistent
  <2> HIDE DEF d
  <2>4. /\ p \in PCs /\ p \in DpcPCs
        /\ p \notin LoopPCs \cup TimedPCs \cup BootPCs \cup ResumePCs \cup MutexPCs
    BY DEF LoopPCs, WakeLoops, TimedPCs, BootPCs, ResumePCs, DpcPCs, MutexPCs, PCs
  <2>5. /\ pc'[current] = p /\ obj'[current] = d
        /\ \A u \in Threads : u # current => pc'[u] = pc[u] /\ obj'[u] = obj[u]
    BY <2>1, <1>1 DEF InCall, CallTypes
  <2>6. current = DpcThread /\ \A u \in Threads : u # current => pc[u] \notin DpcPCs
    BY <1>0, <1>1 DEF CallsConsistent
  <2> HIDE DEF p
  <2>7. ASSUME NEW t \in Threads
        PROVE  /\ pc'[t] \in BootPCs <=> t = Bootstrap
               /\ pc'[t] \in DpcPCs => t = DpcThread
               /\ pc'[t] \notin LoopPCs
               /\ irq'[t] # "timer_tick"
               /\ state'[t] = "BLOCKED" => obj'[t] \in Queues /\ blocking'[t] = obj'[t]
               /\ pc'[t] \in MutexPCs => obj'[t] \in Mutexes
               /\ pc'[t] \in TimedPCs => state'[t] \in {"BLOCKED", "READY", "RUNNING"}
               /\ OccursIn(t, dpc_list') => state'[t] = "DEATH"
    <3>1. CASE t = current
      BY <3>1, <2>2, <2>3, <2>4, <2>5, <2>6, <1>0, <1>1, <1>2, <1>4 DEF CallsConsistent
    <3>2. CASE t # current
      BY <3>2, <2>2, <2>3, <2>5, <1>0, <1>1, <1>2, <1>4 DEF CallsConsistent, MutexPCs
    <3> QED BY <3>1, <3>2
  <2>8. ASSUME NEW t \in Threads, pc'[t] \in ResumePCs
        PROVE  /\ pc[t] \in ResumePCs /\ obj'[t] = obj[t]
               /\ obj[t] \in Threads /\ state'[obj[t]] = "SUSPENDED"
    BY <2>8, <2>4, <2>5, <1>1, <1>4 DEF CallsConsistent
  <2>9. ASSUME NEW t \in Threads, pc'[t] = "thread_cleanup_dpc"
        PROVE  /\ obj'[t] \in Threads /\ state'[obj'[t]] = "DEATH"
               /\ ~OccursIn(obj'[t], dpc_list')
    <3>1. t = current
      BY <2>9, <2>4, <2>5, <2>6 DEF p
    <3> QED BY <3>1, <2>2, <2>3, <2>5, <1>4
  <2>10. \A t, u \in Threads :
           pc'[t] \in ResumePCs /\ pc'[u] \in ResumePCs /\ obj'[t] = obj'[u] => t = u
    BY <2>8, <1>1 DEF CallsConsistent
  <2>11. WakeLoops \subseteq LoopPCs
    BY DEF LoopPCs
  <2>12. CallsConsistent'
    BY <2>2, <2>7, <2>8, <2>9, <2>10, <2>11 DEF CallsConsistent, MutexPCs
  <2>13. OneRunning'
    BY <2>4, <2>5, <1>1, <1>4 DEF OneRunning, LoopPCs, WakeLoops
  <2>14. TimersOwned'
    <3>1. \A u \in Threads : pc[u] \in TimedPCs => pc'[u] \in TimedPCs
      BY <2>5, <1>0
    <3> QED BY <3>1, <1>1, <1>2, <1>4, TimersKept DEF timerVars
  <2>15. CallTypes'
    BY <2>1, <2>2, <2>4, <1>1, InCallTypes
  <2>16. SyncTypes'
    BY <2>1, <2>2, <1>1, <1>2 DEF SyncTypes, mutexVars
  <2>17. RunQueuesExact' /\ WaitQueuesExact'
    BY <1>1, <1>4 DEF RunQueuesExact, WaitQueuesExact
  <2> QED BY <2>12, <2>13, <2>14, <2>15, <2>16, <2>17, <1>3, TypeParts DEF KernelInv
<1> QED BY <1>5, <1>6

\* thread_cleanup_dpc() frees a dead thread.
LEMMA CleanupStep ==
  ASSUME KernelInv, thread_cleanup_dpc
  PROVE  KernelInv'
<1> DEFINE d == obj[current]
           p == "thread_cleanup_dpc"
<1>0. /\ pc[current] = p /\ irq[current] = "none" /\ p \in DpcPCs
      /\ p \notin LoopPCs \cup TimedPCs \cup BootPCs
      /\ "dpc_wait" \in PCs /\ "dpc_wait" \in DpcPCs /\ "dpc_wait" # p
      /\ "dpc_wait" \notin LoopPCs \cup TimedPCs \cup BootPCs \cup ResumePCs \cup MutexPCs
  BY DEF thread_cleanup_dpc, Calls, LoopPCs, WakeLoops, TimedPCs, BootPCs, DpcPCs,
         ResumePCs, MutexPCs, PCs
<1>1. /\ SchedTypes /\ CallTypes /\ WaitTypes /\ TimerTypes /\ SyncTypes /\ OtherTypes
      /\ CallsConsistent /\ TimersOwned /\ current \in Threads
      /\ state[current] = "RUNNING" /\ RunQueuesExact /\ WaitQueuesExact
      /\ \A u \in Threads : state[u] = "RUNNING" => u = current
      /\ state[Bootstrap] \in {"READY", "RUNNING"} /\ Bootstrap \in Threads
  BY <1>0, CurrentFacts DEF KernelInv, SchedTypes, OneRunning
<1>2. d \in Threads /\ state[d] = "DEATH" /\ ~OccursIn(d, dpc_list)
  BY <1>0, <1>1 DEF CallsConsistent
<1>3. /\ state' = [state EXCEPT ![d] = "NONE"]
      /\ priority' = [priority EXCEPT ![d] = LOWEST_PRIORITY]
      /\ quantum' = [quantum EXCEPT ![d] = 0] /\ saved' = [saved EXCEPT ![d] = 1]
      /\ blocking' = [blocking EXCEPT ![d] = NoObject]
      /\ block_ret' = [block_ret EXCEPT ![d] = NO_ERROR]
      /\ InCall("dpc_wait", NoObject)
      /\ UNCHANGED <<current, idle_thread, crit, ints, run_queue, run_queue_bitmap,
                     wait, wcount, timerVars, syncVars, dpc_list>>
  BY DEF thread_cleanup_dpc, FreshThread
<1> HIDE DEF d, p
<1>4. LOWEST_PRIORITY \in Priorities
  BY PrioritiesAssumption DEF Priorities, LOWEST_PRIORITY, HIGHEST_PRIORITY
<1>5. /\ state'[d] = "NONE" /\ \A u \in Threads : u # d => state'[u] = state[u]
      /\ \A u \in Threads : u # d => blocking'[u] = blocking[u] /\ priority'[u] = priority[u]
      /\ pc'[current] = "dpc_wait"
      /\ \A u \in Threads : u # current => pc'[u] = pc[u] /\ obj'[u] = obj[u]
      /\ irq' = irq /\ dpc_list' = dpc_list /\ current' = current
  BY <1>1, <1>2, <1>3 DEF SchedTypes, StateFunctions, CallTypes, WaitTypes, OtherTypes, InCall
<1>6. SchedTypes' /\ OtherTypes'
  <2>1. state' \in StateFunctions
    BY <1>1, <1>3 DEF SchedTypes, StateFunctions, ThreadStates
  <2>2. quantum' \in [Threads -> 0 .. QUANTUM] /\ saved' \in [Threads -> Int]
    <3>1. /\ quantum \in [Threads -> 0 .. QUANTUM] /\ saved \in [Threads -> Int]
          /\ 0 \in 0 .. QUANTUM
      BY <1>1, PrioritiesAssumption DEF SchedTypes
    <3>2. quantum' = [quantum EXCEPT ![d] = 0] /\ saved' = [saved EXCEPT ![d] = 1]
      BY <1>3
    <3> QED BY <3>1, <3>2, <1>2
  <2>3. priority' \in [Threads -> Priorities]
    BY <1>1, <1>3, <1>4 DEF OtherTypes
  <2> QED BY <2>1, <2>2, <2>3, <1>1, <1>3 DEF SchedTypes, OtherTypes
<1>7. WaitTypes'
  BY <1>1, <1>3 DEF WaitTypes, BlockReturns
<1>8. TimerTypes' /\ SyncTypes'
  BY <1>1, <1>3 DEF TimerTypes, SyncTypes, timerVars, syncVars, mutexVars, eventVars
<1>9. CallTypes'
  BY <1>0, <1>1, <1>3, InCallTypes
<1>10. RunQueuesExact'
  <2>1. \A u \in Threads, y \in Priorities :
          (state'[u] = "READY" /\ priority'[u] = y) <=> (state[u] = "READY" /\ priority[u] = y)
    BY <1>2, <1>5
  <2>2. UNCHANGED <<run_queue, run_queue_bitmap>>
    BY <1>3
  <2> QED BY <2>1, <2>2, <1>1 DEF RunQueuesExact, RunQueuesMatch
<1>11. WaitQueuesExact'
  <2>1. \A u \in Threads, o \in Queues :
         (state'[u] = "BLOCKED" /\ blocking'[u] = o) <=> (state[u] = "BLOCKED" /\ blocking[u] = o)
    BY <1>2, <1>5
  <2>2. UNCHANGED <<wait, wcount>>
    BY <1>3
  <2> QED BY <2>1, <2>2, <1>1 DEF WaitQueuesExact, WaitQueuesMatch
<1>12. OneRunning'
  BY <1>0, <1>1, <1>2, <1>5 DEF OneRunning
<1>13. TimersOwned'
  <2>1. ~OccursIn(d, timer_queue)
    BY <1>1, <1>2 DEF TimersOwned, CallsConsistent
  <2>2. UNCHANGED <<timer_queue, callback>>
    BY <1>3 DEF timerVars
  <2>3. ~OccursIn(current, timer_queue)
    BY <1>0, <1>1 DEF TimersOwned
  <2> QED BY <2>1, <2>2, <2>3, <1>1, <1>5 DEF TimersOwned
<1>14. current = DpcThread /\ \A u \in Threads : u # current => pc[u] # p
  BY <1>0, <1>1 DEF CallsConsistent
<1>15. ASSUME NEW t \in Threads
       PROVE  /\ pc'[t] \in BootPCs <=> t = Bootstrap
              /\ pc'[t] \in DpcPCs => t = DpcThread
              /\ pc'[t] \notin LoopPCs
              /\ irq'[t] # "timer_tick"
              /\ state'[t] = "BLOCKED" => obj'[t] \in Queues /\ blocking'[t] = obj'[t]
              /\ pc'[t] \in MutexPCs => obj'[t] \in Mutexes
              /\ pc'[t] \in TimedPCs => state'[t] \in {"BLOCKED", "READY", "RUNNING"}
              /\ OccursIn(t, dpc_list') => state'[t] = "DEATH"
              /\ pc'[t] # p
  <2>1. CASE t = current
    BY <2>1, <1>0, <1>1, <1>2, <1>5, <1>14 DEF CallsConsistent
  <2>2. CASE t # current
    BY <2>2, <1>0, <1>1, <1>2, <1>5, <1>14 DEF CallsConsistent, MutexPCs
  <2> QED BY <2>1, <2>2
<1>16. ASSUME NEW t \in Threads, pc'[t] \in ResumePCs
       PROVE  /\ pc[t] \in ResumePCs /\ obj'[t] = obj[t]
              /\ obj[t] \in Threads /\ state'[obj[t]] = "SUSPENDED"
  BY <1>16, <1>0, <1>1, <1>2, <1>5 DEF CallsConsistent
<1>17. \A t, u \in Threads :
         pc'[t] \in ResumePCs /\ pc'[u] \in ResumePCs /\ obj'[t] = obj'[u] => t = u
  BY <1>16, <1>1 DEF CallsConsistent
<1>18. WakeLoops \subseteq LoopPCs /\ Distinct(dpc_list')
  BY <1>1, <1>5 DEF LoopPCs, CallsConsistent
<1>19. CallsConsistent'
  BY <1>15, <1>16, <1>17, <1>18 DEF CallsConsistent, MutexPCs, p
<1> QED BY <1>6, <1>7, <1>8, <1>9, <1>10, <1>11, <1>12, <1>13, <1>19, TypeParts DEF KernelInv

-----------------------------------------------------------------------------
(* The timer interrupt.                                                    *)

\* arm_irq on entry.
LEMMA IrqEntryStep ==
  ASSUME KernelInv, arm_irq
  PROVE  KernelInv'
<1>1. /\ SchedTypes /\ CallTypes /\ WaitTypes /\ TimerTypes /\ SyncTypes /\ OtherTypes
      /\ CallsConsistent /\ current \in Threads /\ ints /\ irq[current] = "none"
  BY TypeParts DEF KernelInv, SchedTypes, arm_irq
<1>2. /\ crit' = crit + 1 /\ ints' = FALSE
      /\ irq' = [irq EXCEPT ![current] = "timer_tick"]
      /\ left' = [t \in Threads |-> IF left[t] > 0 THEN left[t] - 1 ELSE 0]
      /\ UNCHANGED <<current, idle_thread, state, priority, quantum, saved, run_queue,
                     run_queue_bitmap, pc, obj, waitVars, timer_queue, callback,
                     syncVars, dpc_list>>
  BY DEF arm_irq
<1>3. UNCHANGED <<wait, wcount, blocking, block_ret>>
  BY <1>2 DEF waitVars
<1>4. SchedTypes' /\ OtherTypes'
  <2>1. SchedTypes'
    BY <1>1, <1>2 DEF SchedTypes
  <2>2. UNCHANGED <<idle_thread, priority>> /\ ints' \in BOOLEAN
    BY <1>2
  <2> QED BY <2>1, <2>2, <1>1 DEF OtherTypes
<1>5. CallTypes' /\ WaitTypes'
  BY <1>1, <1>2, <1>3 DEF CallTypes, WaitTypes
<1>6. TimerTypes'
  <2>1. left' \in [Threads -> 0 .. MaxDelay]
    BY <1>1, <1>2, ObjectsAssumption DEF TimerTypes
  <2> QED BY <2>1, <1>1, <1>2 DEF TimerTypes
<1>7. SyncTypes'
  BY <1>1, <1>2 DEF SyncTypes, syncVars, mutexVars, eventVars
<1>8. RunQueuesExact' /\ WaitQueuesExact' /\ OneRunning' /\ TimersOwned'
  BY <1>2, <1>3 DEF KernelInv, RunQueuesExact, WaitQueuesExact, OneRunning, TimersOwned
<1>9. CallsConsistent'
  <2>1. \A t \in Threads : /\ pc[t] \notin LoopPCs
                           /\ irq'[t] = "timer_tick" => t = current
    BY <1>1, <1>2 DEF CallsConsistent, CallTypes
  <2>2. UNCHANGED <<current, state, pc, obj, blocking, dpc_list>> /\ ~ints'
    BY <1>2, <1>3
  <2> QED BY <2>1, <2>2, <1>1 DEF CallsConsistent
<1> QED BY <1>4, <1>5, <1>6, <1>7, <1>8, <1>9, TypeParts DEF KernelInv

\* timer_tick() runs the callback of a due timer.
LEMMA TimerTickStep ==
  ASSUME KernelInv, timer_tick
  PROVE  KernelInv'
<1> DEFINE t == Head(timer_queue)
<1>1. /\ SchedTypes /\ CallTypes /\ WaitTypes /\ TimerTypes /\ SyncTypes /\ OtherTypes
      /\ CallsConsistent /\ TimersOwned /\ current \in Threads
      /\ irq[current] = "timer_tick"
      /\ RunQueuesMatch(run_queue, run_queue_bitmap, state, priority)
      /\ WaitQueuesMatch(wait, wcount, blocking, state)
  BY TypeParts DEF KernelInv, SchedTypes, timer_tick, RunQueuesExact, WaitQueuesExact
<1>2. /\ timer_queue' = Tail(timer_queue) /\ timer_queue # <<>>
      /\ callback' = [callback EXCEPT ![t] = "none"]
      /\ UNCHANGED <<current, idle_thread, priority, quantum, saved, ints, callVars,
                     left, syncVars, dpc_list>>
  BY DEF timer_tick, TimerDue
<1>3. /\ t \in Threads /\ timer_queue' \in Seq(Threads) /\ Distinct(timer_queue')
      /\ OccursIn(t, timer_queue)
      /\ \A u : OccursIn(u, timer_queue') <=> OccursIn(u, timer_queue) /\ u # t
  BY <1>1, <1>2, TailFacts DEF TimerTypes, TimersOwned
<1>4. \/ state[t] = "SLEEPING" /\ callback[t] = "thread_sleep_handler"
      \/ pc[t] \in TimedPCs /\ callback[t] = "wait_queue_timeout_handler"
  BY <1>1, <1>3 DEF TimersOwned
<1>5. /\ callback[t] = "thread_sleep_handler" =>
           /\ state' = [state EXCEPT ![t] = "READY"]
           /\ run_queue' = insert_in_run_queue_head(run_queue, t)
           /\ run_queue_bitmap' = run_queue_bitmap \cup {priority[t]}
           /\ UNCHANGED <<waitVars, crit>>
      /\ callback[t] # "thread_sleep_handler" =>
           thread_unblock_from_wait_queue(t, ERR_TIMED_OUT)
  BY DEF timer_tick
<1> HIDE DEF t
<1>6. TimerTypes' /\ \A u \in Threads : u # t => callback'[u] = callback[u]
  BY <1>1, <1>2, <1>3 DEF TimerTypes
<1>7. OtherTypes' /\ SyncTypes' /\ CallTypes' /\ UNCHANGED <<pc, obj, irq, current, dpc_list>>
  BY <1>1, <1>2 DEF OtherTypes, SyncTypes, CallTypes, callVars, syncVars, mutexVars, eventVars
<1>8. ASSUME \A u \in Threads : u # t /\ state[u] = "SLEEPING" => state'[u] = "SLEEPING"
      PROVE  TimersOwned'
  BY <1>8, <1>1, <1>3, <1>6, <1>7 DEF TimersOwned
<1>9. CASE callback[t] = "thread_sleep_handler"
  <2>1. /\ state[t] = "SLEEPING" /\ state \in StateFunctions
        /\ state' = [state EXCEPT ![t] = "READY"]
        /\ run_queue' = insert_in_run_queue_head(run_queue, t)
        /\ run_queue_bitmap' = run_queue_bitmap \cup {priority[t]}
        /\ UNCHANGED <<waitVars, crit>>
    BY <1>1, <1>4, <1>5, <1>9 DEF SchedTypes
  <2>2. /\ run_queue' \in RunQueues /\ run_queue_bitmap' \in SUBSET Priorities
        /\ state' \in StateFunctions
        /\ RunQueuesMatch(run_queue', run_queue_bitmap', state', priority)
    BY <2>1, <1>1, <1>3, InsertInRunQueue DEF SchedTypes, OtherTypes
  <2>3. UNCHANGED <<wait, wcount, blocking>> /\ WaitTypes'
    BY <2>1, <1>1 DEF waitVars, WaitTypes
  <2>4. WaitQueuesMatch(wait', wcount', blocking', state')
    BY <2>1, <2>3, <1>1, <1>3, WaitQueuesOtherState
  <2>5. state'[t] = "READY" /\ \A u \in Threads : u # t => state'[u] = state[u]
    BY <2>1, <1>3 DEF StateFunctions
  <2>6. SchedTypes'
    BY <2>1, <2>2, <1>1, <1>2 DEF SchedTypes
  <2>7. t # current /\ t # Bootstrap
    BY <2>1, <1>1 DEF KernelInv, OneRunning
  <2>8. OneRunning'
    BY <2>5, <2>7, <1>1, <1>7 DEF KernelInv, OneRunning, Threads
  <2>9. CallsConsistent'
    BY <2>1, <2>3, <2>5, <1>1, <1>2, <1>7 DEF CallsConsistent
  <2> QED BY <2>2, <2>3, <2>4, <2>5, <2>6, <2>8, <2>9, <1>2, <1>6, <1>7, <1>8, TypeParts
          DEF KernelInv, RunQueuesExact, WaitQueuesExact
<1>10. CASE callback[t] # "thread_sleep_handler" /\ state[t] = "BLOCKED"
  <2> DEFINE o == blocking[t]
             list == Without(wait[o], t)
  <2>1. o \in Queues
    BY <1>1, <1>3, <1>10 DEF CallsConsistent
  <2>2. /\ wait[o] \in Seq(Threads) /\ Distinct(wait[o]) /\ OccursIn(t, wait[o])
    BY <2>1, <1>1, <1>3, <1>10 DEF WaitTypes, WaitLists, WaitQueuesMatch
  <2>3. /\ list \in Seq(Threads) /\ Distinct(list) /\ Len(list) = Len(wait[o]) - 1
        /\ \A u : OccursIn(u, list) <=> OccursIn(u, wait[o]) /\ u # t
    BY <2>2, WithoutFacts
  <2>4. MakeReady(o, list, t, ERR_TIMED_OUT) /\ UNCHANGED crit
    BY <1>5, <1>10 DEF thread_unblock_from_wait_queue
  <2> HIDE DEF o, list
  <2>5. /\ state' \in StateFunctions /\ WaitTypes'
        /\ run_queue' \in RunQueues /\ run_queue_bitmap' \in SUBSET Priorities
        /\ RunQueuesExact' /\ WaitQueuesExact' /\ OneRunning' /\ CallsConsistent'
        /\ \A u \in Threads : state[u] = "SLEEPING" => state'[u] = "SLEEPING"
    <3>1. ERR_TIMED_OUT \in BlockReturns
      BY DEF BlockReturns
    <3> QED BY <3>1, <2>1, <2>2, <2>3, <2>4, <1>2, <1>3, MakeReadyStep
  <2>6. SchedTypes'
    BY <2>4, <2>5, <1>1, <1>2 DEF SchedTypes
  <2> QED BY <2>5, <2>6, <1>6, <1>7, <1>8, TypeParts DEF KernelInv
<1>11. CASE callback[t] # "thread_sleep_handler" /\ state[t] # "BLOCKED"
  <2>1. crit' = crit + 1 /\ UNCHANGED <<waitVars, state, run_queue, run_queue_bitmap>>
    BY <1>5, <1>11 DEF thread_unblock_from_wait_queue
  <2>2. UNCHANGED <<wait, wcount, blocking, block_ret>>
    BY <2>1 DEF waitVars
  <2>3. SchedTypes' /\ WaitTypes'
    BY <2>1, <2>2, <1>1, <1>2 DEF SchedTypes, WaitTypes
  <2>4. RunQueuesExact' /\ WaitQueuesExact' /\ OneRunning' /\ CallsConsistent'
    BY <2>1, <2>2, <1>2, <1>7
       DEF KernelInv, RunQueuesExact, WaitQueuesExact, OneRunning, CallsConsistent
  <2> QED BY <2>1, <2>3, <2>4, <1>6, <1>7, <1>8, TypeParts DEF KernelInv
<1> QED BY <1>9, <1>10, <1>11

\* The thread_preempt() of arm_irq.
LEMMA PreemptStep ==
  ASSUME KernelInv, IrqPreempt
  PROVE  KernelInv'
<1>1. /\ SchedTypes /\ CallTypes /\ WaitTypes /\ TimerTypes /\ SyncTypes /\ OtherTypes
      /\ CallsConsistent /\ TimersOwned /\ current \in Threads
      /\ irq[current] = "timer_tick" /\ ~ints /\ pc[current] \notin LoopPCs
      /\ \A u \in Threads : pc[u] \notin LoopPCs
  BY TypeParts DEF KernelInv, SchedTypes, IrqPreempt, CallsConsistent
<1>2. /\ state[current] = "RUNNING" /\ Bootstrap \in Threads
      /\ \A u \in Threads : state[u] = "RUNNING" => u = current
      /\ current # Bootstrap => state[Bootstrap] = "READY"
      /\ RunQueuesMatch(run_queue, run_queue_bitmap, state, priority)
      /\ WaitQueuesMatch(wait, wcount, blocking, state)
  BY <1>1, CurrentFacts
<1> DEFINE q == thread_timer_tick
           st == [state EXCEPT ![current] = "READY"]
           rq == IF q[current] > 0 THEN insert_in_run_queue_head(run_queue, current)
                                   ELSE insert_in_run_queue_tail(run_queue, current)
           bm == run_queue_bitmap \cup {priority[current]}
<1>3. /\ thread_resched(rq, bm, st, q, crit + 1)
      /\ irq' = [irq EXCEPT ![current] = "preempted"]
      /\ UNCHANGED <<idle_thread, priority, ints, pc, obj, waitVars, timerVars, syncVars,
                     dpc_list>>
  BY DEF IrqPreempt, thread_preempt
<1>4. q \in [Threads -> 0 .. QUANTUM]
  BY <1>1, PrioritiesAssumption DEF thread_timer_tick, SchedTypes
<1>5. state \in StateFunctions /\ crit + 1 \in Int
  BY <1>1 DEF SchedTypes
<1>6. /\ RunQueuesMatch(rq, bm, st, priority) /\ rq \in RunQueues
      /\ st \in StateFunctions /\ bm \in SUBSET Priorities
  <2> HIDE DEF q
  <2> QED BY <1>1, <1>2, InsertInRunQueue DEF SchedTypes, OtherTypes
<1>7. st[current] = "READY" /\ \A u \in Threads : u # current => st[u] = state[u]
  BY <1>1, <1>5 DEF StateFunctions
<1>8. WaitQueuesMatch(wait, wcount, blocking, st)
  BY <1>1, <1>2, <1>5, WaitQueuesOtherState
<1> HIDE DEF q, st, rq, bm
<1>9. /\ current' \in Threads /\ st[current'] = "READY"
      /\ state' = [st EXCEPT ![current'] = "RUNNING"] /\ SchedTypes'
      /\ RunQueuesMatch(run_queue', run_queue_bitmap', state', priority)
  BY <1>3, <1>4, <1>5, <1>6, ReschedFacts DEF SchedTypes, KernelInv
<1>10. /\ state'[current'] = "RUNNING"
       /\ \A u \in Threads : u # current' => state'[u] = st[u]
  BY <1>6, <1>9 DEF StateFunctions
<1>11. UNCHANGED <<wait, wcount, blocking, block_ret, pc, obj, dpc_list, timer_queue, callback>>
  BY <1>3 DEF waitVars, timerVars
<1>12. RunQueuesExact' /\ WaitQueuesExact'
  BY <1>3, <1>6, <1>8, <1>9, <1>11, WaitQueuesOtherState DEF RunQueuesExact, WaitQueuesExact
<1>13. OneRunning'
  BY <1>1, <1>2, <1>7, <1>9, <1>10, <1>11 DEF OneRunning, LoopPCs, WakeLoops
<1>14. \A u \in Threads : \/ state'[u] = state[u]
                          \/ state[u] \in {"READY", "RUNNING"} /\ state'[u] \in {"READY", "RUNNING"}
  BY <1>2, <1>7, <1>9, <1>10
<1>15. TimersOwned'
  BY <1>1, <1>11, <1>14, TimersKept
<1>16. \A u \in Threads : irq'[u] # "timer_tick"
  BY <1>1, <1>3 DEF CallTypes, CallsConsistent
<1>17. WakeLoops \subseteq LoopPCs
  BY DEF LoopPCs
<1>18. CallsConsistent'
  BY <1>1, <1>11, <1>14, <1>16, <1>17 DEF CallsConsistent
<1>19. CallTypes' /\ WaitTypes' /\ OtherTypes'
  BY <1>1, <1>3, <1>11 DEF CallTypes, WaitTypes, OtherTypes
<1>20. TimerTypes' /\ SyncTypes'
  BY <1>1, <1>3 DEF TimerTypes, SyncTypes, timerVars, syncVars, mutexVars, eventVars
<1> QED BY <1>9, <1>12, <1>13, <1>15, <1>18, <1>19, <1>20, TypeParts DEF KernelInv

\* The return from arm_irq to the interrupted code.
LEMMA IrqReturnStep ==
  ASSUME KernelInv, IrqReturn
  PROVE  KernelInv'
<1>1. /\ SchedTypes /\ CallTypes /\ WaitTypes /\ TimerTypes /\ SyncTypes /\ OtherTypes
      /\ CallsConsistent /\ current \in Threads /\ irq[current] = "preempted"
  BY TypeParts DEF KernelInv, SchedTypes, IrqReturn
<1>2. /\ crit' = crit - 2 /\ ints' = TRUE
      /\ irq' = [irq EXCEPT ![current] = "none"]
      /\ UNCHANGED <<current, idle_thread, state, priority, quantum, saved, run_queue,
                     run_queue_bitmap, pc, obj, waitVars, timerVars, syncVars, dpc_list>>
  BY DEF IrqReturn
<1>3. UNCHANGED <<wait, wcount, blocking, block_ret, timer_queue, callback>>
  BY <1>2 DEF waitVars, timerVars
<1>4. SchedTypes' /\ OtherTypes'
  BY <1>1, <1>2 DEF SchedTypes, OtherTypes
<1>5. CallTypes' /\ WaitTypes'
  BY <1>1, <1>2, <1>3 DEF CallTypes, WaitTypes
<1>6. TimerTypes' /\ SyncTypes'
  BY <1>1, <1>2 DEF TimerTypes, SyncTypes, timerVars, syncVars, mutexVars, eventVars
<1>7. RunQueuesExact' /\ WaitQueuesExact' /\ OneRunning' /\ TimersOwned'
  BY <1>2, <1>3 DEF KernelInv, RunQueuesExact, WaitQueuesExact, OneRunning, TimersOwned
<1>8. CallsConsistent'
  <2>1. \A t \in Threads : pc[t] \notin LoopPCs /\ irq'[t] # "timer_tick"
    BY <1>1, <1>2 DEF CallsConsistent, CallTypes
  <2>2. UNCHANGED <<current, state, pc, obj, blocking, dpc_list>>
    BY <1>2, <1>3
  <2> QED BY <2>1, <2>2, <1>1 DEF CallsConsistent
<1> QED BY <1>4, <1>5, <1>6, <1>7, <1>8, TypeParts DEF KernelInv

-----------------------------------------------------------------------------
(* Calls that stay with the current thread.                                *)

\* A call that only writes fields of mutexes and events.
LEMMA QuietStep ==
  ASSUME KernelInv, UNCHANGED <<schedVars, callVars, waitVars, timerVars, dpc_list>>,
         SyncTypes'
  PROVE  KernelInv'
<1>1. UNCHANGED <<current, idle_thread, state, priority, quantum, saved, crit, ints,
                  run_queue, run_queue_bitmap, pc, obj, irq, wait, wcount, blocking,
                  block_ret, timer_queue, left, callback, dpc_list>>
  BY DEF schedVars, callVars, waitVars, timerVars
<1>2. SchedTypes' /\ CallTypes' /\ WaitTypes' /\ TimerTypes' /\ OtherTypes'
  BY <1>1, TypeParts
     DEF KernelInv, SchedTypes, CallTypes, WaitTypes, TimerTypes, OtherTypes
<1>3. RunQueuesExact' /\ WaitQueuesExact' /\ OneRunning' /\ TimersOwned' /\ CallsConsistent'
  BY <1>1 DEF KernelInv, RunQueuesExact, WaitQueuesExact, OneRunning, TimersOwned,
              CallsConsistent
<1> QED BY <1>2, <1>3, TypeParts DEF KernelInv

\* mutex_init() and event_init() empty the wait queue of an object that no
\* thread is in a call about.
LEMMA ReinitStep ==
  ASSUME KernelInv, NEW o \in Queues, Quiescent(o),
         wait' = [wait EXCEPT ![o] = <<>>], wcount' = [wcount EXCEPT ![o] = 0],
         UNCHANGED <<schedVars, callVars, blocking, block_ret, timerVars, dpc_list>>,
         SyncTypes'
  PROVE  KernelInv'
<1>1. UNCHANGED <<current, idle_thread, state, priority, quantum, saved, crit, ints,
                  run_queue, run_queue_bitmap, pc, obj, irq, blocking,
                  block_ret, timer_queue, left, callback, dpc_list>>
  BY DEF schedVars, callVars, timerVars
<1>2. WaitTypes /\ WaitTypes'
  <2>1. WaitTypes
    BY TypeParts DEF KernelInv
  <2>2. <<>> \in Seq(Threads)
    OBVIOUS
  <2>3. wait' \in WaitLists /\ wcount' \in [Queues -> Int]
    BY <2>1, <2>2 DEF WaitTypes, WaitLists
  <2> QED BY <2>1, <2>3, <1>1 DEF WaitTypes
<1>3. SchedTypes' /\ CallTypes' /\ TimerTypes' /\ OtherTypes'
  BY <1>1, TypeParts DEF KernelInv, SchedTypes, CallTypes, TimerTypes, OtherTypes
<1>4. RunQueuesExact' /\ OneRunning' /\ TimersOwned' /\ CallsConsistent'
  BY <1>1 DEF KernelInv, RunQueuesExact, OneRunning, TimersOwned, CallsConsistent
<1>5. WaitQueuesExact'
  <2>1. \A t \in Threads : ~(state[t] = "BLOCKED" /\ blocking[t] = o)
    BY DEF KernelInv, CallsConsistent, Quiescent
  <2>2. ASSUME NEW p \in Queues
        PROVE  /\ Distinct(wait'[p]) /\ wcount'[p] = Len(wait'[p])
               /\ \A t \in Threads : OccursIn(t, wait'[p]) <=>
                                       state[t] = "BLOCKED" /\ blocking[t] = p
    <3>1. CASE p = o
      <4>1. wait'[p] = <<>> /\ wcount'[p] = 0
        BY <3>1, <1>2 DEF WaitTypes, WaitLists
      <4> QED BY <4>1, <3>1, <2>1 DEF Distinct, OccursIn
    <3>2. CASE p # o
      <4>1. wait'[p] = wait[p] /\ wcount'[p] = wcount[p]
        BY <3>2, <1>2 DEF WaitTypes, WaitLists
      <4> QED BY <4>1 DEF KernelInv, WaitQueuesExact, WaitQueuesMatch
    <3> QED BY <3>1, <3>2
  <2> QED BY <2>2, <1>1 DEF WaitQueuesExact, WaitQueuesMatch
<1> QED BY <1>2, <1>3, <1>4, <1>5, TypeParts DEF KernelInv

\* thread_set_priority() of the running thread, which is in no run queue.
LEMMA PriorityFacts ==
  ASSUME KernelInv, pc[current] \notin LoopPCs, NEW x \in Int, thread_set_priority(x)
  PROVE  /\ SchedTypes' /\ WaitTypes' /\ TimerTypes' /\ SyncTypes' /\ OtherTypes'
         /\ RunQueuesExact' /\ WaitQueuesExact'
         /\ UNCHANGED <<current, state, blocking, timer_queue, callback, ints, dpc_list>>
<1>1. /\ SchedTypes /\ WaitTypes /\ TimerTypes /\ SyncTypes /\ OtherTypes
      /\ state[current] = "RUNNING" /\ current \in Threads
      /\ RunQueuesMatch(run_queue, run_queue_bitmap, state, priority)
      /\ WaitQueuesMatch(wait, wcount, blocking, state)
  BY CurrentFacts DEF SchedTypes
<1>2. /\ priority' = [priority EXCEPT ![current] = Clamp(x)]
      /\ UNCHANGED <<current, idle_thread, state, quantum, saved, crit, ints, run_queue,
                     run_queue_bitmap, waitVars, timerVars, syncVars, dpc_list>>
  BY DEF thread_set_priority
<1>3. UNCHANGED <<wait, wcount, blocking, block_ret, timer_queue, left, callback>>
  BY <1>2 DEF waitVars, timerVars
<1>4. Clamp(x) \in Priorities
  BY PrioritiesAssumption DEF Clamp, Priorities, LOWEST_PRIORITY, HIGHEST_PRIORITY
<1>5. /\ priority' \in [Threads -> Priorities]
      /\ \A u \in Threads : u # current => priority'[u] = priority[u]
  BY <1>1, <1>2, <1>4 DEF OtherTypes
<1>6. SchedTypes' /\ OtherTypes'
  BY <1>1, <1>2, <1>5 DEF SchedTypes, OtherTypes
<1>7. WaitTypes' /\ TimerTypes' /\ SyncTypes'
  BY <1>1, <1>2, <1>3 DEF WaitTypes, TimerTypes, SyncTypes, syncVars, mutexVars, eventVars
<1>8. RunQueuesExact'
  <2>1. \A u \in Threads, y \in Priorities :
          (state'[u] = "READY" /\ priority'[u] = y) <=> (state[u] = "READY" /\ priority[u] = y)
    BY <1>1, <1>2, <1>5
  <2>2. UNCHANGED <<run_queue, run_queue_bitmap>>
    BY <1>2
  <2> QED BY <2>1, <2>2, <1>1 DEF RunQueuesExact, RunQueuesMatch
<1>9. WaitQueuesExact'
  BY <1>1, <1>2, <1>3 DEF WaitQueuesExact
<1> QED BY <1>2, <1>3, <1>6, <1>7, <1>8, <1>9

\* thread_set_priority() by a worker.
LEMMA SetPriorityStep ==
  ASSUME KernelInv, SetPriority
  PROVE  KernelInv'
<1>1. pc[current] \notin LoopPCs /\ UNCHANGED callVars
  BY DEF SetPriority, Calls, LoopPCs, WakeLoops
<1>2. PICK x \in Int : thread_set_priority(x)
  BY KernelAssumption DEF SetPriority
<1>3. /\ SchedTypes' /\ WaitTypes' /\ TimerTypes' /\ SyncTypes' /\ OtherTypes'
      /\ RunQueuesExact' /\ WaitQueuesExact'
      /\ UNCHANGED <<current, state, blocking, timer_queue, callback, ints, dpc_list>>
  BY <1>1, <1>2, PriorityFacts
<1>4. CallTypes'
  BY <1>1, TypeParts DEF KernelInv, CallTypes, callVars
<1>5. OneRunning' /\ TimersOwned' /\ CallsConsistent'
  BY <1>1, <1>3 DEF KernelInv, OneRunning, TimersOwned, CallsConsistent, callVars
<1> QED BY <1>3, <1>4, <1>5, TypeParts DEF KernelInv

\* The boot thread becomes the idle thread.
LEMMA BecomeIdleStep ==
  ASSUME KernelInv, thread_become_idle
  PROVE  KernelInv'
<1>0. pc[current] \notin LoopPCs \cup TimedPCs /\ irq[current] = "none"
      /\ pc[current] \in BootPCs
  BY DEF thread_become_idle, Returns, LoopPCs, WakeLoops, TimedPCs, BootPCs
<1>1. /\ SchedTypes /\ CallTypes /\ WaitTypes /\ TimerTypes /\ SyncTypes /\ OtherTypes
      /\ current \in Threads /\ current = Bootstrap /\ TimersOwned
      /\ RunQueuesExact /\ WaitQueuesExact /\ state[current] = "RUNNING"
      /\ \A u \in Threads : state[u] = "RUNNING" => u = current
  BY <1>0, CurrentFacts DEF SchedTypes, KernelInv
<1>2. ASSUME NEW p \in {"set_idle_thread", "idle"}, InCall(p, NoObject),
             UNCHANGED <<current, state, blocking, timer_queue, callback, dpc_list>>
      PROVE  OneRunning' /\ TimersOwned' /\ CallsConsistent' /\ CallTypes'
  <2>1. p \in PCs /\ p \in BootPCs /\ p \notin LoopPCs \cup TimedPCs \cup ResumePCs
        /\ p # "thread_cleanup_dpc" /\ p \notin DpcPCs \cup MutexPCs
    BY DEF PCs, BootPCs, LoopPCs, WakeLoops, TimedPCs, ResumePCs, DpcPCs, MutexPCs
  <2>2. /\ pc'[current] = p
        /\ \A u \in Threads : u # current => pc'[u] = pc[u] /\ obj'[u] = obj[u]
    BY <1>1, <1>2 DEF InCall, CallTypes
  <2>3. \A u \in Threads : state'[u] = "BLOCKED" =>
                             obj'[u] \in Queues /\ blocking'[u] = obj'[u]
    <3>1. \A u \in Threads : state[u] = "BLOCKED" => obj[u] \in Queues /\ blocking[u] = obj[u]
      BY DEF KernelInv, CallsConsistent
    <3> QED BY <3>1, <2>2, <1>1, <1>2
  <2>4. \A u \in Threads : pc'[u] \in TimedPCs =>
                             state'[u] \in {"BLOCKED", "READY", "RUNNING"}
    <3>1. \A u \in Threads : pc[u] \in TimedPCs => state[u] \in {"BLOCKED", "READY", "RUNNING"}
      BY DEF KernelInv, CallsConsistent
    <3> QED BY <3>1, <2>1, <2>2, <1>2
  <2>5. state' \in StateFunctions
    BY <1>1, <1>2 DEF SchedTypes
  <2>6. CallsConsistent' /\ \A u \in Threads : pc'[u] \notin LoopPCs
    BY <2>1, <2>3, <2>4, <2>5, <1>0, <1>2, CallFacts
  <2>7. OneRunning'
    BY <2>6, <1>1, <1>2 DEF OneRunning, LoopPCs, WakeLoops
  <2>8. TimersOwned'
    BY <2>2, <1>0, <1>1, <1>2, TimersKept
  <2>9. CallTypes'
    BY <2>1, <1>1, <1>2, InCallTypes
  <2> QED BY <2>6, <2>7, <2>8, <2>9
<1>3. CASE /\ thread_set_priority(IDLE_PRIORITY)
           /\ InCall("set_idle_thread", NoObject)
  <2>1. IDLE_PRIORITY \in Int
    BY DEF IDLE_PRIORITY, LOWEST_PRIORITY
  <2>2. /\ SchedTypes' /\ WaitTypes' /\ TimerTypes' /\ SyncTypes' /\ OtherTypes'
        /\ RunQueuesExact' /\ WaitQueuesExact'
        /\ UNCHANGED <<current, state, blocking, timer_queue, callback, ints, dpc_list>>
    BY <2>1, <1>0, <1>3, PriorityFacts
  <2> QED BY <2>2, <1>2, <1>3, TypeParts DEF KernelInv
<1>4. CASE /\ idle_thread' = current /\ InCall("idle", NoObject)
           /\ UNCHANGED <<current, state, priority, quantum, saved, crit, ints, run_queue,
                          run_queue_bitmap, waitVars, timerVars, syncVars, dpc_list>>
  <2>1. UNCHANGED <<wait, wcount, blocking, block_ret, timer_queue, left, callback>>
    BY <1>4 DEF waitVars, timerVars
  <2>2. SchedTypes' /\ WaitTypes' /\ TimerTypes' /\ OtherTypes'
    BY <2>1, <1>1, <1>4 DEF SchedTypes, WaitTypes, TimerTypes, OtherTypes
  <2>3. SyncTypes'
    BY <1>1, <1>4 DEF SyncTypes, syncVars, mutexVars, eventVars
  <2>4. RunQueuesExact' /\ WaitQueuesExact'
    BY <2>1, <1>1, <1>4 DEF RunQueuesExact, WaitQueuesExact
  <2> QED BY <2>1, <2>2, <2>3, <2>4, <1>2, <1>4, TypeParts DEF KernelInv
<1> QED BY <1>3, <1>4 DEF thread_become_idle

\* The unprotected check of thread_resume().
LEMMA ResumeCheckStep ==
  ASSUME KernelInv, ResumeCheck
  PROVE  KernelInv'
<1>0. /\ pc[current] = "thread_resume" /\ irq[current] = "none"
      /\ "thread_resume" \in ResumePCs /\ "thread_resume" \notin LoopPCs \cup TimedPCs
      /\ "thread_resume" \notin BootPCs
  BY DEF ResumeCheck, Calls, ResumePCs, LoopPCs, WakeLoops, TimedPCs, BootPCs
<1>1. /\ SchedTypes /\ CallTypes /\ WaitTypes /\ TimerTypes /\ SyncTypes /\ OtherTypes
      /\ current \in Threads /\ state[current] = "RUNNING" /\ CallsConsistent
      /\ \A u \in Threads : state[u] = "RUNNING" => u = current
      /\ state[Bootstrap] \in {"READY", "RUNNING"} /\ TimersOwned
      /\ RunQueuesExact /\ WaitQueuesExact
  BY <1>0, CurrentFacts DEF SchedTypes, KernelInv, OneRunning
<1>2. state[obj[current]] = "SUSPENDED" /\ obj[current] \in Threads
  BY <1>0, <1>1 DEF CallsConsistent
<1>3. /\ InCall("thread_resume_enter", obj[current])
      /\ UNCHANGED <<schedVars, waitVars, timerVars, syncVars, dpc_list>>
  BY <1>2 DEF ResumeCheck
<1>4. UNCHANGED <<current, idle_thread, state, priority, quantum, saved, crit, ints,
                  run_queue, run_queue_bitmap, wait, wcount, blocking, block_ret,
                  timer_queue, left, callback, dpc_list>>
  BY <1>3 DEF schedVars, waitVars, timerVars
<1>5. SchedTypes' /\ WaitTypes' /\ TimerTypes' /\ OtherTypes'
  BY <1>1, <1>4 DEF SchedTypes, WaitTypes, TimerTypes, OtherTypes
<1>6. SyncTypes'
  BY <1>1, <1>3 DEF SyncTypes, syncVars, mutexVars, eventVars
<1> DEFINE p == "thread_resume_enter"
<1>7. /\ p \in PCs /\ p \in ResumePCs
      /\ p \notin LoopPCs \cup TimedPCs \cup BootPCs \cup DpcPCs \cup MutexPCs
      /\ p # "thread_cleanup_dpc"
  BY DEF PCs, ResumePCs, LoopPCs, WakeLoops, TimedPCs, BootPCs, DpcPCs, MutexPCs
<1>8. CallTypes'
  BY <1>1, <1>2, <1>3, <1>7, InCallTypes
<1>9. /\ pc'[current] = p /\ obj' = obj /\ irq' = irq
      /\ \A u \in Threads : u # current => pc'[u] = pc[u]
  BY <1>1, <1>3 DEF InCall, CallTypes
<1> HIDE DEF p
<1>10. RunQueuesExact' /\ WaitQueuesExact'
  BY <1>1, <1>4 DEF RunQueuesExact, WaitQueuesExact
<1>11. OneRunning'
  BY <1>1, <1>4, <1>7, <1>9 DEF OneRunning, LoopPCs, WakeLoops
<1>12. TimersOwned'
  BY <1>0, <1>1, <1>4, <1>9, TimersKept
<1>13. \A t \in Threads : pc'[t] \in ResumePCs <=> pc[t] \in ResumePCs
  BY <1>0, <1>7, <1>9
<1>14. ASSUME NEW t \in Threads
       PROVE  /\ pc'[t] \in BootPCs <=> t = Bootstrap
              /\ pc'[t] \in DpcPCs => pc[t] \in DpcPCs
              /\ pc'[t] \notin LoopPCs
              /\ irq'[t] # "timer_tick"
              /\ pc'[t] \in MutexPCs => pc[t] \in MutexPCs
              /\ pc'[t] \in TimedPCs => pc[t] \in TimedPCs
              /\ pc'[t] = "thread_cleanup_dpc" => pc[t] = "thread_cleanup_dpc"
  <2>1. CASE t = current
    BY <2>1, <1>0, <1>1, <1>7, <1>9 DEF CallsConsistent
  <2>2. CASE t # current
    BY <2>2, <1>0, <1>1, <1>9 DEF CallsConsistent
  <2> QED BY <2>1, <2>2
<1>15. CallsConsistent'
  <2>1. WakeLoops \subseteq LoopPCs
    BY DEF LoopPCs
  <2> QED BY <2>1, <1>1, <1>4, <1>9, <1>13, <1>14 DEF CallsConsistent, MutexPCs
<1> QED BY <1>5, <1>6, <1>8, <1>10, <1>11, <1>12, <1>15, TypeParts DEF KernelInv

-----------------------------------------------------------------------------
(* The actions of Mutex and Event.                                         *)

\* The facts about the program counter that all calls of a worker share.
LEMMA UserFacts ==
  /\ "user" \notin LoopPCs \cup TimedPCs \cup BootPCs \cup ResumePCs \cup DpcPCs
  /\ "user" \in PCs
  /\ pc[current] \notin BootPCs => PlainMove("user", NoObject)
  /\ Mutexes \subseteq Queues /\ Events \subseteq Queues /\ DpcEvent \in Queues
  /\ NO_ERROR \in BlockReturns
BY DEF LoopPCs, WakeLoops, TimedPCs, BootPCs, ResumePCs, DpcPCs, MutexPCs, PCs, PlainMove,
       Queues, AllEvents, BlockReturns

\* Every action on a mutex preserves the invariant.
LEMMA MutexStep ==
  ASSUME KernelInv, NEW m \in Mutexes, UNCHANGED <<eventVars, dpc_list>>,
         \/ mutex_acquire_free(m) \/ mutex_acquire(m) \/ mutex_acquire_timeout(m)
         \/ mutex_release(m) \/ mutex_destroy(m) \/ (Quiescent(m) /\ mutex_init(m))
  PROVE  KernelInv'
<1>0. pc[current] = "user" /\ irq[current] = "none" /\ m \in Queues /\ m \in Mutexes \cup Events
  BY UserFacts DEF mutex_acquire_free, mutex_acquire, mutex_acquire_timeout,
     mutex_acquire_block, mutex_release, mutex_destroy, mutex_init, Calls
<1>1. /\ SyncTypes /\ OtherTypes /\ current \in Threads
      /\ count \in [Mutexes -> Int] /\ holder \in [Mutexes -> Threads \cup {NoThread}]
      /\ owned \in [Threads -> SUBSET Mutexes]
      /\ destroyed \in SUBSET (Mutexes \cup Events)
      /\ UNCHANGED <<signalled, autounsignal, dpc_list>>
  BY <1>0, UserFacts, CurrentFacts DEF SchedTypes, SyncTypes, eventVars
<1>2. ASSUME count' \in [Mutexes -> Int], holder' \in [Mutexes -> Threads \cup {NoThread}],
             owned' \in [Threads -> SUBSET Mutexes],
             destroyed' \in SUBSET (Mutexes \cup Events)
      PROVE  SyncTypes'
  BY <1>1, <1>2 DEF SyncTypes
<1>3. CASE mutex_acquire_free(m)
  <2>1. /\ count' = [count EXCEPT ![m] = @ + 1] /\ holder' = [holder EXCEPT ![m] = current]
        /\ owned' = [owned EXCEPT ![current] = @ \cup {m}]
        /\ UNCHANGED <<schedVars, callVars, waitVars, timerVars, destroyed>>
    BY <1>3 DEF mutex_acquire_free
  <2>2. SyncTypes'
    BY <2>1, <1>1, <1>2
  <2> QED BY <2>1, <2>2, QuietStep
<1>4. ASSUME NEW timeout, NEW p \in MutexPCs, mutex_acquire_block(m, timeout, p),
             \/ timeout = INFINITE_TIME
             \/ timeout \in 1 .. MaxDelay /\ p \in TimedPCs
      PROVE  KernelInv'
  <2>1. /\ count' = [count EXCEPT ![m] = @ + 1] /\ disable_ints
        /\ wait_queue_block(m, timeout) /\ InCall(p, m)
        /\ UNCHANGED <<idle_thread, priority, holder, owned, destroyed>>
    BY <1>4 DEF mutex_acquire_block
  <2>2. SyncTypes' /\ OtherTypes'
    BY <2>1, <1>1, <1>2 DEF OtherTypes, disable_ints
  <2>3. p \in PCs /\ PlainMove(p, m)
    BY <1>0, UserFacts DEF PlainMove, PCs, MutexPCs, LoopPCs, WakeLoops, TimedPCs, BootPCs,
                           ResumePCs, DpcPCs
  <2>4. /\ SchedTypes' /\ CallTypes' /\ WaitTypes' /\ TimerTypes'
        /\ RunQueuesExact' /\ WaitQueuesExact' /\ OneRunning' /\ CallsConsistent'
        /\ TimersOwned'
    BY <2>1, <2>3, <1>0, <1>1, <1>4, UserFacts, BlockStep
  <2> QED BY <2>2, <2>4, TypeParts DEF KernelInv
<1>5. CASE mutex_acquire(m)
  BY <1>4, <1>5 DEF mutex_acquire, MutexPCs
<1>6. CASE mutex_acquire_timeout(m)
  <2>1. PICK timeout \in 1 .. MaxDelay :
          mutex_acquire_block(m, timeout, "mutex_acquire_timeout")
    BY <1>6, MutexAssumption DEF mutex_acquire_timeout
  <2> QED BY <2>1, <1>4 DEF MutexPCs, TimedPCs
<1>7. CASE mutex_release(m)
  <2>1. /\ holder' = [holder EXCEPT ![m] = NoThread] /\ count' = [count EXCEPT ![m] = @ - 1]
        /\ owned' = [owned EXCEPT ![current] = @ \ {m}]
        /\ UNCHANGED <<timerVars, destroyed>>
    BY <1>7 DEF mutex_release
  <2>2. SyncTypes'
    BY <2>1, <1>1, <1>2
  <2>3. CASE count[m] - 1 >= 1 /\ wait[m] # <<>>
    <3>1. /\ disable_ints /\ wait_queue_wake_one_resched(m, NO_ERROR)
          /\ InCall("wake_return", NoObject) /\ UNCHANGED <<idle_thread, priority>>
      BY <2>3, <1>7 DEF mutex_release
    <3>2. OtherTypes'
      BY <3>1, <1>1 DEF OtherTypes, disable_ints
    <3>3. /\ SchedTypes' /\ CallTypes' /\ WaitTypes' /\ TimerTypes'
          /\ RunQueuesExact' /\ WaitQueuesExact' /\ OneRunning' /\ CallsConsistent'
          /\ TimersOwned'
      BY <3>1, <2>1, <2>3, <1>0, <1>1, UserFacts, WakeOneStep
    <3> QED BY <3>2, <3>3, <2>2, TypeParts DEF KernelInv
  <2>4. CASE ~(count[m] - 1 >= 1 /\ wait[m] # <<>>)
    <3>1. UNCHANGED <<schedVars, callVars, waitVars>>
      BY <2>4, <1>7 DEF mutex_release
    <3> QED BY <3>1, <2>1, <2>2, <1>1, QuietStep
  <2> QED BY <2>3, <2>4
<1>8. CASE mutex_destroy(m)
  <2>1. /\ count' = [count EXCEPT ![m] = 0] /\ destroyed' = destroyed \cup {m}
        /\ wait_queue_wake_all_begin(m, "destroy_all") /\ Calls("user")
        /\ UNCHANGED <<waitVars, timerVars, holder, owned>>
    BY <1>8 DEF mutex_destroy
  <2>2. SyncTypes'
    BY <2>1, <1>0, <1>1, <1>2
  <2>3. /\ SchedTypes' /\ CallTypes' /\ WaitTypes' /\ TimerTypes' /\ OtherTypes'
        /\ RunQueuesExact' /\ WaitQueuesExact' /\ OneRunning' /\ CallsConsistent'
        /\ TimersOwned'
    BY <2>1, <1>0, <1>1, WakeAllBeginStep
  <2> QED BY <2>2, <2>3, TypeParts DEF KernelInv
<1>9. CASE Quiescent(m) /\ mutex_init(m)
  <2>1. /\ count' = [count EXCEPT ![m] = 0] /\ holder' = [holder EXCEPT ![m] = NoThread]
        /\ wait' = [wait EXCEPT ![m] = <<>>] /\ wcount' = [wcount EXCEPT ![m] = 0]
        /\ destroyed' = destroyed \ {m} /\ owned' = [t \in Threads |-> owned[t] \ {m}]
        /\ Quiescent(m)
        /\ UNCHANGED <<schedVars, callVars, blocking, block_ret, timerVars>>
    BY <1>9 DEF mutex_init
  <2>2. SyncTypes'
    BY <2>1, <1>1, <1>2
  <2> QED BY <2>1, <2>2, <1>0, <1>1, ReinitStep
<1> QED BY <1>3, <1>5, <1>6, <1>7, <1>8, <1>9

\* Both acquire functions after their wait.
LEMMA MutexReturnStep ==
  ASSUME KernelInv, UNCHANGED <<eventVars, dpc_list>>,
         mutex_acquire_return \/ mutex_acquire_timeout_return
  PROVE  KernelInv'
<1> DEFINE m == obj[current]
<1>0. /\ irq[current] = "none" /\ pc[current] \in MutexPCs
      /\ MutexPCs \cap (LoopPCs \cup BootPCs) = {}
  BY DEF mutex_acquire_return, mutex_acquire_timeout_return, Returns, MutexPCs, LoopPCs,
         WakeLoops, BootPCs
<1>1. /\ SyncTypes /\ current \in Threads /\ m \in Mutexes
      /\ count \in [Mutexes -> Int] /\ holder \in [Mutexes -> Threads \cup {NoThread}]
      /\ owned \in [Threads -> SUBSET Mutexes]
      /\ UNCHANGED <<signalled, autounsignal, dpc_list>>
  <2>1. SyncTypes /\ SchedTypes
    BY <1>0, CurrentFacts
  <2>2. m \in Mutexes
    BY <2>1, <1>0 DEF KernelInv, CallsConsistent, MutexPCs, SchedTypes
  <2> QED BY <2>1, <2>2 DEF SchedTypes, SyncTypes, eventVars
<1>2. /\ exit_critical_sections(2) /\ InCall("user", NoObject)
      /\ UNCHANGED <<current, idle_thread, state, priority, quantum, saved, run_queue,
                     run_queue_bitmap, waitVars, destroyed>>
      /\ \/ UNCHANGED timerVars /\ pc[current] \notin TimedPCs
         \/ timer_cancel(current)
  BY DEF mutex_acquire_return, mutex_acquire_timeout_return, Returns, TimedPCs
<1>3. /\ count' \in [Mutexes -> Int] /\ holder' \in [Mutexes -> Threads \cup {NoThread}]
      /\ owned' \in [Threads -> SUBSET Mutexes]
  <2> HIDE DEF m
  <2>1. ASSUME count' = count \/ count' = [count EXCEPT ![m] = @ - 1],
               holder' = holder \/ holder' = [holder EXCEPT ![m] = current],
               owned' = owned \/ owned' = [owned EXCEPT ![current] = @ \cup {m}]
        PROVE  /\ count' \in [Mutexes -> Int] /\ holder' \in [Mutexes -> Threads \cup {NoThread}]
               /\ owned' \in [Threads -> SUBSET Mutexes]
    BY <2>1, <1>1
  <2> QED BY <2>1 DEF mutex_acquire_return, mutex_acquire_timeout_return, m
<1>4. SyncTypes'
  BY <1>1, <1>2, <1>3 DEF SyncTypes
<1> QED BY <1>0, <1>1, <1>2, <1>4, UserFacts, ReturnStep

\* Waiting for an event, by a worker or by the dpc thread.
LEMMA EventBlockStep ==
  ASSUME KernelInv, NEW e \in AllEvents, NEW timeout, NEW p,
         irq[current] = "none", pc[current] \in {"user", "dpc_wait"},
         event_wait_block(e, timeout, p), UNCHANGED dpc_list,
         \/ /\ pc[current] = "user"
            /\ \/ timeout = INFINITE_TIME /\ p = "event_wait"
               \/ timeout \in 1 .. MaxDelay /\ p = "event_wait_timeout"
         \/ pc[current] = "dpc_wait" /\ timeout = INFINITE_TIME /\ p = "dpc_event_wait"
  PROVE  KernelInv'
<1>0. /\ pc[current] \notin LoopPCs \cup TimedPCs \cup BootPCs
      /\ p \in PCs \ (LoopPCs \cup BootPCs \cup ResumePCs \cup MutexPCs)
      /\ p # "thread_cleanup_dpc"
      /\ p \in DpcPCs => pc[current] \in DpcPCs
      /\ timeout # INFINITE_TIME => p \in TimedPCs
      /\ e \in Queues
  BY DEF PCs, MutexPCs, LoopPCs, WakeLoops, TimedPCs, BootPCs, ResumePCs, DpcPCs, Queues
<1>1. SyncTypes /\ OtherTypes /\ SchedTypes /\ current \in Threads /\ CallsConsistent
  BY <1>0, CurrentFacts DEF KernelInv, SchedTypes
<1>2. PlainMove(p, e)
  BY <1>0, <1>1 DEF PlainMove, CallsConsistent
<1>3. /\ disable_ints /\ wait_queue_block(e, timeout) /\ InCall(p, e)
      /\ UNCHANGED <<idle_thread, priority, mutexVars, destroyed, eventVars>>
  BY DEF event_wait_block
<1>4. SyncTypes' /\ OtherTypes'
  BY <1>1, <1>3 DEF SyncTypes, OtherTypes, mutexVars, eventVars, disable_ints
<1>5. /\ SchedTypes' /\ CallTypes' /\ WaitTypes' /\ TimerTypes'
      /\ RunQueuesExact' /\ WaitQueuesExact' /\ OneRunning' /\ CallsConsistent'
      /\ TimersOwned'
  BY <1>0, <1>2, <1>3, BlockStep
<1> QED BY <1>4, <1>5, TypeParts DEF KernelInv

\* Every action of a worker on an event preserves the invariant.
LEMMA EventStep ==
  ASSUME KernelInv, NEW e \in Events, NEW r \in BOOLEAN, UNCHANGED dpc_list,
         \/ event_wait(e) \/ event_unsignal(e) \/ event_signal(e, r)
         \/ event_destroy(e) \/ (Quiescent(e) /\ event_init(e))
  PROVE  KernelInv'
<1>0. /\ pc[current] = "user" /\ irq[current] = "none" /\ Calls("user") /\ e \in Queues
      /\ e \in AllEvents
  BY UserFacts DEF event_wait, event_unsignal, event_signal, event_destroy, event_init,
                   Calls, AllEvents
<1>1. /\ SyncTypes /\ OtherTypes /\ SchedTypes /\ current \in Threads
      /\ destroyed \in SUBSET (Mutexes \cup Events)
      /\ signalled \in [AllEvents -> BOOLEAN] /\ autounsignal \in [AllEvents -> BOOLEAN]
  BY <1>0, UserFacts, CurrentFacts DEF SchedTypes, SyncTypes
<1>2. ASSUME UNCHANGED mutexVars, destroyed' \in SUBSET (Mutexes \cup Events),
             signalled' \in [AllEvents -> BOOLEAN], autounsignal' \in [AllEvents -> BOOLEAN]
      PROVE  SyncTypes'
  BY <1>1, <1>2 DEF SyncTypes, mutexVars
<1>3. CASE event_wait(e)
  <2>1. CASE event_wait_through(e) /\ UNCHANGED callVars
    <3>1. /\ signalled' = [signalled EXCEPT ![e] = ~autounsignal[e]]
          /\ UNCHANGED <<schedVars, waitVars, timerVars, mutexVars, destroyed, autounsignal>>
      BY <2>1 DEF event_wait_through
    <3>2. signalled' \in [AllEvents -> BOOLEAN]
      BY <3>1, <1>0, <1>1
    <3>3. SyncTypes'
      BY <3>1, <3>2, <1>1, <1>2
    <3> QED BY <3>1, <3>3, <2>1, QuietStep
  <2>2. CASE event_wait_block(e, INFINITE_TIME, "event_wait")
    BY <2>2, <1>0, EventBlockStep
  <2>3. CASE \E timeout \in EventTimeouts : event_wait_block(e, timeout, "event_wait_timeout")
    <3>1. PICK timeout \in 1 .. MaxDelay : event_wait_block(e, timeout, "event_wait_timeout")
      BY <2>3, EventAssumption
    <3> QED BY <3>1, <1>0, EventBlockStep
  <2> QED BY <2>1, <2>2, <2>3, <1>3 DEF event_wait
<1>4. CASE event_unsignal(e)
  <2>1. /\ signalled' = [signalled EXCEPT ![e] = FALSE]
        /\ UNCHANGED <<schedVars, callVars, waitVars, timerVars, mutexVars, destroyed,
                       autounsignal>>
    BY <1>4 DEF event_unsignal
  <2>2. SyncTypes'
    BY <2>1, <1>1, <1>2
  <2> QED BY <2>1, <2>2, QuietStep
<1>5. CASE event_signal(e, r)
  <2>0. UNCHANGED <<timerVars, mutexVars, destroyed, autounsignal>>
    BY <1>5 DEF event_signal
  <2>1. ASSUME signalled' = signalled \/ signalled' = [signalled EXCEPT ![e] = TRUE]
        PROVE  SyncTypes'
    <3>1. signalled' \in [AllEvents -> BOOLEAN]
      BY <2>1, <1>1
    <3> QED BY <3>1, <2>0, <1>1, <1>2
  <2>2. CASE /\ signalled' = [signalled EXCEPT ![e] = TRUE]
             /\ UNCHANGED <<schedVars, callVars, waitVars>>
    BY <2>0, <2>1, <2>2, QuietStep
  <2>3. CASE /\ wait[e] # <<>> /\ disable_ints /\ wait_queue_wake_one_resched(e, NO_ERROR)
             /\ InCall("wake_return", NoObject)
             /\ UNCHANGED <<idle_thread, priority, signalled>>
    <3>1. OtherTypes' /\ SyncTypes'
      BY <2>1, <2>3, <1>1 DEF OtherTypes, disable_ints
    <3>2. /\ SchedTypes' /\ CallTypes' /\ WaitTypes' /\ TimerTypes'
          /\ RunQueuesExact' /\ WaitQueuesExact' /\ OneRunning' /\ CallsConsistent'
          /\ TimersOwned'
      BY <2>0, <2>3, <1>0, UserFacts, WakeOneStep
    <3> QED BY <3>1, <3>2, TypeParts DEF KernelInv
  <2>4. CASE /\ wait[e] # <<>> /\ MakeReady(e, Tail(wait[e]), Head(wait[e]), NO_ERROR)
             /\ UNCHANGED <<current, idle_thread, priority, quantum, saved, crit, ints,
                            callVars, signalled>>
    <3>1. /\ state' \in StateFunctions /\ WaitTypes'
          /\ run_queue' \in RunQueues /\ run_queue_bitmap' \in SUBSET Priorities
          /\ RunQueuesExact' /\ WaitQueuesExact' /\ OneRunning' /\ CallsConsistent'
          /\ \A u \in Threads : state[u] = "SLEEPING" => state'[u] = "SLEEPING"
      BY <2>4, <1>0, UserFacts, FirstWaiter, MakeReadyStep
    <3>2. SyncTypes'
      BY <2>1, <2>4
    <3>3. SchedTypes' /\ OtherTypes'
      BY <3>1, <2>4, <1>1 DEF SchedTypes, OtherTypes
    <3>4. CallTypes' /\ TimerTypes'
      BY <2>0, <2>4, TypeParts DEF KernelInv, CallTypes, TimerTypes, callVars, timerVars
    <3>5. TimersOwned'
      BY <3>1, <2>0, <2>4, TimersKept DEF KernelInv, callVars, timerVars
    <3> QED BY <3>1, <3>2, <3>3, <3>4, <3>5, TypeParts DEF KernelInv
  <2>5. ASSUME NEW p \in {"signal_all", "signal_all_noresched"},
               wait_queue_wake_all_begin(e, p), UNCHANGED waitVars,
               signalled' = [signalled EXCEPT ![e] = TRUE]
        PROVE  KernelInv'
    <3>1. /\ SchedTypes' /\ CallTypes' /\ WaitTypes' /\ TimerTypes' /\ OtherTypes'
          /\ RunQueuesExact' /\ WaitQueuesExact' /\ OneRunning' /\ CallsConsistent'
          /\ TimersOwned'
      BY <2>0, <2>5, <1>0, WakeAllBeginStep
    <3> QED BY <3>1, <2>1, <2>5, TypeParts DEF KernelInv
  <2> QED BY <2>2, <2>3, <2>4, <2>5, <1>5 DEF event_signal
<1>6. CASE event_destroy(e)
  <2>1. /\ signalled' = [signalled EXCEPT ![e] = FALSE]
        /\ autounsignal' = [autounsignal EXCEPT ![e] = FALSE]
        /\ destroyed' = destroyed \cup {e} /\ wait_queue_wake_all_begin(e, "destroy_all")
        /\ UNCHANGED <<waitVars, timerVars, mutexVars>>
    BY <1>6 DEF event_destroy
  <2>2. SyncTypes'
    BY <2>1, <1>1, <1>2
  <2>3. /\ SchedTypes' /\ CallTypes' /\ WaitTypes' /\ TimerTypes' /\ OtherTypes'
        /\ RunQueuesExact' /\ WaitQueuesExact' /\ OneRunning' /\ CallsConsistent'
        /\ TimersOwned'
    BY <2>1, <1>0, WakeAllBeginStep
  <2> QED BY <2>2, <2>3, TypeParts DEF KernelInv
<1>7. CASE Quiescent(e) /\ event_init(e)
  <2>1. /\ wait' = [wait EXCEPT ![e] = <<>>] /\ wcount' = [wcount EXCEPT ![e] = 0]
        /\ destroyed' = destroyed \ {e} /\ Quiescent(e)
        /\ UNCHANGED <<schedVars, callVars, blocking, block_ret, timerVars, mutexVars>>
    BY <1>7 DEF event_init
  <2>2. PICK initial \in BOOLEAN, flag \in BOOLEAN :
          /\ signalled' = [signalled EXCEPT ![e] = initial]
          /\ autounsignal' = [autounsignal EXCEPT ![e] = flag]
    BY <1>7, EventAssumption DEF event_init
  <2>3. SyncTypes'
    BY <2>1, <2>2, <1>1, <1>2
  <2> QED BY <2>1, <2>3, <1>0, ReinitStep
<1> QED BY <1>3, <1>4, <1>5, <1>6, <1>7

\* event_wait_timeout() after its wait.
LEMMA EventReturnStep ==
  ASSUME KernelInv, event_wait_returns \/ DpcWaitReturn, UNCHANGED dpc_list
  PROVE  KernelInv'
<1>1. PICK p \in {"user", "dpc_pop"} :
        /\ event_wait_return(p) /\ irq[current] = "none"
        /\ p = "dpc_pop" => pc[current] = "dpc_event_wait"
        /\ pc[current] \in {"event_wait", "event_wait_timeout", "dpc_event_wait"}
        /\ \/ UNCHANGED timerVars /\ pc[current] # "event_wait_timeout"
           \/ timer_cancel(current)
  BY DEF event_wait_returns, DpcWaitReturn, Returns
<1>2. /\ exit_critical_sections(2) /\ InCall(p, NoObject)
      /\ UNCHANGED <<current, idle_thread, state, priority, quantum, saved, run_queue,
                     run_queue_bitmap, waitVars, mutexVars, destroyed, eventVars>>
  BY <1>1 DEF event_wait_return
<1>3. /\ pc[current] \notin LoopPCs \cup BootPCs
      /\ pc[current] \in TimedPCs <=> pc[current] = "event_wait_timeout"
      /\ p = "dpc_pop" => pc[current] \in DpcPCs
      /\ p \in PCs \ (LoopPCs \cup BootPCs \cup TimedPCs \cup ResumePCs \cup MutexPCs)
      /\ p # "thread_cleanup_dpc"
      /\ p \in DpcPCs => p = "dpc_pop"
  BY <1>1 DEF LoopPCs, WakeLoops, BootPCs, TimedPCs, DpcPCs, PCs, ResumePCs, MutexPCs
<1>4. PlainMove(p, NoObject)
  BY <1>3 DEF PlainMove, KernelInv, CallsConsistent, TypeOK
<1>5. SyncTypes'
  BY <1>2, <1>3, CurrentFacts DEF SyncTypes, mutexVars, eventVars
<1> QED BY <1>1, <1>2, <1>3, <1>4, <1>5, ReturnStep

\* The steps of wait_queue_wake_all() after its start.
LEMMA WakeAllLoopStep ==
  ASSUME KernelInv, UNCHANGED <<syncVars, dpc_list>>,
         WakeAllStep \/ WakeAllResched \/ WakeAllDone \/ WakeReturn
  PROVE  KernelInv'
<1>0. /\ SyncTypes /\ SchedTypes /\ OtherTypes /\ SyncTypes'
      /\ current \in Threads
  BY TypeParts DEF KernelInv, SyncTypes, SchedTypes, syncVars, mutexVars, eventVars
<1>1. CASE WakeAllStep
  <2> DEFINE o == obj[current]
  <2>1. /\ pc[current] \in WakeLoops /\ wait[o] # <<>>
        /\ MakeReady(o, Tail(wait[o]), Head(wait[o]), WakeRet(pc[current]))
        /\ UNCHANGED <<current, idle_thread, priority, quantum, saved, crit, ints,
                       callVars, timerVars>>
    BY <1>1 DEF WakeAllStep
  <2>2. o \in Queues /\ WakeRet(pc[current]) \in BlockReturns
    BY <2>1, <1>0 DEF KernelInv, CallsConsistent, WakeRet, BlockReturns
  <2>3. /\ state' \in StateFunctions /\ WaitTypes'
        /\ run_queue' \in RunQueues /\ run_queue_bitmap' \in SUBSET Priorities
        /\ RunQueuesExact' /\ WaitQueuesExact' /\ OneRunning' /\ CallsConsistent'
        /\ \A u \in Threads : state[u] = "SLEEPING" => state'[u] = "SLEEPING"
    BY <2>1, <2>2, FirstWaiter, MakeReadyStep
  <2>4. SchedTypes' /\ OtherTypes'
    BY <2>1, <2>3, <1>0 DEF SchedTypes, OtherTypes
  <2>5. CallTypes' /\ TimerTypes'
    BY <2>1, TypeParts DEF KernelInv, CallTypes, TimerTypes, callVars, timerVars
  <2>6. TimersOwned'
    BY <2>1, <2>3, TimersKept DEF KernelInv, callVars, timerVars
  <2> QED BY <2>3, <2>4, <2>5, <2>6, <1>0, TypeParts DEF KernelInv
<1>2. CASE WakeAllResched
  BY <1>2, LoopEndStep DEF WakeAllResched
<1>3. CASE WakeAllDone
  <2>1. /\ Returns("signal_all_noresched") /\ wait[obj[current]] = <<>>
        /\ exit_critical_sections(1) /\ InCall("user", NoObject)
        /\ UNCHANGED <<current, idle_thread, state, priority, quantum, saved,
                       run_queue, run_queue_bitmap, waitVars, timerVars>>
    BY <1>3 DEF WakeAllDone
  <2>2. /\ pc[current] = "signal_all_noresched" /\ irq[current] = "none"
        /\ pc[current] \notin TimedPCs \cup BootPCs
    BY <2>1 DEF Returns, TimedPCs, BootPCs
  <2>3. /\ state[current] = "RUNNING" /\ CallTypes /\ WaitTypes /\ TimerTypes
        /\ \A u \in Threads : state[u] = "RUNNING" => u = current
        /\ state[Bootstrap] \in {"READY", "RUNNING"}
    BY <2>2, TypeParts DEF KernelInv, OneRunning
  <2>4. UNCHANGED <<wait, wcount, blocking>> /\ WaitTypes' /\ TimerTypes'
    BY <2>1, <2>3 DEF waitVars, timerVars, WaitTypes, TimerTypes
  <2>5. /\ pc'[current] = "user"
        /\ \A u \in Threads : u # current => pc'[u] = pc[u] /\ obj'[u] = obj[u]
    BY <2>1, <2>3, <1>0 DEF InCall, CallTypes
  <2>6. RunQueuesExact' /\ WaitQueuesExact'
    BY <2>1, <2>4 DEF KernelInv, RunQueuesExact, WaitQueuesExact
  <2>7. \A u \in Threads : state'[u] = "BLOCKED" =>
                             obj'[u] \in Queues /\ blocking'[u] = obj'[u]
    <3>1. \A u \in Threads : state[u] = "BLOCKED" => obj[u] \in Queues /\ blocking[u] = obj[u]
      BY DEF KernelInv, CallsConsistent
    <3> QED BY <3>1, <2>1, <2>3, <2>4, <2>5
  <2>8. \A u \in Threads : pc'[u] \in TimedPCs =>
                             state'[u] \in {"BLOCKED", "READY", "RUNNING"}
    <3>1. \A u \in Threads : pc[u] \in TimedPCs => state[u] \in {"BLOCKED", "READY", "RUNNING"}
      BY DEF KernelInv, CallsConsistent
    <3> QED BY <3>1, <2>1, <2>5, UserFacts
  <2>9. state' \in StateFunctions /\ PlainMove("user", NoObject)
    BY <2>1, <2>2, <1>0, UserFacts DEF SchedTypes
  <2>10. CallsConsistent' /\ \A u \in Threads : pc'[u] \notin LoopPCs
    BY <2>1, <2>2, <2>7, <2>8, <2>9, CallFacts DEF PlainMove
  <2>11. OneRunning'
    BY <2>1, <2>3, <2>10, <1>0 DEF OneRunning, LoopPCs, WakeLoops
  <2>12. TimersOwned'
    BY <2>1, <2>2, <2>5, TimersKept DEF KernelInv, timerVars
  <2>13. CallTypes'
    BY <2>1, <2>3, UserFacts, InCallTypes
  <2>14. SchedTypes' /\ OtherTypes'
    <3>1. crit' = crit - 1 /\ ints' \in BOOLEAN
      BY <2>1, <1>0 DEF exit_critical_sections, OtherTypes
    <3> QED BY <3>1, <2>1, <1>0 DEF SchedTypes, OtherTypes
  <2> QED BY <2>4, <2>6, <2>10, <2>11, <2>12, <2>13, <2>14, <1>0, TypeParts DEF KernelInv
<1>4. CASE WakeReturn
  <2>1. /\ pc[current] = "wake_return" /\ irq[current] = "none"
        /\ exit_critical_sections(1) /\ InCall("user", NoObject)
        /\ UNCHANGED <<current, idle_thread, state, priority, quantum, saved,
                       run_queue, run_queue_bitmap, waitVars, timerVars>>
    BY <1>4 DEF WakeReturn, Returns
  <2>2. pc[current] \notin LoopPCs \cup TimedPCs \cup BootPCs
    BY <2>1 DEF LoopPCs, WakeLoops, TimedPCs, BootPCs
  <2> QED BY <2>1, <2>2, <1>0, UserFacts, ReturnStep
<1> QED BY <1>1, <1>2, <1>3, <1>4

-----------------------------------------------------------------------------
(* The invariant.                                                          *)

\* The state in which kmain() starts.
LEMMA InitInv == Init => KernelInv
<1> SUFFICES ASSUME Init PROVE KernelInv
  OBVIOUS
<1>1. /\ Bootstrap \in Threads /\ NoObject \notin Queues
      /\ {LOWEST_PRIORITY, HIGHEST_PRIORITY} \subseteq Priorities
      /\ 0 \in 0 .. QUANTUM /\ 0 \in 0 .. MaxDelay /\ Bootstrap # NoThread
  BY ThreadsAssumption, PrioritiesAssumption, ObjectsAssumption
     DEF Threads, Priorities, LOWEST_PRIORITY, HIGHEST_PRIORITY, Queues, AllEvents
<1>2. SchedTypes
  BY <1>1 DEF Init, SchedTypes, StateFunctions, ThreadStates, RunQueues
<1>3. CallTypes
  <2>1. "boot" \in PCs /\ "dead" \in PCs
    BY DEF PCs, BootPCs
  <2> QED BY <2>1 DEF Init, CallTypes
<1>4. WaitTypes
  BY DEF Init, WaitTypes, WaitLists, BlockReturns
<1>5. TimerTypes
  BY <1>1 DEF Init, TimerTypes
<1>6. SyncTypes
  BY DEF Init, SyncTypes
<1>7. OtherTypes
  BY <1>1 DEF Init, OtherTypes
<1>8. RunQueuesExact /\ WaitQueuesExact
  BY <1>1 DEF Init, RunQueuesExact, RunQueuesMatch, WaitQueuesExact, WaitQueuesMatch,
              Distinct, OccursIn
<1>9. OneRunning
  BY <1>1 DEF Init, OneRunning
<1>10. TimersOwned
  BY DEF Init, TimersOwned, Distinct, OccursIn
<1>11. CallsConsistent
  <2>1. /\ "boot" \in BootPCs
        /\ "boot" \notin DpcPCs \cup LoopPCs \cup ResumePCs \cup TimedPCs \cup MutexPCs
        /\ "dead" \notin BootPCs \cup DpcPCs \cup LoopPCs \cup ResumePCs \cup TimedPCs
                         \cup MutexPCs
        /\ WakeLoops \subseteq LoopPCs
    BY DEF BootPCs, DpcPCs, LoopPCs, WakeLoops, ResumePCs, TimedPCs, MutexPCs
  <2>2. /\ \A t \in Threads : pc[t] = IF t = Bootstrap THEN "boot" ELSE "dead"
        /\ \A t \in Threads : state[t] \in {"RUNNING", "NONE"} /\ irq[t] = "none"
        /\ dpc_list = <<>>
    BY DEF Init
  <2>3. Distinct(dpc_list) /\ \A t \in Threads : ~OccursIn(t, dpc_list)
    BY <2>2 DEF Distinct, OccursIn
  <2> QED BY <2>1, <2>2, <2>3 DEF CallsConsistent, MutexPCs
<1> QED BY <1>2, <1>3, <1>4, <1>5, <1>6, <1>7, <1>8, <1>9, <1>10, <1>11, TypeParts
        DEF KernelInv

\* The calls of workers.
LEMMA UserCallStep ==
  ASSUME KernelInv, UserCall
  PROVE  KernelInv'
<1>1. CASE CreateThread
  <2>1. PICK t \in Workers, x \in CreatePriorities : thread_create(t, x, "thread_resume")
    BY <1>1 DEF CreateThread
  <2>2. /\ pc[current] = "user" /\ irq[current] = "none" /\ "thread_resume" \in ResumePCs
        /\ "thread_resume" \notin BootPCs /\ t \in Threads /\ x \in Priorities
    BY <1>1, KernelAssumption DEF CreateThread, Calls, ResumePCs, BootPCs, Threads
  <2> QED BY <2>1, <2>2, UserFacts, CreateStep
<1>2. CASE Yield
  <2> DEFINE p == "switch_return"
  <2>1. /\ pc[current] = "user" /\ irq[current] = "none" /\ disable_ints
        /\ thread_yield(run_queue, run_queue_bitmap, state, crit) /\ InCall(p, NoObject)
        /\ UNCHANGED <<idle_thread, priority, waitVars, timerVars, syncVars, dpc_list>>
    BY <1>2 DEF Yield, Calls
  <2>2. p \in PCs /\ p \notin TimedPCs /\ PlainMove(p, NoObject)
    BY <2>1, UserFacts DEF PlainMove, PCs, LoopPCs, WakeLoops, TimedPCs, BootPCs, ResumePCs,
                           DpcPCs, MutexPCs
  <2>3. /\ SchedTypes /\ SyncTypes /\ OtherTypes
        /\ RunQueuesMatch(run_queue, run_queue_bitmap, state, priority)
    BY <2>1, UserFacts, CurrentFacts
  <2>4. SyncTypes' /\ OtherTypes'
    BY <2>1, <2>3 DEF SyncTypes, OtherTypes, syncVars, mutexVars, eventVars, disable_ints
  <2>5. /\ SchedTypes' /\ CallTypes' /\ WaitTypes' /\ TimerTypes'
        /\ RunQueuesExact' /\ WaitQueuesExact' /\ OneRunning' /\ CallsConsistent'
        /\ TimersOwned'
    BY <2>1, <2>2, <2>3, UserFacts, YieldStep DEF SchedTypes
  <2> QED BY <2>4, <2>5, TypeParts DEF KernelInv
<1> QED BY <1>1, <1>2, SleepStep, SetPriorityStep, ExitStep, MutexStep, EventStep DEF UserCall

\* The steps that the kernel takes by itself.
LEMMA KernelStepStep ==
  ASSUME KernelInv, KernelStep
  PROVE  KernelInv'
<1>1. CASE ResumeEnter
  <2> DEFINE p == "thread_resume_return"
  <2>1. /\ pc[current] = "thread_resume_enter" /\ irq[current] = "none"
        /\ thread_resume(obj[current], p)
    BY <1>1 DEF ResumeEnter, Calls
  <2>2. /\ pc[current] \in ResumePCs /\ p \in PCs /\ p \notin TimedPCs
        /\ PlainMove(p, NoObject)
    BY <2>1 DEF PlainMove, PCs, LoopPCs, WakeLoops, TimedPCs, BootPCs, ResumePCs, DpcPCs,
                MutexPCs
  <2> QED BY <2>1, <2>2, ResumeStep
<1>2. ASSUME NEW p \in PCs, InCall(p, NoObject), NEW n \in Nat, exit_critical_sections(n),
             irq[current] = "none", PlainMove(p, NoObject), p \notin TimedPCs,
             pc[current] \notin LoopPCs \cup TimedPCs,
             UNCHANGED <<current, idle_thread, state, priority, quantum, saved, run_queue,
                         run_queue_bitmap, waitVars, timerVars, syncVars, dpc_list>>
      PROVE  KernelInv'
  <2>1. SyncTypes'
    BY <1>2, TypeParts DEF KernelInv, SyncTypes, syncVars, mutexVars, eventVars
  <2> QED BY <2>1, <1>2, ReturnStep
<1>3. CASE ResumeReturn
  <2>1. /\ pc[current] = "thread_resume_return" /\ irq[current] = "none"
        /\ pc[current] \notin LoopPCs \cup TimedPCs \cup BootPCs
    BY <1>3 DEF ResumeReturn, Returns, LoopPCs, WakeLoops, TimedPCs, BootPCs
  <2> QED BY <2>1, <1>2, <1>3, UserFacts DEF ResumeReturn
<1>4. CASE SwitchReturn
  <2>1. /\ pc[current] = "switch_return" /\ irq[current] = "none"
        /\ pc[current] \notin LoopPCs \cup TimedPCs \cup BootPCs
    BY <1>4 DEF SwitchReturn, Returns, LoopPCs, WakeLoops, TimedPCs, BootPCs
  <2> QED BY <2>1, <1>2, <1>4, UserFacts DEF SwitchReturn
<1>5. CASE initial_thread_func
  <2> DEFINE p == IF current = DpcThread THEN "dpc_wait" ELSE "user"
  <2>1. /\ pc[current] = "initial_thread_func" /\ irq[current] = "none"
        /\ InCall(p, NoObject)
    BY <1>5 DEF initial_thread_func, Returns
  <2>2. /\ pc[current] \notin LoopPCs \cup TimedPCs \cup BootPCs
        /\ p \in PCs /\ p \notin TimedPCs /\ PlainMove(p, NoObject)
    BY <2>1 DEF PlainMove, PCs, LoopPCs, WakeLoops, TimedPCs, BootPCs, ResumePCs, DpcPCs,
                MutexPCs
  <2> HIDE DEF p
  <2> QED BY <2>1, <2>2, <1>2, <1>5 DEF initial_thread_func
<1>6. CASE ExitResched
  <2>1. /\ pc[current] \in {"exit_resched", "exit_signal"} /\ irq[current] = "none"
        /\ thread_resched(run_queue, run_queue_bitmap, state, quantum, crit)
        /\ InCall("dead", NoObject)
        /\ UNCHANGED <<idle_thread, priority, ints, waitVars, timerVars, syncVars, dpc_list>>
    BY <1>6 DEF ExitResched, Returns
  <2> QED BY <2>1, LoopEndStep
<1>7. CASE DpcWait
  <2>1. pc[current] = "dpc_wait" /\ irq[current] = "none" /\ UNCHANGED dpc_list
        /\ DpcEvent \in AllEvents
    BY <1>7 DEF DpcWait, Calls, AllEvents
  <2>2. CASE event_wait_block(DpcEvent, INFINITE_TIME, "dpc_event_wait")
    BY <2>1, <2>2, EventBlockStep
  <2>3. CASE event_wait_through(DpcEvent) /\ InCall("dpc_pop", NoObject)
    <3> DEFINE p == "dpc_pop"
    <3>1. /\ signalled' = [signalled EXCEPT ![DpcEvent] = ~autounsignal[DpcEvent]]
          /\ UNCHANGED <<schedVars, waitVars, timerVars, mutexVars, destroyed, autounsignal>>
      BY <2>3 DEF event_wait_through
    <3>2. /\ pc[current] \notin LoopPCs \cup TimedPCs \cup BootPCs /\ pc[current] \in DpcPCs
          /\ p \in PCs /\ p \notin TimedPCs \cup LoopPCs \cup BootPCs \cup ResumePCs \cup MutexPCs
          /\ p # "thread_cleanup_dpc"
      BY <2>1 DEF PCs, LoopPCs, WakeLoops, TimedPCs, BootPCs, ResumePCs, DpcPCs, MutexPCs
    <3>3. SchedTypes /\ CallTypes /\ WaitTypes /\ TimerTypes /\ SyncTypes /\ OtherTypes
      BY <3>2, CurrentFacts
    <3>4. PlainMove(p, NoObject)
      BY <3>2 DEF PlainMove, KernelInv, CallsConsistent, TypeOK
    <3>5. UNCHANGED <<current, idle_thread, state, priority, quantum, saved, crit, ints,
                      run_queue, run_queue_bitmap, wait, wcount, blocking, block_ret,
                      timer_queue, left, callback, dpc_list>>
      BY <3>1, <2>1 DEF schedVars, waitVars, timerVars
    <3>6. RunQueuesExact' /\ WaitQueuesExact' /\ OneRunning' /\ CallsConsistent'
      BY <3>2, <3>4, <3>5, <2>1, <2>3, StayStep
    <3>7. TimersOwned'
      <4>1. \A u \in Threads : pc[u] \in TimedPCs => pc'[u] \in TimedPCs
        BY <3>2, <3>3, <2>3 DEF InCall, CallTypes
      <4> QED BY <4>1, <3>5, TimersKept DEF KernelInv
    <3>8. SchedTypes' /\ WaitTypes' /\ TimerTypes' /\ OtherTypes'
      BY <3>3, <3>5 DEF SchedTypes, WaitTypes, TimerTypes, OtherTypes
    <3>9. SyncTypes'
      <4>1. signalled' \in [AllEvents -> BOOLEAN]
        BY <3>1, <3>3, <2>1 DEF SyncTypes
      <4> QED BY <4>1, <3>1, <3>3, <3>5 DEF SyncTypes, mutexVars
    <3>10. CallTypes'
      BY <3>2, <3>3, <2>3, InCallTypes
    <3> QED BY <3>6, <3>7, <3>8, <3>9, <3>10, TypeParts DEF KernelInv
  <2> QED BY <2>2, <2>3, <1>7 DEF DpcWait
<1>8. CASE DpcWaitReturn
  BY <1>8, EventReturnStep DEF DpcWaitReturn
<1>9. CASE kmain
  <2>1. /\ "boot" \in BootPCs \ (LoopPCs \cup TimedPCs \cup ResumePCs)
        /\ "boot_bootstrap2" \in BootPCs \ (LoopPCs \cup TimedPCs \cup ResumePCs)
        /\ {"boot_resume_dpc", "boot_resume_bootstrap2"} \subseteq BootPCs \cap ResumePCs
        /\ {"boot_dpc_return", "boot_bootstrap2_return", "boot_enable"} \subseteq BootPCs
        /\ BootPCs \cap (LoopPCs \cup TimedPCs \cup DpcPCs \cup MutexPCs) = {}
        /\ BootPCs \subseteq PCs
        /\ {"boot_dpc_return", "boot_bootstrap2", "boot_bootstrap2_return", "boot_enable",
            "become_idle"} \subseteq BootPCs \ (ResumePCs \cup {"thread_cleanup_dpc"})
    BY DEF PCs, LoopPCs, WakeLoops, TimedPCs, BootPCs, ResumePCs, DpcPCs, MutexPCs
  <2>2. DpcThread \in Threads /\ Bootstrap2 \in Threads
        /\ DPC_PRIORITY \in Priorities /\ DEFAULT_PRIORITY \in Priorities
    BY ThreadsAssumption, PrioritiesAssumption
       DEF Threads, Priorities, DPC_PRIORITY, DEFAULT_PRIORITY, LOWEST_PRIORITY,
           HIGHEST_PRIORITY
  <2>3. ASSUME NEW from \in {"boot", "boot_bootstrap2"}, NEW t \in Threads,
               NEW x \in Priorities,
               NEW then \in {"boot_resume_dpc", "boot_resume_bootstrap2"},
               BootCreate(from, t, x, then)
        PROVE  KernelInv'
    <3>1. pc[current] = from /\ irq[current] = "none" /\ thread_create(t, x, then)
      BY <2>3 DEF BootCreate, Returns
    <3> QED BY <3>1, <2>1, CreateStep
  <2>4. ASSUME NEW from \in {"boot_resume_dpc", "boot_resume_bootstrap2"},
               NEW then \in {"boot_dpc_return", "boot_bootstrap2_return"},
               BootResume(from, then)
        PROVE  KernelInv'
    <3>1. pc[current] = from /\ irq[current] = "none" /\ thread_resume(obj[current], then)
      BY <2>4 DEF BootResume, Returns
    <3>2. then \in PCs /\ then \notin TimedPCs /\ PlainMove(then, NoObject)
      BY <3>1, <2>1 DEF PlainMove
    <3> QED BY <3>1, <3>2, <2>1, ResumeStep
  <2>5. ASSUME NEW from \in {"boot_dpc_return", "boot_bootstrap2_return", "boot_enable"},
               NEW n \in Nat, NEW then \in {"boot_bootstrap2", "boot_enable", "become_idle"},
               BootReturn(from, n, then)
        PROVE  KernelInv'
    <3>1. /\ pc[current] = from /\ irq[current] = "none"
          /\ exit_critical_sections(n) /\ InCall(then, NoObject)
          /\ UNCHANGED <<current, idle_thread, state, priority, quantum, saved, run_queue,
                         run_queue_bitmap, waitVars, timerVars, syncVars, dpc_list>>
      BY <2>5 DEF BootReturn, Returns
    <3>2. /\ then \in PCs /\ then \notin TimedPCs /\ PlainMove(then, NoObject)
          /\ pc[current] \notin LoopPCs \cup TimedPCs
      BY <3>1, <2>1 DEF PlainMove
    <3> QED BY <3>1, <3>2, <1>2
  <2> QED BY <2>2, <2>3, <2>4, <2>5, <1>9 DEF kmain
<1> QED BY <1>1, <1>3, <1>4, <1>5, <1>6, <1>7, <1>8, <1>9, ResumeCheckStep, DpcPopStep,
           CleanupStep, BecomeIdleStep, WakeAllLoopStep, MutexReturnStep, EventReturnStep
        DEF KernelStep

\* KernelInv is inductive.
LEMMA NextInv == KernelInv /\ [Next]_vars => KernelInv'
<1> SUFFICES ASSUME KernelInv, [Next]_vars PROVE KernelInv'
  OBVIOUS
<1>1. CASE UNCHANGED vars
  <2>1. SyncTypes'
    BY <1>1, TypeParts DEF KernelInv, SyncTypes, vars, syncVars, mutexVars, eventVars
  <2> QED BY <2>1, <1>1, QuietStep DEF vars
<1> QED BY <1>1, UserCallStep, KernelStepStep, IrqEntryStep, TimerTickStep, PreemptStep,
           IrqReturnStep DEF Next, IrqStep

\* The kernel never leaves KernelInv: whatever the workers call and whenever
\* the timer interrupts, thread_resched() finds a thread to run, every variable
\* keeps its type, and the run queues, wait queues and timers match the states.
THEOREM KernelInvariant == Spec => []KernelInv
BY InitInv, NextInv, PTL DEF Spec

\* Type correctness of the kernel.
THEOREM TypeCorrect == Spec => []TypeOK
<1>1. KernelInv => TypeOK
  BY DEF KernelInv
<1> QED BY <1>1, KernelInvariant, PTL

\* A thread is READY exactly when it is in the run queue of its priority, once,
\* and the bitmap that thread_resched() searches names the non-empty queues.
THEOREM RunQueuesCorrect == Spec => []RunQueuesExact
<1>1. KernelInv => RunQueuesExact
  BY DEF KernelInv
<1> QED BY <1>1, KernelInvariant, PTL

\* A thread is in the list of a wait queue exactly when it is blocked there.
THEOREM WaitQueuesCorrect == Spec => []WaitQueuesExact
<1>1. KernelInv => WaitQueuesExact
  BY DEF KernelInv
<1> QED BY <1>1, KernelInvariant, PTL

\* Only the current thread is RUNNING, and the boot thread can always run.
THEOREM OneThreadRuns == Spec => []OneRunning
<1>1. KernelInv => OneRunning
  BY DEF KernelInv
<1> QED BY <1>1, KernelInvariant, PTL

=============================================================================
