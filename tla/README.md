# TLA+ models of moboot

moboot ("Mobile Open Bootloader") is a boot loader for the HP TouchPad, built on
the *little kernel* (lk): a small preemptive, single-CPU kernel with threads,
mutexes, events and timers (`src/kernel`, `src/arch/arm`), a set of libraries
(heap, block devices, a block cache, ext2, uImage and ATAG handling, a graphics
console) and the boot application itself (`src/app/moboot`).

## 1. Inventory

The build of interest is `src/project/apq-touchpad.mk` (`DEBUG := 0`, so every
`ASSERT` under `THREAD_CHECKS`, `MUTEX_CHECK` or `DEBUG_ASSERT` is compiled out).

| Component | State it keeps | Operations | Correct when |
|---|---|---|---|
| Threads, scheduler (`kernel/thread.c`) | thread structures, run queues and their bitmap, current thread, critical-section count | create, resume, yield, preempt, sleep, set priority, exit, reschedule | a thread is in exactly the queue its state says; the highest READY priority runs; nobody starves; interrupts are off exactly in critical sections |
| Wait queues (`kernel/thread.c`) | list, count; per thread the queue it blocks on and the value its wait will return | block (with timeout), wake one, wake all, destroy, unblock one thread | list, count and thread states agree; a wake-up reason is never overwritten |
| Mutexes (`kernel/mutex.c`) | count, holder, wait queue | init, destroy, acquire, acquire with timeout, release | mutual exclusion, FIFO hand-over, a waiter always has somebody to wait for |
| Events (`kernel/event.c`) | signalled flag, flags, wait queue | init, destroy, wait (with timeout), signal, unsignal | no signal is missed |
| Timers (`kernel/timer.c`) | a queue ordered by time | set one-shot/periodic, cancel, tick | a queued timer belongs to a live stack frame; expiry order |
| DPC (`kernel/dpc.c`) | list of callbacks, an event, a thread | queue, the thread's loop | every queued callback runs; dead threads are freed, and only once off their stack |
| Start-up (`kernel/main.c`) | - | `kmain`, `bootstrap2` | the boot thread becomes the idle thread |
| ARM entry (`arch/arm`) | interrupt frames, saved contexts | `arm_irq`, context switch | critical-section accounting balances |
| Heap (`lib/heap/heap.c`) | free list ordered by address; a header before each payload | init, alloc, realloc, free | no byte given out twice or lost; free neighbours always merged |
| Block cache (`lib/bcache/bcache.c`) | blocks with number, contents, dirty flag, reference count; free and lru lists | read, get, put, mark dirty, zero, flush, create, destroy | reads return what was last written; referenced blocks stay |
| Block devices (`lib/bio`, `lib/ramdisk`) | device list, reference counts, sub-devices with a pointer to their parent | open, close, register, unregister, publish, read, write, erase | a device lives exactly as long as it is referenced; a name finds one device |
| Partitions (`lib/partition`, `platform/msm_shared/mmc.c`) | none of their own: the sub-devices they published | publish, unpublish, the table found at start-up | publishing again disturbs no user; nothing keeps an old name |
| File system layer (`lib/fs/fs.c`) | mount list, reference counts, open files | mount, unmount, open, close, load, path normalisation | a mount and its device live while files are open; paths are rewritten safely |
| ext2 (`lib/fs/ext2`) | the superblock, a block cache, the inode of each open file | mount, path walk, load inode, read at an offset | what is read is what the inode maps; no block stays pinned; every call returns |
| Images (`lib/uimage`, `lib/bootlinux`, `lib/atags`) | image descriptors, kernel arguments, tag list | check, parse, move to place, assemble tags, jump | the kernel that is entered is the one in the file |
| Boot application (`app/moboot`, `target/apq-touchpad/gpiokeys.c`) | menu entries, default, countdown, scratch memory, one pointer for extra files | scan, menu loop, boot or return to the menu | nothing but the default or the next image starts without the user, and only once; what was allocated is freed once |
| Console, graphics, fonts, TGA (`lib/gfxconsole`, `lib/gfx`, ...) | cursor, surfaces | put character, scroll, draw | the cursor stays on the surface |
| Keys, board and SoC drivers (`dev`, `target`, `platform`) | hardware registers, key bitmap | interrupt handlers, timers | - |

How they interact: all blocking goes through wait queues; `thread_resched()` is
the one place where the CPU changes hands, and a call that blocks is continued
after it, possibly much later. The timer interrupt runs the callbacks of due
timers, which make threads READY (`thread_sleep_handler`,
`wait_queue_timeout_handler`), and then always calls `thread_preempt()`. A dying
thread hands its own clean-up to the dpc thread through an event. Everything
above the kernel runs in the `bootstrap2` thread and in threads it starts.
The boot application reads files through the file system layer, which finds the
mount by path prefix and calls ext2, which reads through the block cache from a
block device, which may be a partition of another. A reference is kept for each of
these links except the cache's. The image goes to a fixed scratch memory that is
never cleared.

What is hard here: every interleaving of the timer interrupt with calls that are
half done; wake-ups that race with timeouts; counters (the mutex count, the
critical-section count) that several paths must keep balanced; queue nodes and
timers that live inside the structures and stacks of threads that come and go. Above the
kernel: error paths that lose references, partitions that are published again
under their users, a string rewritten in the buffer it is read from, links that
form loops, a boot that fails and comes back to the menu with what the last attempt
left behind.
The list, with lines and the properties that would notice, is `hazards` in
`PROJECT.json`.

## 2. Modules

    Lists  <-  Sched  <-  WaitQueue  <-  Mutex  <-  Event  <-  Kernel  <-  MCKernel
                                                       |
    ListProofs  ----------------->  KernelProofs  -----+     FifoLock (abstract)
    KernelProofs  <-  SyncProofs
    Lists  <-  Heap  <-  HeapProofs
    Lists  <-  BCache  <-  MCBCache          BlockStore (abstract)
    ListProofs, Ext2  <-  BCacheProofs
    Lists  <-  Bio  <-  Partition  <-  Fs  <-  Storage  <-  MCStorage
    ListProofs, Storage  <-  StorageProofs
    ListProofs, NormalizePath  <-  NormalizeProofs
    BCache  <-  Ext2  <-  MCExt2
    Menu, Uimage  <-  Moboot  <-  MCMoboot, MobootProofs

* `Lists` - `list.h` lists as sequences.
* `Sched` - thread states, run queues, bitmap, quanta, critical sections;
  `thread_resched()`, `thread_yield()`, `thread_preempt()` as operators that take
  the values computed by their caller and fix the next state.
* `WaitQueue` - wait queues and the one-shot timers that threads keep on their
  stacks.
* `Mutex`, `Event` - the two synchronisation objects, one action per function, split
  where the function switches threads (`mutex_acquire` / `mutex_acquire_return`).
* `Kernel` - creation, sleep, exit, the dpc thread, boot, the timer interrupt; the
  initial state, the next-state relation, the properties and the fairness.
* `FifoLock` - what a mutex promises; `Kernel!Lock` instantiates it with a
  refinement mapping.
* `MCKernel` - the instance for TLC (symmetry of the workers that are not
  `bootstrap2`).
* `ListProofs`, `KernelProofs`, `SyncProofs`, `HeapProofs`, `BCacheProofs`, `StorageProofs`,
  `NormalizeProofs`, `MobootProofs` - lemmas and theorems.

State and code. `pc[t]` and `obj[t]` stand for the call frame on the stack of
thread `t`: which function is to be continued when `t` is switched in, and its
argument; `irq[t]` for an interrupt frame on that stack. `crit` and `ints` are the
critical-section count and the interrupt-enable bit. A kernel call is one atomic
action from its `enter_critical_section()` to its switch or its return, because
interrupts are off there and there is one CPU. Loops that may wake several
threads (`wait_queue_wake_all()`) and the loop of `timer_tick()` take one step per
turn. `thread_resume()` is two steps, since it tests the state before it enters the
critical section; so is `thread_become_idle()`. Timers count down relative to now:
10 ms ticks, no wrap-around.

What the application may do. Workers create threads, call every function in any
order with any object, and exit. They do not do what the code answers with
`panic()` (acquire a mutex twice, release one they do not hold), do not exit
holding a mutex and do not use an object after destroying it. They initialise it again only
when no thread is still inside a call about it: a rule, since `mutex_init()` does not look for
that (section 5 says what happens to those who do not keep to it).

Deliberate cuts. A thread that runs with interrupts on and a non-zero count (the
effect of the leak in section 5) makes no further calls: from there on critical
sections are not atomic and the model would have to interleave single
assignments. That is why `kernel_timeouts`, where the leak can happen, does not
check for deadlock. A timeout of 0 on a busy object changes nothing and is a
stutter. `malloc()` does not fail. Names, stacks, return codes and statistics are
left out; the `INT_RESCHEDULE` result of interrupts other than the timer's is not
modelled (it can only cause a `thread_preempt()`, which every tick does).

* `Heap` - the free list as a sequence of chunks (address, length) and the set of
  allocations with what their headers say. `heap_alloc()` and `heap_free()` work
  inside one critical section each and are one step; `heap_realloc()` is two, and
  `doomed` holds what it has copied and not yet freed. Addresses and lengths are
  numbers, so rounding, splitting and merging are modelled as computed; payload
  contents are not. A request that finds no chunk returns NULL and changes nothing.
  Sums stay below the range of `size_t`.
* `BCache` - one cache on one device. Slots are the `struct bcache_block`s, the two
  lists sequences of slots, `data` and `disk` one value per block. A client pins
  fewer blocks than the cache has (ext2 pins one of four), puts what it got, and
  changes contents only through a pinned block that it then marks dirty.
  `bio_write()` may fail whenever it is called. `bio_read()` succeeds in `BCSpec`;
  `ReadErrorSpec` adds its failure, which breaks the lists (section 5), so that
  everything after it would be about a corrupted list. `crashed` says that
  `find_or_fill_block()` has gone on with the NULL of `alloc_block()`, `write_failed` that
  the device failed to write in that very call.
* `BlockStore` - what a cache promises. Each of its steps is an access of the client: a
  read returns what is stored, a write says which block it writes and with what, and there is
  no other step. `BCache!Store` instantiates it: `access` is the client's last access,
  and the contents of a block are those of its slot if it is cached, else those of the
  device. So a get, a put, an eviction, a flush or a failure that changed a block, or lost
  what was written, would be no step of `BlockStore`.
* `Bio` - devices as objects with a count, a name and, for sub-devices, the place in
  the parent. `ptr` holds every pointer to a device that the code keeps: in a mount, in
  a sub-device, in the local variable of `partition_publish()`, in a client. A pointer
  that an error path drops without `bio_close()` becomes part of `lost`. Opening and
  the counting are under a mutex or atomic, so each call is a step. The splitting of
  unaligned accesses changes no state of this module.
* `Partition` - the loops of `partition_publish()` and `partition_unpublish()`, one
  step per call into `bio`, and what `mmc_boot_main()` publishes at start-up. Numbers of
  blocks wrap at `Word` as the code's `uint32_t` do. `mmc_boot_main()` passes a length in
  bytes where `bio_publish_subdevice()` takes blocks, and the model does too.
* `Fs` - mounts and files. `find_mount()` is the comparison of characters that the code
  makes, so that a mount at `/b` also answers for `/b2/f`; `aliased` notes when that has
  become possible. A caller unmounts a path that it has mounted, once.
* `Storage` - the three together with clients that open devices by name.
* `NormalizePath` - `fs_normalize_path()`, one step per turn of its loop, on the array
  itself: the reading and the writing position share it. `Reference` says what the result
  should be: `Split` takes the string apart into fields, with what each `..` takes away, and
  `Text` puts the fields that are kept together again. It follows the code where a reader may expect
  something else: `..` at the root drops the leading slash (`/../foo` becomes `foo`),
  and `/` becomes the empty string.
* `Ext2` - opening a path and reading an inode, one step per call of the cache, composed
  with `BCache`. `stack` is the recursion of `ext2_walk()`. What directories and links hold is
  given by a constant; the indirect blocks are real blocks, read through the cache.
  The reference definitions are `Resolve` for paths, and for contents `BlockOf` (the block that
  the digits of a position lead to) and `WordOf`. `Ext2WellFormed` is what the format promises
  and ext2 does not check: numbers in directories are those of inodes, pointers those of blocks.
  The device does not fail here.
* `Uimage` - checking and parsing an image in memory as operators, a header being one word
  and a checksum the data itself. `ntohl` gives the words that tables are made of their value;
  the words of headers and data, read as a size, are large, so that a table without a 0 goes
  on to the end of memory.
* `Menu` - the menu loop with polled keys, which may find anything at each poll, and `Clock`,
  the ticks of the timer interrupt that `current_time()` returns, as far as the menu sees them: a
  second is over.
* `Moboot` - start-up, scan, main loop, loading and booting. `mem` is the memory, so that what
  an earlier image left in the scratch memory, unread blocks, and a kernel that is moved over
  its own RAM disk are all there. `splash_ptr` is the one pointer that is filled three times
  and freed once per attempt. Where the code does what C leaves undefined the model ends:
  `overrun` (behind the array of entries), `double_free`, `stray` (a store outside of
  variables) and `fault` (a null pointer is read). The last two are alternatives, as such a
  store may do no harm and address 0 may be readable. Stray stores are the null
  pointer that `fs_load_file_mem()` puts `size` words behind the pointer it is given
  (`fs.c:414`; for an empty file this is the pointer itself, which is modelled as such), and
  the 0 behind the buffer of a settings file of 256 bytes or more (`moboot.c:295`, 302,
  309). `fs_load_file_mem()` also keeps the file open if `malloc()` fails, which it does not
  here. `held` remembers that a key was down at the start, `tried` the images whose extra
  files have been loaded.

## 3. Runs

| Run | Instance | What it checks |
|---|---|---|
| `kernel_sync` | 3 workers, 1 mutex, 1 auto-unsignal event, no timers | type invariant, run queues, one running thread, balanced critical sections, no orphaned waiter, highest priority dispatched, mutex refines `FifoLock` |
| `kernel_timeouts` | 2 workers, 1 mutex, 1 event of either kind, both destroyable; timeouts of 1 tick, sleeps of 2 | the inductive invariant, wait queues, mutual exclusion, exact mutex count, timers, dead threads, no missed signal, wake-up reasons settled |
| `kernel_liveness` | 3 workers, 1 event, fairness | dead threads are freed, READY workers get to run |
| `kernel_leak`, `kernel_orphan` | 2 workers | two disagreements of code and documentation (section 5) |
| `heap` | 48 bytes, 3 sizes, 3 alignments, 1 reallocation at a time | the inductive invariant, alignment, holes whole, an empty heap is as initialised |
| `bcache` | 3 blocks, 2 slots, 1 pinned | the invariant (which has pinned blocks stay), NULL only after a write error, refinement of `BlockStore` |
| `bcache_read_error` | the same with failing reads | a block on two lists (section 5) |
| `normalize` | every string of up to 8 of three characters | writing never overtakes reading, the result is the reference's, the loop ends |
| `storage` | 1 device, 2 sub-device objects, 2 mounts, 2 files, 1 client | counts exact, names unique, whoever has a device open keeps it (`DevicesStay`), open files keep their mount |
| `ext2` | 12 paths, 36 reads, 11 blocks through a cache of 2 | at most one block pinned, reads deliver the file, the walk reaches what the path means, calls return |
| `moboot` | 7 device contents, 3 attempts, 12 words of memory | menu as the directories, one unattended choice and none if a key was held, the kernel entered is the file's, when a pointer dangles, the countdown ends |

Bounds. Three workers are the least with which a mutex has a holder and a queue in
which order matters; two suffice for every race of one waker with one timeout,
with the boot and the dpc thread as further actors. `QUANTUM` is 1 instead of 5: a
slice is used up at the first tick, so both branches of `thread_preempt()` occur.
`NUM_PRIORITIES` is 5 instead of 32: idle, default, one between, dpc and highest.
A priority of 9 is given to `thread_set_priority()` so that the clamp matters.
`MaxDelay` bounds timers; `MaxCrit` bounds the critical-section count at which
ticks still come, and only matters after a leak.

The heap run uses half of the real sizes (4, 12, 12 and 16 bytes): a request then
comes out below, at and above the least chunk, chunks are split and not split,
every merge (none, before, behind, both) occurs and up to seven allocations
coexist. Three blocks in two slots are the least that evict, and with one of them
pinned the other slot is evicted each time.

Strings of 8 characters hold two fields with `..` behind each, runs of slashes and dots,
and names that begin with dots. In `storage` the table has an entry that fits, one that is
too long and one whose end wraps around; the mount paths are `/b` and `/b2`, one a prefix
of the other; two sub-device objects let an old partition stay in use while its successor
is published; `MaxLost` lets each device lose one reference. In `ext2` there are one direct
pointer and two pointers to a block, so that files of a few words reach triple
indirect blocks, holes on each level and the end of what pointers can reach; links form a
chain as long as allowed, one longer, and a loop; a cache of two is the least that the code
can do with. In `moboot` three attempts are the least in which a pointer that was freed in one
is freed again in a later one with a choice between; the images are a kernel, kernel and RAM
disk, one whose kernel is moved over the RAM disk, one too long, two too large for the scratch
memory, one with a wrong word where stale memory has the right one, one whose only sub-image ends
behind it, an empty one and an unsupported one. Each hypothesis of `LinuxGetsFile` is needed for one
of them. `MaxEntries` is 6 instead of 32, so that a directory overruns the array. One of the seven
devices has a settings file that is too long, one a background image, one no nduid.

Fairness. `normalize` and `ext2`: a call that has begun is continued. `moboot`: the thread in
the menu runs and seconds pass; nothing is assumed of the user, so `CountdownEnds` holds with
any keys. Deadlock is not checked in these three: the function returns, the index leaves the array,
the device is off or Linux runs.

`kernel_liveness`. Strong fairness of the kernel's own steps and of the
timer interrupt, weak fairness of the handler. Kernel code is a few hundred
instructions and ticks are 10 ms apart, so code that gets the CPU again and again
gets through; an interrupt that is enabled again and again is delivered; the
handler runs with interrupts off. Nothing is assumed of the calls workers make.
`NoStarvation` is about workers of one priority: lk makes no promise to lower
ones.

## 4. Proofs

`KernelProofs` proves, for any sets of workers, mutexes and events, any number of
priorities from 2 on, any quantum and any delays:

* `KernelInvariant` - `Spec => []KernelInv`;
* `TypeCorrect`, `RunQueuesCorrect`, `WaitQueuesCorrect`, `OneThreadRuns` - the
  conjuncts that a reader wants by name.

The assumptions are the named `ASSUME`s of the modules: identities are distinct,
priorities and delays are in range. The argument is an induction on
`KernelInv`. The queue properties alone are not inductive: that the list a waker
takes from holds BLOCKED threads only, that a thread being resumed is still
SUSPENDED, that a timer's callback fits the state of its thread and that the
dead thread being cleaned up is in no queue depend on which call each thread is
in; `CallsConsistent` and `TimersOwned` say exactly that. `OneRunning` is needed
for `thread_resched()` to find a thread. The lemmas are layered: facts about
sequences (`ListProofs`); what insertion, removal and rescheduling do to the
queue invariants; two generic moves, a step that switches threads (`SwitchStep`)
and one that does not (`StayStep`); one lemma per action; `NextInv`.

`SyncProofs` proves what the kernel promises its callers, for the same instances with finitely
many workers (the count of a mutex is a number):

* `SyncInvariant` - `Spec => []SyncInv`, and from it `NoSignalIsMissed`, `DeadThreadsAreQueued`,
  `TimerQueueCorrect`, `MutexesExclude` and `MutexCountsCount`;
* `WakeReasonIsSettled` and `HighestIsDispatched`, the two action properties;
* `NoWaiterIsOrphaned` and `MutexesImplementFifoLocks` (the refinement of `FifoLock`), under the
  hypothesis `MutexTimeouts = {}`;
* `SectionsAreBalanced`, under the hypotheses `MutexTimeouts = {}` and `EventTimeouts = {}`.

The hypotheses are where the code needs them and not weaker: with a timeout on a mutex, or on
any wait, the code does break these properties, which `kernel_orphan` and `kernel_leak` show
(section 5). Everything else the kernel does - hand-overs, destruction, sleeping, exits, interrupts
at any point - is allowed.

Going through all actions once for every property would repeat the same case analysis. Instead
`StepEffects` shows that every step of `Next` has one of some thirty *effects*: which thread's state
changes and to what, whose call moves on, which queue, event, mutex, timer or dpc entry is touched.
Each part of `SyncInv` is then shown to survive each effect. Beyond `KernelInv` these parts are:
`StatePlaces` (a thread that is BLOCKED, SLEEPING, SUSPENDED or dead is at a place of the code that
makes it so), `LoopObjects` (a loop of wake-ups is about an event or a destroyed object, never a live
mutex), `DpcSignalled`, `DeadExact`, `TimersSorted`, `TimersCover`, and `MutexesOK`. The last is
the inductive form of mutual exclusion: at most one thread has its `Turn`, which includes the one to
which `mutex_release()` has handed the mutex and which has not run since; the count is that of
the users; a waiter that is no longer BLOCKED has a result that fits. A mutex then changes in eight
ways (`Joins`, `Takes`, `Gives`, `Passes`, `Gets`, `Quits`, `Fails`, `Restored`), and the
refinement maps each to a step of `FifoLock` or to a stutter. It needs `Waited`: if somebody
waits, it is somebody's turn. For the critical sections, `Depth` gives the number of sections a
place of the code is in and `Balanced` relates it to `crit` along every switch.

`HeapProofs` proves, for any heap, word, header and chunk sizes, any least
alignment and any requests:

* `HeapInvariant` - `HeapSpec => []HeapInv`: type correctness, an ordered and merged
  free list, allocations apart from each other and from the free list, no byte
  lost, payloads that fit;
* `HolesAreWhole` and `FreedHeapIsInitial`, both consequences of `HeapInv`;
* `HeapIsAligned` - `HeapSpec => []Aligned`.

`HeapInv` is inductive as it stands; its conjuncts need each other (where a freed
chunk goes is only sound because it lies apart from the free chunks, and that no
byte is lost is what makes holes whole). The proof goes through intervals of
numbers: `Neighbours`, `MergeBefore` and `MergeBehind` say where a chunk belongs
and what merging makes of it, `SpliceElements` and `ReplacingChunks` carry that
over to the list, `FreedChunk`/`FreeStep` and `CarvedList`/`AllocStep` are the two
kinds of step. For the two consequences: the byte just behind a free chunk is
either allocated or in another free chunk, and the latter would touch.
`HeapIsAligned` assumes what the C code takes for granted (`AlignAssumption`): the heap is a whole
number of words, and an alignment is a power of 2, so that one below the least alignment divides
it. The lemmas about `%` (`SumMultiple`, `MultipleOfMultiple`, `RoundUpMultiple`) go through
quotients.

`BCacheProofs` proves, for any blocks and values, any number of slots and any
client that pins fewer blocks than there are slots:

* `BCInvariant` - `BCSpec => []BCInv`;
* `CacheRefinesStore` - `BCSpec => CacheIsTransparent`, the refinement of `BlockStore`: a call
  by which the client reads or writes maps to that very access, everything else to a stutter;
* `NullNeedsWriteError` - `BCSpec => []NullOnlyOnWriteError`.

`BCInv` is inductive. The proofs turn the walks of the lru list into statements about
the set of slots on it (`FoundForm`, `OneSlotForm`), which is where
`OneSlotPerBlock` is needed: without it `find_block()` would return the first copy
only. Every function is then one of two steps: it finds the block (`HitStep`) or it
gets a slot for it (`FillStep`), and each lemma gives the invariant and what happens
to the contents of the store at once. `CleanMatchesDisk` is what allows
`alloc_block()` to drop a clean block. The third theorem adds that the client keeps
to its bound: if `alloc_block()` found no slot, the slots would map one to one into
the pinned blocks, and there are fewer of those. `BCSpec` has no failing reads; what
these do is the run `bcache_read_error`. For the client, ext2, the module proves of any cache of
two or more blocks, any sizes and any paths and reads:

* `Ext2PinsAreBalanced` - `Ext2Spec => []PinsBalanced`. What is held depends on the place in
  the code only (`HeldAt`);
* `Ext2ReadsTheFile` - `Ext2Spec => []ReadsFile`. `Ext2Inv` adds that every block ext2 asks the cache
  for exists, so that `BCInv` holds of the cache; that the cache then has what the device has, since
  ext2 marks nothing dirty (`Clean`); that the positions computed for a block are the digits of its
  number and lead to `BlockOf` from wherever the walk down the tables is (`Mapped`); and
  that what is in the buffer is the file up to there, which ends on a block's boundary until the
  last (`Progress`);
* `Ext2WalkResolves` - `Ext2Spec => []WalkIsReference`. `WalkInv` says that the calls on the stack
  form a `Chain`: each returns what the rest of its path gives from the inode that the call it made
  returns, and a call that fails makes all fail. `Now` says what the last one is to return,
  seen from its place in the code. The depth of the stack and the `fuel` of the reference add up to
  `MAX_RECURSE`, which settles links that loop.

The last two rest on `Ext2WellFormed`, which leaves damaged file systems out: there, the code
indexes or reads whatever the number says. The proof of the first does not use it.

`StorageProofs` proves, for any devices, partition tables, names, mount paths, files and clients:

* `StorageInvariant` - `StorageSpec => []StorageInv`, and `StorageTypes`;
* `DevicesAreCounted`, `NamesAreUnique` and `FilesKeepTheirMounts`;
* `OpenDevicesStay` - `StorageSpec => DevicesStay`, an action property.

`RefsExact` alone is not inductive. When the last reference to a sub-device goes, its close
hook gives up a reference to the parent within the same step; that this does not free the parent
in turn rests on every parent being a root that stays listed (`DevicesOK`). That names stay
unique rests on where the partition thread is: `VacantAt` says for each point of
`partition_unpublish()` and `partition_publish()` which numbers have no listed device, and each
turn of the loops moves that boundary (`ScanOK`, `NamesVacant`). This needs that no more entries are
published than are unpublished before (4 and 16 in the code; `PartitionAssumption`). For the
files, `PathsOK` says that while no mount path is a prefix of another, the paths that callers have
still to unmount are those of allocated mounts, and the counts of mounts are exact; so
`find_mount()` gives an unmount the caller's own mount and no other's. `OpenDevicesStay` follows
step by step (`Kept`): only `bdev_dec_ref()` takes a device away, and a device with one
reference left has no second pointer to it (`TwoPointers`).

`NormalizeProofs` proves `NormalizesInPlace` - `NormSpec => []InPlace` - for paths of every
length over every alphabet. `InPlace` is inductive: its last conjuncts say that the dots
which the state has consumed and not written (`Pending`) still have room before the reading
position, and that everything from there on is still the given string. A turn of the loop
either writes nothing (`ReadOnlyTurn`), writes one or two characters into that room
(`WritingTurn`), or is the last (`LastTurn`).

`NormalizesAsReference` - `NormSpec => []NormalizedIsReference` - is about what is written. `NormInv`
relates the array before the writing position to the part of the given string that has been read:
it is the fields kept so far, each followed by a slash, and as much of the field being read as can
no longer turn out to be `.` or `..` (`Reading`, by state). A field contains no slash, so the walk
backwards at `..` stops where the last kept field begins (`WalkBack`, `TurnBack`); one
that begins with dots is written late and at once (`TurnDots`). `ReadAll` is the same when the
string has ended.

`ListProofs` also has the means for what recursive functions compute. The library's theorem that a
recursive definition has a solution takes an operator; `RecursionHasSolution` states it
for a function from functions to functions, and the order as a function `Below`, and proves it.
`SplitUnfolds`, `TextUnfolds` and `ResolveUnfolds` instantiate it, with `LeastNat`
for the order, and from there on the invariants go from one value to the next.

`MobootProofs` proves, for any contents of the device, any memory, any keys and any number of
attempts:

* `PointerFreedOnce` - `MobootSpec => []FreesOnce`. When the pointer dangles is a matter of the
  last two images tried (`Dangling`); the invariant adds the same for when it is live, and that
  between the two uses nothing but the loads changes it (`FreeInv`, `ExtrasPointer`);
* `UnattendedIsFirst` - `MobootSpec => []UnattendedOnce`. The invariant has three more parts:
  the entries that the scan has marked are images and stay (`EntriesInv`); while
  the time runs nothing has been tried, no key was held at the start, and the cursor is where
  it started or a key has been caught (`CountdownInv`); and what the menu hands over when it
  ends (`ChosenInv`);
* `MenuShowsDirectories` - `MobootSpec => []MenuIsDirectory`. `Place(i)` is the number of images up
  to the i-th directory entry, and so the place of an image in the menu. `DirInv` says what the
  scan has made of the entries before the one it has come to (`ScanInv`), and that nothing
  changes it afterwards. The assumption on `Configs` is the type of a listing;
* `LinuxIsChosenFile` - `MobootSpec => []LinuxGetsFile`. `LinuxInv` adds that the words that were
  read are in the scratch memory until the kernel is moved. An accepted image is what its header
  vouches for (`AcceptedIsVouched`); memories that agree on it have the same table, the same
  sub-images and the same parts (`SameTable`, `SameImages`, `SamePart`), so that what lies
  around it does not matter; then the moves are followed (`Moves`). Assumed: sizes, load
  addresses and numbers have 32 bits, and the scratch memory, the RAM disk's place and the tags
  are memory. That a non-empty set of numbers has a least one (`LeastNat`) comes from the
  library's theorem on well-founded relations, which takes a set and no operator.

Only model-checked. Liveness is out of the prover's reach: `DeadThreadsFreed`, `NoStarvation`,
`Terminates`, `CallsReturn`, `CountdownEnds`. The properties of the three runs that expect a
violation are false of the code; `NoOrphanedWaiter` and `CriticalSectionsBalanced`, which also belong
to a passing run, are proved under its hypotheses. Every invariant and action property of
a passing run is a theorem.

## 5. Disagreements between code and documentation

1. `kernel_leak`: `thread_unblock_from_wait_queue()` returns `ERR_NOT_BLOCKED`
   inside the critical section it entered. When a waiter is woken and its timer
   fires before it runs, the interrupted thread is left with a critical-section
   count that is one too high.
2. `kernel_orphan`: `mutex_acquire_timeout()` takes back its increment of
   `m->count` only when it runs again; an acquirer in that window blocks on a mutex
   nobody holds, and nobody will wake it.
3. `bcache_read_error`: a failed read "frees" its block by linking it into the free
   list while it is still linked into the lru list.

Excluded by the usage rule of section 2. A waiter that is told that its mutex was destroyed is to
"just exit" (`mutex.c:166`), but `mutex_acquire_timeout()` falls through to
`m->holder = current_thread` at line 171; after a timeout it takes back its count at line 163
(the `XXX race` comment). If the mutex has been initialised again by then, it gets a holder or a
count that is not its own, and `MutualExclusion` and `MutexCountExact` would fail. Nobody uses a
mutex like that in this build.

`thread_resume()` promises `ERR_NOT_SUSPENDED` but only rejects READY and RUNNING threads; no
caller depends on it, and `Kernel` resumes suspended threads only.

Other behaviour that a maintainer should know. Where a comment or a message in the code says
otherwise it is quoted; no run refutes these, the models follow the code. The properties named
are stated so that they say exactly when it happens, or leave it out by a hypothesis:

* `validate_mbr_partition()` is to "make sure the range fits within the device"
  (`partition.c:56`) and adds start and length in 32 bits: an entry whose end wraps around is
  published. No property says that a partition lies inside its device, because it need not;
* `mmc_boot_main()` gives `bio_publish_subdevice()` a length in bytes (`mmc.c:2266`), which the
  check "make sure we're able to do this" (`subdev.c:93`) divides by the block size and the new
  device does not. Each partition found at start-up so seems 512 times as long, and the range
  checks of `bio_read()` and `bio_write()` let through what goes to the partitions behind it;
* `splash_ptr` is freed and not cleared (`moboot.c:545`), so that a later attempt may free it again,
  against the assertion of `heap_free()` (`heap.c:369`). There are two ways to a pointer that
  dangles: an attempt with a console file and no splash image, and one with a splash image
  followed by one with neither. The next image without a console file frees it again.
  `FreesOnce` says, and is proved, that there is no other way;
* "Invalid multi-image size(s)" (`uimage.c:256`) is the answer to a check that is a stub. The
  parts of a multi-file image may lie behind its end, in what an earlier one left in the
  scratch memory (`LinuxGetsFile` has `ImagesInside` as a hypothesis);
* the poll at `moboot.c:149` does not end the countdown, so a short press moves the cursor
  and the time goes on: the entry that is then started may be any (`UnattendedOnce`);
* `real_entries` has 32 elements and is not checked: 30 images overrun it (`MenuIsDirectory`);
* `ext2_read_inode()` ignores read errors, so a block may keep what an earlier image left in
  the scratch memory; the checksums notice, except for the block with the header, which may
  be another image's with all its checksums right (`LinuxGetsFile` excludes it);
* a file larger than the scratch memory is accepted if its header has the size of what fits, and
  an empty one if a header with a size that wraps is in memory (`LinuxGetsFile` says so);
* a path that is mounted later and is a prefix of an earlier mount's takes over its files
  and its unmount (`FilesKeepMount` excludes it);
* `partition_publish()` after a read error and `bio_publish_subdevice()` after a failed bounds
  check keep their reference for good (`RefsExact` counts them as lost);
* a file that claims more blocks than its pointers can reach indexes behind `i_block`
  (`ReadsFile`);
* `fs_load_file_mem()` stores a null pointer `size` words behind the pointer and not behind the
  data (`fs.c:414`); a settings file of 256 bytes or more is ended behind its buffer
  (`moboot.c:295`); and `bootlinux.c:218` reads through the NULL of `strchr()` when the command
  line has no nduid. The model ends there, in `stray` or `fault`, or goes on.

## 6. Not modelled

Most of the repository is not moboot's own: OpenSSL, zlib, register-level drivers of
several chips and boards, headers with tables, fonts and pictures make up more than nine
tenths of its lines. Of the rest:

* drawing, fonts, TGA, text, the graphics console: output that nothing reads back;
* console, debug commands, circular buffer, fastboot, recovery: not built for the touchpad;
* periodic and tickless timers: no user in this build; the wrap of the 32-bit time;
* `malloc()` that fails, payload contents in the heap, 32-bit overflow of heap sizes;
* reading and writing of `bio` below block size (no state of its own), `lib/ptable`
  (flash devices);
* in ext2: byte order, the layout of directory blocks, the superblock checks at mount, listing
  a directory; in the boot: the text of the command line, the contents of the tags.

## 7. Plan

Done: the kernel, heap, block cache, block devices with partitions and mounts, path
normalisation, ext2, and the boot application with image parsing. Every invariant and action
property that a passing run checks is proved. In order:

1. Abstract specifications: a file system as a function from paths to contents for `Ext2`, of
   which `Ext2ReadsTheFile` and `Ext2WalkResolves` are the two halves; the boot loop as "an entry
   is booted, or the menu is shown again".
2. Models: `GfxConsole`, periodic timers with the 32-bit wrap of time, the circular buffer;
   `malloc()` that fails.

