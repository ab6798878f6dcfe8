------------------------------- MODULE BCache -------------------------------
(***************************************************************************)
(* The block cache of the file systems: src/lib/bcache/bcache.c, on a      *)
(* device accessed with bio_read() and bio_write() (src/lib/bio/bio.c).    *)
(* One thread uses a cache, as ext2 does, so every function is one step.   *)
(* Its clients name blocks that exist on the device, put what they got,    *)
(* and mark a block dirty when they have changed it through the pointer.   *)
(*                                                                         *)
(* Names that end in _Faulty are variants with a bug; no action uses them. *)
(***************************************************************************)
EXTENDS Integers, FiniteSets, Lists

CONSTANTS
  Blocks, Values, Zero,
  block_count,  \* block_count of bcache_create(); ext2 has 4
  MaxPins,      \* bound: blocks that the client has got and not put
  MaxRefs       \* bound: how often it gets one of them

ASSUME BCacheAssumption ==
  /\ Zero \in Values /\ block_count \in Nat /\ MaxPins \in Nat /\ MaxPins < block_count
  /\ MaxRefs \in Nat

Slots == 1 .. block_count   \* the struct bcache_blocks

VARIABLES
  free_list, lru_list,
  blocknum, ref_count, is_dirty, data,
  disk,
  pins,         \* how often the client holds each block
  access,       \* the client's last access to what a block holds: a read or a write
  crashed,      \* find_or_fill_block() used the NULL of alloc_block()
  write_failed  \* the bio_write() of the last alloc_block() failed

cacheVars == <<free_list, lru_list, blocknum, ref_count, is_dirty, data>>
bcVars == <<cacheVars, disk, pins, access, crashed, write_failed>>

-----------------------------------------------------------------------------
\* The client reads v from block b, or writes it there.
ClientReads(b, v) == access' = [kind |-> "read", block |-> b, value |-> v]
ClientWrites(b, v) == access' = [kind |-> "write", block |-> b, value |-> v]

\* find_block(): s is the first slot of the lru_list with that number.
Found(s, b) ==
  \E i \in 1 .. Len(lru_list) :
    /\ s = lru_list[i] /\ blocknum[s] = b
    /\ \A j \in 1 .. i - 1 : blocknum[lru_list[j]] # b

Cached(b) == \E s \in Slots : Found(s, b)

\* To the tail of the lru_list.
Touch(s) == Append(Without(lru_list, s), s)

\* The slot at which the walk of alloc_block() stops.
Victim(s) ==
  \E i \in 1 .. Len(lru_list) :
    /\ s = lru_list[i] /\ ref_count[s] = 0
    /\ \A j \in 1 .. i - 1 : ref_count[lru_list[j]] # 0

\* flush_block() when bio_write() succeeds, apart from the dirty flag.
flush_block(s) == disk' = [disk EXCEPT ![blocknum[s]] = data[s]]

\* As below, but an evicted block is not flushed.
alloc_block_Faulty(s) ==
  \/ /\ free_list # <<>> /\ s = Head(free_list)
     /\ free_list' = Tail(free_list)
     /\ lru_list' = Append(lru_list, s)
     /\ UNCHANGED disk
  \/ /\ free_list = <<>> /\ Victim(s)
     /\ lru_list' = Touch(s)
     /\ UNCHANGED <<free_list, disk>>

\* alloc_block() returns s: from the free list, or else the least recently used
\* slot without references, which is flushed if it is dirty.
alloc_block(s) ==
  \/ /\ free_list # <<>> /\ s = Head(free_list)
     /\ free_list' = Tail(free_list)
     /\ lru_list' = Append(lru_list, s)
     /\ UNCHANGED disk
  \/ /\ free_list = <<>> /\ Victim(s)
     /\ IF is_dirty[s] THEN flush_block(s) ELSE UNCHANGED disk
     /\ lru_list' = Touch(s)
     /\ UNCHANGED free_list

\* The flag of the slot that alloc_block() returned: a flushed one is clean.
DirtyAfterAlloc(s) == is_dirty[s] /\ free_list # <<>>

\* alloc_block() returns NULL.
AllocFails(writeError) ==
  /\ free_list = <<>>
  /\ IF writeError THEN \E s \in Slots : Victim(s) /\ is_dirty[s]
                   ELSE \A s \in Slots : ~Victim(s)

\* As below, but find_block() does not find anything.
find_or_fill_block_Faulty(s, b) ==
  /\ alloc_block(s)
  /\ blocknum' = [blocknum EXCEPT ![s] = b]
  /\ data' = [data EXCEPT ![s] = disk[b]]
  /\ is_dirty' = [is_dirty EXCEPT ![s] = DirtyAfterAlloc(s)]

\* find_or_fill_block() returns s.
find_or_fill_block(s, b) ==
  \/ /\ Found(s, b)
     /\ lru_list' = Touch(s)
     /\ UNCHANGED <<free_list, blocknum, is_dirty, data, disk>>
  \/ /\ ~Cached(b) /\ alloc_block(s)
     /\ blocknum' = [blocknum EXCEPT ![s] = b]
     /\ data' = [data EXCEPT ![s] = disk[b]]
     /\ is_dirty' = [is_dirty EXCEPT ![s] = DirtyAfterAlloc(s)]

-----------------------------------------------------------------------------
bcache_read_block(b) ==
  /\ ~crashed
  /\ \E s \in Slots :
       /\ find_or_fill_block(s, b)
       /\ ref_count' = IF Cached(b) THEN ref_count ELSE [ref_count EXCEPT ![s] = 0]
       /\ ClientReads(b, data'[s])
  /\ UNCHANGED <<pins, crashed, write_failed>>

\* The client reads the block through the pointer it gets.
bcache_get_block(b) ==
  /\ ~crashed /\ pins[b] < MaxRefs
  /\ pins[b] > 0 \/ Cardinality({c \in Blocks : pins[c] > 0}) < MaxPins
  /\ \E s \in Slots :
       /\ find_or_fill_block(s, b)
       /\ ref_count' = [ref_count EXCEPT ![s] = IF Cached(b) THEN @ + 1 ELSE 1]
       /\ ClientReads(b, data'[s])
  /\ pins' = [pins EXCEPT ![b] = @ + 1]
  /\ UNCHANGED <<crashed, write_failed>>

\* Both of them when alloc_block() has no block to give: the DEBUG_ASSERT is
\* not compiled in, and block->blocknum is written through the null pointer.
NullBlock(b) ==
  /\ ~crashed /\ ~Cached(b)
  /\ \E writeError \in BOOLEAN : AllocFails(writeError) /\ write_failed' = writeError
  /\ crashed' = TRUE
  /\ UNCHANGED <<cacheVars, disk, pins, access>>

\* As below, but the reference is kept.
bcache_put_block_Faulty(b) ==
  /\ ~crashed /\ pins[b] > 0
  /\ \E s \in Slots : Found(s, b) /\ lru_list' = Touch(s)
  /\ pins' = [pins EXCEPT ![b] = @ - 1]
  /\ UNCHANGED <<free_list, blocknum, ref_count, is_dirty, data, disk, access, crashed,
                 write_failed>>

bcache_put_block(b) ==
  /\ ~crashed /\ pins[b] > 0
  /\ \E s \in Slots : /\ Found(s, b)
                      /\ lru_list' = Touch(s)
                      /\ ref_count' = [ref_count EXCEPT ![s] = @ - 1]
  /\ pins' = [pins EXCEPT ![b] = @ - 1]
  /\ UNCHANGED <<free_list, blocknum, is_dirty, data, disk, access, crashed, write_failed>>

\* The client writes v through the pointer it got, then marks the block dirty.
bcache_mark_block_dirty(b, v) ==
  /\ ~crashed /\ pins[b] > 0
  /\ \E s \in Slots : /\ Found(s, b)
                      /\ data' = [data EXCEPT ![s] = v]
                      /\ is_dirty' = [is_dirty EXCEPT ![s] = TRUE]
                      /\ lru_list' = Touch(s)
  /\ ClientWrites(b, v)
  /\ UNCHANGED <<free_list, blocknum, ref_count, disk, pins, crashed, write_failed>>

\* bcache_zero_block() does not read the device; it returns -1 if alloc_block()
\* fails, having changed nothing.
bcache_zero_block(b) ==
  /\ ~crashed
  /\ \E s \in Slots :
       /\ \/ /\ Found(s, b)
             /\ lru_list' = Touch(s)
             /\ UNCHANGED <<free_list, blocknum, ref_count, disk>>
          \/ /\ ~Cached(b) /\ alloc_block(s)
             /\ blocknum' = [blocknum EXCEPT ![s] = b]
             /\ ref_count' = [ref_count EXCEPT ![s] = 0]
       /\ data' = [data EXCEPT ![s] = Zero]
       /\ is_dirty' = [is_dirty EXCEPT ![s] = TRUE]
  /\ ClientWrites(b, Zero)
  /\ UNCHANGED <<pins, crashed, write_failed>>

\* bcache_flush() writes the dirty blocks in the order of the lru_list, and
\* stops after n of them if the device fails.
bcache_flush ==
  /\ ~crashed
  /\ \E n \in 0 .. Len(lru_list) :
       LET flushed == {s \in Slots : is_dirty[s] /\ \E i \in 1 .. n : lru_list[i] = s}
       IN  /\ n < Len(lru_list) => is_dirty[lru_list[n + 1]]
           /\ disk' = [b \in Blocks |->
                         IF \E s \in flushed : blocknum[s] = b
                           THEN data[CHOOSE s \in flushed : blocknum[s] = b] ELSE disk[b]]
           /\ is_dirty' = [s \in Slots |-> is_dirty[s] /\ s \notin flushed]
  /\ UNCHANGED <<free_list, lru_list, blocknum, ref_count, data, pins, access, crashed,
                 write_failed>>

\* bcache_destroy() of a cache with nothing to save, and bcache_create().
Recreate ==
  /\ ~crashed
  /\ \A b \in Blocks : pins[b] = 0
  /\ \A s \in Slots : ~is_dirty[s]
  /\ free_list' = [i \in Slots |-> block_count + 1 - i] /\ lru_list' = <<>>
  /\ blocknum' \in [Slots -> Blocks] /\ data' \in [Slots -> Values]
  /\ ref_count' = [s \in Slots |-> 0]
  /\ UNCHANGED <<is_dirty, disk, pins, access, crashed, write_failed>>

\* find_or_fill_block() when bio_read() fails: the slot that alloc_block() put on
\* the lru_list goes to the free list, and is not taken off the lru_list.
ReadError(b) ==
  /\ ~crashed /\ ~Cached(b)
  /\ \E s \in Slots :
       /\ \/ /\ free_list # <<>> /\ s = Head(free_list)
             /\ free_list' = Append(Tail(free_list), s)
             /\ lru_list' = Append(lru_list, s)
             /\ UNCHANGED disk
          \/ /\ free_list = <<>> /\ Victim(s)
             /\ IF is_dirty[s] THEN flush_block(s) ELSE UNCHANGED disk
             /\ free_list' = <<s>>
             /\ lru_list' = Touch(s)
       /\ blocknum' = [blocknum EXCEPT ![s] = b]
       /\ ref_count' = [ref_count EXCEPT ![s] = 0]
       /\ is_dirty' = [is_dirty EXCEPT ![s] = DirtyAfterAlloc(s)]
  /\ UNCHANGED <<data, pins, access, crashed, write_failed>>

-----------------------------------------------------------------------------
\* bcache_create(); the memory of the blocks is as malloc() returns it.
BCInit ==
  /\ free_list = [i \in Slots |-> block_count + 1 - i] /\ lru_list = <<>>
  /\ blocknum \in [Slots -> Blocks]
  /\ ref_count = [s \in Slots |-> 0] /\ is_dirty = [s \in Slots |-> FALSE]
  /\ data \in [Slots -> Values] /\ disk \in [Blocks -> Values]
  /\ pins = [b \in Blocks |-> 0]
  /\ access \in {[kind |-> "read", block |-> b, value |-> disk[b]] : b \in Blocks}
  /\ crashed = FALSE /\ write_failed = FALSE

BCNext ==
  \/ \E b \in Blocks :
       \/ bcache_read_block(b) \/ bcache_get_block(b) \/ bcache_put_block(b)
       \/ bcache_zero_block(b)
       \/ \E v \in Values : bcache_mark_block_dirty(b, v)
       \/ NullBlock(b)
  \/ bcache_flush \/ Recreate

BCSpec == BCInit /\ [][BCNext]_bcVars

ReadErrorSpec == BCInit /\ [][BCNext \/ \E b \in Blocks : ReadError(b)]_bcVars

-----------------------------------------------------------------------------
(* Properties.                                                             *)

\* Every variable holds a value of the type it stands for.
BCTypeOK ==
  /\ free_list \in Seq(Slots) /\ lru_list \in Seq(Slots)
  /\ blocknum \in [Slots -> Blocks] /\ ref_count \in [Slots -> Int]
  /\ is_dirty \in [Slots -> BOOLEAN] /\ data \in [Slots -> Values]
  /\ disk \in [Blocks -> Values] /\ pins \in [Blocks -> Nat]
  /\ crashed \in BOOLEAN /\ write_failed \in BOOLEAN

\* A bcache_block has one list node: it is on the free list or on the lru list,
\* once, and never on both.
SlotsOnOneList ==
  /\ Distinct(free_list) /\ Distinct(lru_list)
  /\ \A s \in Slots : OccursIn(s, free_list) <=> ~OccursIn(s, lru_list)

\* No block is cached twice (the second copy would go stale).
OneSlotPerBlock ==
  \A i, j \in 1 .. Len(lru_list) :
    blocknum[lru_list[i]] = blocknum[lru_list[j]] => i = j

\* A block that the client has got and not put stays in the cache, with as many
\* references: the pointer from bcache_get_block() remains valid.
PinnedStay ==
  \A b \in Blocks :
    /\ pins[b] > 0 => Cached(b)
    /\ \A s \in Slots : Found(s, b) => ref_count[s] = pins[b]

\* A cached block that differs from the device is marked dirty.
CleanMatchesDisk ==
  \A s \in Slots : OccursIn(s, lru_list) /\ ~is_dirty[s] => data[s] = disk[blocknum[s]]

\* The inductive invariant: what makes the cache transparent.
BCInv ==
  BCTypeOK /\ SlotsOnOneList /\ OneSlotPerBlock /\ PinnedStay /\ CleanMatchesDisk

\* The cache is transparent: what the client reads from a block, by a copy or through
\* a pointer, is what it last wrote to it, and no block changes by anything but a
\* write of the client: not by gets and puts, evictions and flushes, or because the
\* device fails in the middle of them, or the cache is created anew.
Store == INSTANCE BlockStore WITH
  contents <- [b \in Blocks |-> IF Cached(b) THEN data[CHOOSE s \in Slots : Found(s, b)]
                                             ELSE disk[b]]

CacheIsTransparent == Store!Spec

\* A client that pins fewer blocks than the cache has makes find_or_fill_block()
\* meet a null block only when the device fails to write.
NullOnlyOnWriteError == crashed => write_failed

=============================================================================
