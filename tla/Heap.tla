-------------------------------- MODULE Heap --------------------------------
(***************************************************************************)
(* The kernel heap: src/lib/heap/heap.c.  theheap.free_list is a sequence  *)
(* of chunks; a chunk that has been given out is described by the          *)
(* alloc_struct_begin in front of its payload, so allocs holds what those  *)
(* headers say (ptr, size) together with what the caller asked for.        *)
(*                                                                         *)
(* Every function works inside a critical section, so it is one step,      *)
(* except heap_realloc(), which calls heap_alloc() and then heap_free():   *)
(* doomed are the allocations that such a call has copied and not freed.   *)
(* Requests are far enough below the range of size_t for no sum to wrap.   *)
(*                                                                         *)
(* Names that end in _Faulty are variants with a bug; no action uses them. *)
(***************************************************************************)
EXTENDS Integers, FiniteSets, Lists

CONSTANTS
  HEAP_START, HEAP_LEN,
  WORD,         \* sizeof(void *)
  HEADER,       \* sizeof(struct alloc_struct_begin)
  CHUNK,        \* sizeof(struct free_heap_chunk)
  MIN_ALIGN,    \* the least alignment that is not 0; heap_alloc() has 16
  Sizes,        \* sizes asked for
  Alignments,   \* alignments asked for: 0 or a power of 2
  MaxDoomed     \* bound: calls of heap_realloc() at one time

ASSUME HeapAssumption ==
  /\ HEAP_START \in Nat /\ HEAP_LEN \in Nat
  /\ WORD \in Nat \ {0} /\ CHUNK \in Nat \ {0} /\ MIN_ALIGN \in Nat \ {0}
  /\ HEADER \in Nat /\ CHUNK <= HEAP_LEN
  /\ Sizes \subseteq Nat /\ Alignments \subseteq Nat /\ MaxDoomed \in Nat

\* The linker script puts _end and the end of memory on word boundaries
\* (src/arch/arm/system-onesegment.ld), and alignments are powers of 2: one that is
\* raised to MIN_ALIGN divides it, the others are whole words.
ASSUME AlignAssumption ==
  /\ HEAP_LEN % WORD = 0 /\ MIN_ALIGN % WORD = 0
  /\ \A n \in Alignments \ {0} : IF n < MIN_ALIGN THEN MIN_ALIGN % n = 0 ELSE n % WORD = 0

HEAP_END == HEAP_START + HEAP_LEN

VARIABLES free_list, allocs, doomed
heapVars == <<free_list, allocs, doomed>>

Chunks == [base : Nat, len : Nat]
Allocs == [base : Nat, len : Nat, ptr : Nat, request : Nat, align : Nat]

ChunkEnd(c) == c.base + c.len

-----------------------------------------------------------------------------
\* ROUNDUP(a, b), b a power of 2.
ROUNDUP(a, b) == a + ((b - (a % b)) % b)

\* The first i - 1 elements of s, then e, then those from the j-th on.
Splice(s, i, e, j) ==
  [k \in 1 .. Len(s) + i - j + 1 |->
     IF k < i THEN s[k] ELSE IF k = i THEN e ELSE s[k - i + j - 1]]

\* As below, but the next chunk is not merged.
heap_insert_free_chunk_Faulty(chunk) ==
  \E n \in 1 .. Len(free_list) + 1 :
    /\ \A k \in 1 .. n - 1 : ~(chunk.base < free_list[k].base)
    /\ n <= Len(free_list) => chunk.base < free_list[n].base
    /\ LET last == n > 1 /\ ChunkEnd(free_list[n - 1]) = chunk.base
           base == IF last THEN free_list[n - 1].base ELSE chunk.base
       IN  free_list' = Splice(free_list, IF last THEN n - 1 ELSE n,
                               [base |-> base, len |-> ChunkEnd(chunk) - base], n)

\* heap_insert_free_chunk(): before the first chunk that lies higher, merged
\* with the previous and with the next one if they touch.  (When there is no next
\* one, next_chunk is the head of the list, which lies below the heap and so
\* touches no chunk.)
heap_insert_free_chunk(chunk) ==
  \E n \in 1 .. Len(free_list) + 1 :
    /\ \A k \in 1 .. n - 1 : ~(chunk.base < free_list[k].base)
    /\ n <= Len(free_list) => chunk.base < free_list[n].base
    /\ LET last == n > 1 /\ ChunkEnd(free_list[n - 1]) = chunk.base
           next == n <= Len(free_list) /\ ChunkEnd(chunk) = free_list[n].base
           base == IF last THEN free_list[n - 1].base ELSE chunk.base
           end  == IF next THEN ChunkEnd(free_list[n]) ELSE ChunkEnd(chunk)
       IN  free_list' = Splice(free_list, IF last THEN n - 1 ELSE n,
                               [base |-> base, len |-> end - base],
                               IF next THEN n + 1 ELSE n)

EffectiveAlign(alignment) ==
  IF alignment > 0 /\ alignment < MIN_ALIGN THEN MIN_ALIGN ELSE alignment

\* As below, but the worst case of the alignment is not reserved.
AllocSize_Faulty(size, alignment) ==
  ROUNDUP(IF size + HEADER < CHUNK THEN CHUNK ELSE size + HEADER, WORD)

\* The bytes that heap_alloc() looks for: header included, at least a free
\* chunk's size, a multiple of the word size, plus the alignment.
AllocSize(size, alignment) ==
  ROUNDUP(IF size + HEADER < CHUNK THEN CHUNK ELSE size + HEADER, WORD)
    + EffectiveAlign(alignment)

\* As below, but the chunk is aligned, not the payload.
AllocPtr_Faulty(base, alignment) ==
  IF alignment > 0 THEN ROUNDUP(base, EffectiveAlign(alignment)) + HEADER
                   ELSE base + HEADER

AllocPtr(base, alignment) ==
  IF alignment > 0 THEN ROUNDUP(base + HEADER, EffectiveAlign(alignment))
                   ELSE base + HEADER

\* As below, but the bytes of a chunk that is too small to split are lost.
Carve_Faulty(n, want, size, alignment) ==
  LET chunk == free_list[n]
  IN  /\ free_list' = IF chunk.len > want + CHUNK
                        THEN Splice(free_list, n, [base |-> chunk.base + want,
                                                   len |-> chunk.len - want], n + 1)
                        ELSE RemoveIndex(free_list, n)
      /\ allocs' = allocs \cup
           {[base |-> chunk.base, len |-> want, ptr |-> AllocPtr(chunk.base, alignment),
             request |-> size, align |-> alignment]}

\* Give out the n-th free chunk: what it has beyond the bytes wanted stays
\* free, in its place, if that is more than a free chunk's header.
Carve(n, want, size, alignment) ==
  LET chunk == free_list[n]
      split == chunk.len > want + CHUNK
  IN  /\ free_list' = IF split
                        THEN Splice(free_list, n, [base |-> chunk.base + want,
                                                   len |-> chunk.len - want], n + 1)
                        ELSE RemoveIndex(free_list, n)
      /\ allocs' = allocs \cup
           {[base |-> chunk.base, len |-> IF split THEN want ELSE chunk.len,
             ptr |-> AllocPtr(chunk.base, alignment),
             request |-> size, align |-> alignment]}

\* heap_alloc(): the first chunk that is long enough.
heap_alloc(size, alignment) ==
  LET want == AllocSize(size, alignment)
  IN  \E n \in 1 .. Len(free_list) :
        /\ free_list[n].len >= want
        /\ \A k \in 1 .. n - 1 : free_list[k].len < want
        /\ Carve(n, want, size, alignment)

Allocate == /\ \E size \in Sizes, alignment \in Alignments : heap_alloc(size, alignment)
            /\ UNCHANGED doomed

heap_free(a) ==
  /\ heap_insert_free_chunk([base |-> a.base, len |-> a.len])
  /\ allocs' = allocs \ {a}
  /\ doomed' = doomed \ {a}

Free == \E a \in allocs \ doomed : heap_free(a)

\* heap_realloc() of a to a size other than 0, if heap_alloc() succeeds (else a
\* stays as it is); and the heap_free() at its end.
heap_realloc(a, size) ==
  /\ heap_alloc(size, 0)
  /\ doomed' = doomed \cup {a}

Reallocate ==
  /\ Cardinality(doomed) < MaxDoomed
  /\ \E a \in allocs \ doomed, size \in Sizes \ {0} : heap_realloc(a, size)

ReallocFree == \E a \in doomed : heap_free(a)

-----------------------------------------------------------------------------
heap_init ==
  /\ free_list = <<[base |-> HEAP_START, len |-> HEAP_LEN]>>
  /\ allocs = {} /\ doomed = {}

HeapNext == Allocate \/ Free \/ Reallocate \/ ReallocFree

HeapSpec == heap_init /\ [][HeapNext]_heapVars

-----------------------------------------------------------------------------
(* Properties.                                                             *)

\* Chunks and allocations are records of addresses and lengths, and what
\* heap_realloc() is going to free is allocated.
HeapTypeOK ==
  free_list \in Seq(Chunks) /\ allocs \subseteq Allocs /\ doomed \subseteq allocs

Inside(c) == HEAP_START <= c.base /\ CHUNK <= c.len /\ ChunkEnd(c) <= HEAP_END
Apart(c, d) == ChunkEnd(c) <= d.base \/ ChunkEnd(d) <= c.base

\* heap_insert_free_chunk() keeps the free list ordered by address, every chunk
\* long enough for its header, and merged: no two free chunks touch.
FreeListMerged ==
  /\ \A i \in 1 .. Len(free_list) : Inside(free_list[i])
  /\ \A i, j \in 1 .. Len(free_list) :
       i < j => ChunkEnd(free_list[i]) < free_list[j].base

\* No byte is given out twice, or both given out and free.
AllocsApart ==
  \A a \in allocs :
    /\ Inside(a)
    /\ \A b \in allocs \ {a} : Apart(a, b)
    /\ \A i \in 1 .. Len(free_list) : Apart(a, free_list[i])

Holds(c, x) == c.base <= x /\ x < ChunkEnd(c)

\* No byte is lost: what is not allocated is on the free list.
NothingLost ==
  \A x \in HEAP_START .. HEAP_END - 1 :
    \/ \E a \in allocs : Holds(a, x)
    \/ \E i \in 1 .. Len(free_list) : Holds(free_list[i], x)

\* What the caller got: behind the header, inside the chunk that heap_free() will
\* put back, with room for the request.
PayloadFits ==
  \A a \in allocs : a.base + HEADER <= a.ptr /\ a.ptr + a.request <= ChunkEnd(a)

\* heap_test() asserts that the address is a multiple of the alignment, and
\* heap_create_free_chunk() that every length is one of the word size.
Aligned ==
  /\ \A a \in allocs : a.len % WORD = 0 /\ (a.align > 0 => a.ptr % a.align = 0)
  /\ \A i \in 1 .. Len(free_list) : free_list[i].len % WORD = 0

\* The inductive invariant.
HeapInv ==
  HeapTypeOK /\ FreeListMerged /\ AllocsApart /\ NothingLost /\ PayloadFits

Unallocated(x, y) ==
  \A a \in allocs : ChunkEnd(a) <= x \/ y <= a.base

\* heap_alloc() fails only if it must: any run of bytes that nobody has is part
\* of one free chunk, so the first-fit search sees it whole.
HolesWhole ==
  \A x, y \in HEAP_START .. HEAP_END :
    x < y /\ Unallocated(x, y) =>
      \E i \in 1 .. Len(free_list) :
        free_list[i].base <= x /\ y <= ChunkEnd(free_list[i])

\* When everything has been freed, in whatever order, the heap is as
\* heap_init() made it.
AllFreedIsInitial ==
  allocs = {} => free_list = <<[base |-> HEAP_START, len |-> HEAP_LEN]>>

=============================================================================
