----------------------------- MODULE HeapProofs -----------------------------
(***************************************************************************)
(* The heap invariant for heaps of any size, any requests and alignments,  *)
(* and what follows from it: free bytes are never fragmented, and freeing  *)
(* everything restores the initial heap.                                   *)
(***************************************************************************)
EXTENDS Heap, TLAPS

-----------------------------------------------------------------------------
(* Arithmetic of a request.                                                *)

\* ROUNDUP() goes up by less than one unit.
LEMMA RoundUpFacts ==
  ASSUME NEW a \in Nat, NEW b \in Nat \ {0}
  PROVE  ROUNDUP(a, b) \in Nat /\ a <= ROUNDUP(a, b) /\ ROUNDUP(a, b) < a + b
<1>1. a % b \in 0 .. b - 1
  OBVIOUS
<1>2. b - (a % b) \in Int
  BY <1>1
<1>3. (b - (a % b)) % b \in 0 .. b - 1
  BY <1>2
<1> QED BY <1>3 DEF ROUNDUP

\* The bytes that heap_alloc() looks for hold the header, the padding of the
\* alignment and the request.
LEMMA AllocSizeFacts ==
  ASSUME NEW size \in Nat, NEW alignment \in Nat, NEW base \in Nat
  PROVE  /\ AllocSize(size, alignment) \in Nat
         /\ CHUNK <= AllocSize(size, alignment)
         /\ AllocPtr(base, alignment) \in Nat
         /\ base + HEADER <= AllocPtr(base, alignment)
         /\ AllocPtr(base, alignment) + size <= base + AllocSize(size, alignment)
<1> DEFINE w == IF size + HEADER < CHUNK THEN CHUNK ELSE size + HEADER
           ea == EffectiveAlign(alignment)
<1>1. w \in Nat /\ size + HEADER <= w /\ CHUNK <= w
  BY HeapAssumption
<1>2. ROUNDUP(w, WORD) \in Nat /\ w <= ROUNDUP(w, WORD)
  BY <1>1, RoundUpFacts, HeapAssumption
<1>3. ea \in Nat /\ (alignment > 0 => ea \in Nat \ {0}) /\ (alignment = 0 => ea = 0)
  BY HeapAssumption DEF EffectiveAlign
<1>4. base + HEADER \in Nat
  BY HeapAssumption
<1>5. AllocSize(size, alignment) = ROUNDUP(w, WORD) + ea
  BY DEF AllocSize
<1>6. CASE alignment > 0
  <2>1. /\ ROUNDUP(base + HEADER, ea) \in Nat
        /\ base + HEADER <= ROUNDUP(base + HEADER, ea)
        /\ ROUNDUP(base + HEADER, ea) < base + HEADER + ea
    BY <1>3, <1>4, <1>6, RoundUpFacts
  <2>2. AllocPtr(base, alignment) = ROUNDUP(base + HEADER, ea)
    BY <1>6 DEF AllocPtr
  <2> HIDE DEF w, ea
  <2> QED BY <1>1, <1>2, <1>3, <1>5, <2>1, <2>2, HeapAssumption
<1>7. CASE ~(alignment > 0)
  <2>1. AllocPtr(base, alignment) = base + HEADER
    BY <1>7 DEF AllocPtr
  <2> HIDE DEF w, ea
  <2> QED BY <1>1, <1>2, <1>3, <1>5, <1>4, <2>1, HeapAssumption
<1> QED BY <1>6, <1>7

-----------------------------------------------------------------------------
(* The operations on the free list.                                        *)

\* What RemoveIndex and the insertion of a chunk leave at each place.
LEMMA SpliceFacts ==
  ASSUME NEW s \in Seq(Chunks), NEW e \in Chunks,
         NEW i \in 1 .. Len(s) + 1, NEW j \in i .. Len(s) + 1
  PROVE  /\ Splice(s, i, e, j) \in Seq(Chunks)
         /\ Len(Splice(s, i, e, j)) = Len(s) + i - j + 1
         /\ \A k \in 1 .. Len(s) + i - j + 1 :
              Splice(s, i, e, j)[k] =
                IF k < i THEN s[k] ELSE IF k = i THEN e ELSE s[k - i + j - 1]
<1> DEFINE n == Len(s) + i - j + 1
<1>1. Len(s) \in Nat /\ n \in Nat
  OBVIOUS
<1>2. \A k \in 1 .. n : (IF k < i THEN s[k] ELSE IF k = i THEN e ELSE s[k - i + j - 1]) \in Chunks
  BY <1>1
<1>3. Splice(s, i, e, j) \in [1 .. n -> Chunks]
  BY <1>2 DEF Splice
<1>4. Splice(s, i, e, j) \in Seq(Chunks)
  BY <1>1, <1>3
<1>5. Len(Splice(s, i, e, j)) = n
  BY <1>1, <1>3
<1> QED BY <1>4, <1>5 DEF Splice

\* Its length alone, for the proofs that need no more.
LEMMA SpliceLength ==
  ASSUME NEW s \in Seq(Chunks), NEW e \in Chunks,
         NEW i \in 1 .. Len(s) + 1, NEW j \in i .. Len(s) + 1
  PROVE  Splice(s, i, e, j) \in Seq(Chunks) /\ Len(Splice(s, i, e, j)) = Len(s) + i - j + 1
BY SpliceFacts

\* A list without one of its elements.
LEMMA RemoveFacts ==
  ASSUME NEW s \in Seq(Chunks), NEW n \in 1 .. Len(s)
  PROVE  /\ RemoveIndex(s, n) \in Seq(Chunks)
         /\ Len(RemoveIndex(s, n)) = Len(s) - 1
         /\ \A k \in 1 .. Len(s) - 1 :
              RemoveIndex(s, n)[k] = IF k < n THEN s[k] ELSE s[k + 1]
<1>1. Len(s) - 1 \in Nat
  OBVIOUS
<1>2. RemoveIndex(s, n) \in [1 .. Len(s) - 1 -> Chunks]
  BY <1>1 DEF RemoveIndex
<1>3. Len(RemoveIndex(s, n)) = Len(s) - 1
  BY <1>1, <1>2
<1> QED BY <1>1, <1>2, <1>3 DEF RemoveIndex
-----------------------------------------------------------------------------
(* heap_free().                                                            *)

\* Where the chunk from p to q goes in a list of chunks from B[k] to E[k]: those
\* before it end below, those behind it begin above.
LEMMA Neighbours ==
  ASSUME NEW N \in Nat, NEW B \in [1 .. N -> Nat], NEW E \in [1 .. N -> Nat],
         NEW p \in Nat, NEW q \in Nat, p < q,
         \A k \in 1 .. N : B[k] < E[k],
         \A k, l \in 1 .. N : k < l => E[k] < B[l],
         \A k \in 1 .. N : q <= B[k] \/ E[k] <= p,
         NEW n \in 1 .. N + 1,
         \A k \in 1 .. n - 1 : ~(p < B[k]),
         n <= N => p < B[n]
  PROVE  /\ \A k \in 1 .. n - 1 : E[k] <= p
         /\ \A k \in n .. N : q <= B[k]
         /\ \A k \in 1 .. n - 2 : E[k] < B[n - 1]
         /\ \A k \in n + 1 .. N : E[n] < B[k]
         /\ n > 1 /\ E[n - 1] # p => \A k \in 1 .. n - 1 : E[k] < p
         /\ n <= N /\ q # B[n] => \A k \in n .. N : q < B[k]
<1>1. \A k \in 1 .. n - 1 : E[k] <= p
  OBVIOUS
<1>2. \A k \in n .. N : p < B[k]
  <2> SUFFICES ASSUME NEW k \in n .. N PROVE p < B[k]
    OBVIOUS
  <2>1. n \in 1 .. N /\ k \in 1 .. N /\ p < B[n]
    OBVIOUS
  <2>2. CASE n = k
    BY <2>1, <2>2
  <2>3. CASE n < k
    BY <2>1, <2>3
  <2> QED BY <2>1, <2>2, <2>3
<1>3. \A k \in n .. N : q <= B[k]
  BY <1>2
<1>4. \A k \in 1 .. n - 2 : E[k] < B[n - 1]
  OBVIOUS
<1>5. \A k \in n + 1 .. N : E[n] < B[k]
  OBVIOUS
<1>6. n > 1 /\ E[n - 1] # p => \A k \in 1 .. n - 1 : E[k] < p
  <2> SUFFICES ASSUME n > 1, E[n - 1] # p, NEW k \in 1 .. n - 1 PROVE E[k] < p
    OBVIOUS
  <2>1. n - 1 \in 1 .. N /\ E[n - 1] < p /\ B[n - 1] < E[n - 1]
    BY <1>1
  <2>2. k = n - 1 \/ k \in 1 .. n - 2
    OBVIOUS
  <2> QED BY <1>4, <2>1, <2>2
<1>7. n <= N /\ q # B[n] => \A k \in n .. N : q < B[k]
  <2> SUFFICES ASSUME n <= N, q # B[n], NEW k \in n .. N PROVE q < B[k]
    OBVIOUS
  <2>1. n \in 1 .. N /\ q < B[n] /\ B[n] < E[n]
    BY <1>3
  <2>2. k = n \/ k \in n + 1 .. N
    OBVIOUS
  <2> QED BY <1>5, <2>1, <2>2
<1> QED BY <1>1, <1>3, <1>4, <1>5, <1>6, <1>7

\* Merging with the chunk before p, or not: i is the first chunk that is
\* replaced, u where the new chunk begins.
LEMMA MergeBefore ==
  ASSUME NEW N \in Nat, NEW B \in [1 .. N -> Nat], NEW E \in [1 .. N -> Nat],
         NEW p \in Nat, NEW n \in 1 .. N + 1,
         \A k \in 1 .. N : B[k] < E[k],
         \A k \in 1 .. n - 1 : E[k] <= p,
         \A k \in 1 .. n - 2 : E[k] < B[n - 1],
         n > 1 /\ E[n - 1] # p => \A k \in 1 .. n - 1 : E[k] < p,
         NEW i, i = (IF n > 1 /\ E[n - 1] = p THEN n - 1 ELSE n),
         NEW u, u = (IF n > 1 /\ E[n - 1] = p THEN B[n - 1] ELSE p)
  PROVE  /\ i \in 1 .. n /\ n <= i + 1 /\ u \in Nat /\ u <= p
         /\ \A k \in 1 .. N : k < i => E[k] < u
         /\ \A k \in 1 .. N : i <= k /\ k < n => u <= B[k] /\ E[k] <= p
         /\ \A x \in Nat : u <= x /\ x < p => i \in 1 .. N /\ i < n /\ B[i] <= x /\ x < E[i]
<1>1. CASE n > 1 /\ E[n - 1] = p
  <2>1. i = n - 1 /\ u = B[n - 1] /\ n - 1 \in 1 .. N
    BY <1>1
  <2> QED BY <1>1, <2>1
<1>2. CASE ~(n > 1 /\ E[n - 1] = p)
  <2>1. i = n /\ u = p
    BY <1>2
  <2> QED BY <1>2, <2>1
<1> QED BY <1>1, <1>2

\* The same with the chunk behind q: j is the first chunk that is kept, v where
\* the new chunk ends.
LEMMA MergeBehind ==
  ASSUME NEW N \in Nat, NEW B \in [1 .. N -> Nat], NEW E \in [1 .. N -> Nat],
         NEW q \in Nat, NEW n \in 1 .. N + 1,
         \A k \in 1 .. N : B[k] < E[k],
         \A k \in n .. N : q <= B[k],
         \A k \in n + 1 .. N : E[n] < B[k],
         n <= N /\ q # B[n] => \A k \in n .. N : q < B[k],
         NEW j, j = (IF n <= N /\ q = B[n] THEN n + 1 ELSE n),
         NEW v, v = (IF n <= N /\ q = B[n] THEN E[n] ELSE q)
  PROVE  /\ j \in n .. N + 1 /\ j <= n + 1 /\ v \in Nat /\ q <= v
         /\ \A k \in 1 .. N : j <= k => v < B[k]
         /\ \A k \in 1 .. N : n <= k /\ k < j => q <= B[k] /\ E[k] <= v
         /\ \A x \in Nat : q <= x /\ x < v => n \in 1 .. N /\ n < j /\ B[n] <= x /\ x < E[n]
<1>1. CASE n <= N /\ q = B[n]
  <2>1. j = n + 1 /\ v = E[n] /\ n \in 1 .. N
    BY <1>1
  <2> QED BY <1>1, <2>1
<1>2. CASE ~(n <= N /\ q = B[n])
  <2>1. j = n /\ v = q
    BY <1>2
  <2> QED BY <1>2, <2>1
<1> QED BY <1>1, <1>2

\* An element of a spliced list other than the new one is an old one from outside
\* the part that was replaced.
LEMMA SpliceOld ==
  ASSUME NEW s \in Seq(Chunks), NEW e \in Chunks,
         NEW i \in 1 .. Len(s) + 1, NEW j \in i .. Len(s) + 1,
         NEW k \in 1 .. Len(Splice(s, i, e, j)), k # i
  PROVE  \E l \in 1 .. Len(s) : (l < i \/ j <= l) /\ Splice(s, i, e, j)[k] = s[l]
<1> DEFINE N == Len(s)
           M == Len(s) + i - j + 1
           t == Splice(s, i, e, j)
<1>1. N \in Nat /\ M \in Nat /\ i \in 1 .. M
  OBVIOUS
<1>2. k \in 1 .. M
  <2>1. Len(Splice(s, i, e, j)) = M
    BY SpliceFacts
  <2> QED BY <2>1
<1>3. t[k] = IF k < i THEN s[k] ELSE IF k = i THEN e ELSE s[k - i + j - 1]
  BY <1>2 DEF Splice
<1> HIDE DEF t
<1>4. CASE k < i
  <2>1. k \in 1 .. N /\ t[k] = s[k]
    BY <1>1, <1>2, <1>3, <1>4
  <2> QED BY <1>4, <2>1, Zenon DEF t
<1>5. CASE ~(k < i)
  <2> DEFINE l == k - i + j - 1
  <2>1. l \in 1 .. N /\ j <= l /\ t[k] = s[l]
    BY <1>2, <1>3, <1>5
  <2> HIDE DEF l
  <2> QED BY <2>1, Zenon DEF t
<1> QED BY <1>4, <1>5

\* And those are all still there.
LEMMA SpliceKeeps ==
  ASSUME NEW s \in Seq(Chunks), NEW e \in Chunks,
         NEW i \in 1 .. Len(s) + 1, NEW j \in i .. Len(s) + 1,
         NEW l \in 1 .. Len(s), l < i \/ j <= l
  PROVE  \E k \in 1 .. Len(Splice(s, i, e, j)) : Splice(s, i, e, j)[k] = s[l]
<1> DEFINE M == Len(s) + i - j + 1
           t == Splice(s, i, e, j)
<1>1. Len(s) \in Nat /\ M \in Nat /\ i \in 1 .. M
  OBVIOUS
<1>2. Len(t) = M
  BY SpliceFacts
<1>3. \A k \in 1 .. M :
        t[k] = IF k < i THEN s[k] ELSE IF k = i THEN e ELSE s[k - i + j - 1]
  BY DEF Splice
<1> HIDE DEF t
<1>4. \E k \in 1 .. M : t[k] = s[l]
  <2>1. CASE l < i
    <3>1. l \in 1 .. M /\ t[l] = s[l]
      BY <1>1, <1>3, <2>1
    <3> QED BY <3>1, Zenon
  <2>2. CASE j <= l
    <3> DEFINE k == l + i - j + 1
    <3>1. k \in 1 .. M /\ ~(k < i) /\ k # i /\ k - i + j - 1 = l
      BY <2>2
    <3> HIDE DEF k
    <3>2. t[k] = s[k - i + j - 1]
      BY <1>3, <3>1
    <3> QED BY <3>1, <3>2, Zenon
  <2> QED BY <2>1, <2>2
<1> QED BY <1>2, <1>4 DEF t

\* The elements of a spliced list: the new one, and the old ones outside the
\* part that was replaced.
LEMMA SpliceElements ==
  ASSUME NEW s \in Seq(Chunks), NEW e \in Chunks,
         NEW i \in 1 .. Len(s) + 1, NEW j \in i .. Len(s) + 1,
         NEW t, t = Splice(s, i, e, j)
  PROVE  /\ t \in Seq(Chunks) /\ i \in 1 .. Len(t) /\ t[i] = e
         /\ Len(t) = Len(s) + i - j + 1
         /\ \A k \in 1 .. Len(t) :
              k # i => \E l \in 1 .. Len(s) : (l < i \/ j <= l) /\ t[k] = s[l]
         /\ \A l \in 1 .. Len(s) :
              l < i \/ j <= l => \E k \in 1 .. Len(t) : t[k] = s[l]
<1> DEFINE N == Len(s)
           M == Len(s) + i - j + 1
<1>1. N \in Nat /\ M \in Nat /\ i \in 1 .. M
  OBVIOUS
<1>2. t \in Seq(Chunks) /\ Len(t) = M
  BY SpliceLength
<1>3. \A k \in 1 .. M :
        t[k] = IF k < i THEN s[k] ELSE IF k = i THEN e ELSE s[k - i + j - 1]
  BY DEF Splice
<1>4. t[i] = e
  BY <1>1, <1>3
<1>5. ASSUME NEW k \in 1 .. M, k # i
      PROVE  \E l \in 1 .. N : (l < i \/ j <= l) /\ t[k] = s[l]
  <2>1. k \in 1 .. Len(Splice(s, i, e, j))
    BY <1>2
  <2>2. \E l \in 1 .. N : (l < i \/ j <= l) /\ Splice(s, i, e, j)[k] = s[l]
    BY <1>5, <2>1, SpliceOld
  <2> QED BY <2>2
<1>6. ASSUME NEW l \in 1 .. N, l < i \/ j <= l
      PROVE  \E k \in 1 .. M : t[k] = s[l]
  <2>1. \E k \in 1 .. Len(Splice(s, i, e, j)) : Splice(s, i, e, j)[k] = s[l]
    BY <1>6, SpliceKeeps
  <2> QED BY <1>2, <2>1
<1>7. Len(t) = Len(s) + i - j + 1
  BY <1>2
<1> HIDE DEF M
<1> QED BY <1>1, <1>2, <1>4, <1>5, <1>6, <1>7

\* FreeListMerged of a list that had a part replaced by the chunk e.
LEMMA ReplacingChunks ==
  ASSUME NEW s \in Seq(Chunks), NEW e \in Chunks, Inside(e),
         NEW i \in 1 .. Len(s) + 1, NEW j \in i .. Len(s) + 1,
         NEW t, t = Splice(s, i, e, j),
         \A k \in 1 .. Len(s) : Inside(s[k]),
         \A k, l \in 1 .. Len(s) : k < l => ChunkEnd(s[k]) < s[l].base,
         \A k \in 1 .. Len(s) : k < i => ChunkEnd(s[k]) < e.base,
         \A k \in 1 .. Len(s) : j <= k => ChunkEnd(e) < s[k].base
  PROVE  /\ \A k \in 1 .. Len(t) : Inside(t[k])
         /\ \A k, l \in 1 .. Len(t) : k < l => ChunkEnd(t[k]) < t[l].base
<1> DEFINE N == Len(s)
           M == Len(s) + i - j + 1
           u == e.base
           v == ChunkEnd(e)
           B == [k \in 1 .. N |-> s[k].base]
           E == [k \in 1 .. N |-> ChunkEnd(s[k])]
           BB == [k \in 1 .. M |-> t[k].base]
           EE == [k \in 1 .. M |-> ChunkEnd(t[k])]
<1>1. N \in Nat /\ M \in Nat /\ M = N + i - j + 1
  OBVIOUS
<1>2. Len(t) = M /\ t \in Seq(Chunks)
  <2>1. t \in Seq(Chunks)
    BY SpliceElements
  <2>2. DOMAIN t = 1 .. M
    BY DEF Splice
  <2> QED BY <1>1, <2>1, <2>2
<1>3. \A k \in 1 .. M :
        t[k] = IF k < i THEN s[k] ELSE IF k = i THEN e ELSE s[k - i + j - 1]
  BY DEF Splice
<1>4. \A c \in Chunks : c.base \in Nat /\ c.len \in Nat /\ ChunkEnd(c) \in Nat
  BY DEF Chunks, ChunkEnd
<1>5. (\A k \in 1 .. N : s[k] \in Chunks) /\ (\A k \in 1 .. M : t[k] \in Chunks)
  BY <1>1, <1>2
<1>6. B \in [1 .. N -> Nat] /\ E \in [1 .. N -> Nat]
  BY <1>4, <1>5
<1>7. BB \in [1 .. M -> Nat] /\ EE \in [1 .. M -> Nat]
  BY <1>4, <1>5
<1>8. \A k \in 1 .. N : B[k] < E[k]
  <2>1. \A c \in Chunks : Inside(c) => c.base < ChunkEnd(c)
    BY HeapAssumption DEF Chunks, Inside, ChunkEnd
  <2>2. \A k \in 1 .. N : s[k].base < ChunkEnd(s[k])
    BY <1>5, <2>1
  <2> QED BY <2>2
<1>9. u \in Nat /\ v \in Nat /\ u < v
  BY HeapAssumption DEF Chunks, Inside, ChunkEnd
<1>10. /\ \A k, l \in 1 .. N : k < l => E[k] < B[l]
       /\ \A k \in 1 .. N : k < i => E[k] < u
       /\ \A k \in 1 .. N : j <= k => v < B[k]
  OBVIOUS
<1>11. \A k \in 1 .. M : k < i => BB[k] = B[k] /\ EE[k] = E[k]
  BY <1>1, <1>3
<1>12. i \in 1 .. M /\ BB[i] = u /\ EE[i] = v
  <2>1. i \in 1 .. M
    BY <1>1
  <2>2. t[i] = e
    BY <1>3, <2>1
  <2> QED BY <2>1, <2>2
<1>13. ASSUME NEW k \in 1 .. M, i < k
       PROVE  BB[k] = B[k - i + j - 1] /\ EE[k] = E[k - i + j - 1]
  <2>1. k - i + j - 1 \in 1 .. N
    BY <1>1, <1>13
  <2>2. t[k] = s[k - i + j - 1]
    BY <1>3, <1>13
  <2> QED BY <2>1, <2>2
<1>14. ASSUME NEW k \in 1 .. M, NEW l \in 1 .. M, k < l
       PROVE  EE[k] < BB[l]
  <2> HIDE DEF N, M, B, E, BB, EE, u, v
  <2>1. i \in 1 .. N + 1 /\ j \in i .. N + 1 /\ N \in Nat /\ M = N + i - j + 1
    BY <1>1 DEF N
  <2>2. CASE l < i
    <3>1. k \in 1 .. N /\ l \in 1 .. N
      BY <1>14, <2>1, <2>2
    <3>2. EE[k] = E[k] /\ BB[l] = B[l]
      BY <1>11, <1>14, <2>1, <2>2
    <3> QED BY <1>10, <1>14, <3>1, <3>2
  <2>3. CASE l = i
    <3>1. k \in 1 .. N /\ EE[k] = E[k]
      BY <1>11, <1>14, <2>1, <2>3
    <3> QED BY <1>10, <1>12, <1>14, <2>3, <3>1
  <2>4. CASE i < l /\ k < i
    <3>1. k \in 1 .. N /\ EE[k] = E[k] /\ E[k] < u
      BY <1>10, <1>11, <2>1, <2>4
    <3>2. l - i + j - 1 \in 1 .. N /\ j <= l - i + j - 1
      BY <2>1, <2>4
    <3>3. v < B[l - i + j - 1] /\ BB[l] = B[l - i + j - 1]
      BY <1>10, <1>13, <2>4, <3>2
    <3> QED BY <1>6, <1>9, <3>1, <3>2, <3>3, SMTT(40)
  <2>5. CASE i < l /\ k = i
    <3>1. l - i + j - 1 \in 1 .. N /\ j <= l - i + j - 1
      BY <2>1, <2>5
    <3> QED BY <1>10, <1>12, <1>13, <2>5, <3>1
  <2>6. CASE i < k
    <3>1. k - i + j - 1 \in 1 .. N /\ l - i + j - 1 \in 1 .. N
      BY <1>14, <2>1, <2>6
    <3>2. k - i + j - 1 < l - i + j - 1
      BY <1>14, <2>1
    <3>3. EE[k] = E[k - i + j - 1] /\ BB[l] = B[l - i + j - 1]
      BY <1>13, <1>14, <2>1, <2>6
    <3> QED BY <1>10, <3>1, <3>2, <3>3
  <2> QED BY <1>14, <2>1, <2>2, <2>3, <2>4, <2>5, <2>6
<1>15. \A k, l \in 1 .. M : k < l => ChunkEnd(t[k]) < t[l].base
  BY <1>14
<1>16. \A k \in 1 .. M : Inside(t[k])
  <2> SUFFICES ASSUME NEW k \in 1 .. M PROVE Inside(t[k])
    OBVIOUS
  <2>1. CASE k < i
    <3>1. k \in 1 .. N /\ t[k] = s[k]
      BY <1>1, <1>3, <2>1
    <3> QED BY <3>1
  <2>2. CASE k = i
    BY <1>3, <2>2
  <2>3. CASE i < k
    <3>1. k - i + j - 1 \in 1 .. N /\ t[k] = s[k - i + j - 1]
      BY <1>1, <1>3, <2>3
    <3> QED BY <3>1
  <2> QED BY <2>1, <2>2, <2>3
<1> QED BY <1>2, <1>15, <1>16

\* Ranges of Nat that lie apart have no address in common, and the other way round.
LEMMA ApartHolds ==
  ASSUME NEW c, NEW d, c.base \in Nat, c.len \in Nat, d.base \in Nat, d.len \in Nat,
         c.len > 0, d.len > 0
  PROVE  Apart(c, d) <=> ~\E x \in Nat : Holds(c, x) /\ Holds(d, x)
<1>1. c.base + c.len \in Nat /\ d.base + d.len \in Nat
      /\ c.base < c.base + c.len /\ d.base < d.base + d.len
  OBVIOUS
<1>2. ASSUME Apart(c, d), NEW x \in Nat, Holds(c, x), Holds(d, x) PROVE FALSE
  BY <1>1, <1>2 DEF Apart, Holds, ChunkEnd
<1>3. ASSUME ~\E x \in Nat : Holds(c, x) /\ Holds(d, x) PROVE Apart(c, d)
  <2>1. ~(Holds(c, d.base) /\ Holds(d, d.base)) /\ ~(Holds(c, c.base) /\ Holds(d, c.base))
    BY <1>3
  <2> QED BY <1>1, <2>1 DEF Apart, Holds, ChunkEnd
<1> QED BY <1>2, <1>3

\* What HeapInv says about the parts of the heap, in the form the proofs use.
LEMMA Parts ==
  ASSUME HeapInv
  PROVE  /\ free_list \in Seq(Chunks) /\ Len(free_list) \in Nat
         /\ \A k \in 1 .. Len(free_list) :
              /\ free_list[k] \in Chunks /\ Inside(free_list[k])
              /\ free_list[k].base \in Nat /\ free_list[k].len \in Nat
              /\ free_list[k].len > 0
              /\ ChunkEnd(free_list[k]) \in Nat
              /\ free_list[k].base < ChunkEnd(free_list[k])
         /\ \A k, l \in 1 .. Len(free_list) :
              k < l => ChunkEnd(free_list[k]) < free_list[l].base
         /\ \A a \in allocs :
              /\ a \in Allocs /\ Inside(a) /\ a.base \in Nat /\ a.len \in Nat
              /\ a.len > 0 /\ ChunkEnd(a) \in Nat /\ a.base < ChunkEnd(a)
              /\ a.ptr \in Nat /\ a.request \in Nat
         /\ HEAP_END \in Nat
<1>1. /\ free_list \in Seq(Chunks) /\ Len(free_list) \in Nat
      /\ \A k \in 1 .. Len(free_list) : free_list[k] \in Chunks /\ Inside(free_list[k])
  BY DEF HeapInv, HeapTypeOK, FreeListMerged
<1>2. \A a \in allocs : a \in Allocs /\ Inside(a)
  BY DEF HeapInv, HeapTypeOK, AllocsApart
<1>3. \A c \in Chunks : Inside(c) =>
        /\ c.base \in Nat /\ c.len \in Nat /\ c.len > 0
        /\ ChunkEnd(c) \in Nat /\ c.base < ChunkEnd(c)
  BY HeapAssumption DEF Chunks, Inside, ChunkEnd
<1>4. \A a \in Allocs : Inside(a) =>
        /\ a.base \in Nat /\ a.len \in Nat /\ a.len > 0 /\ ChunkEnd(a) \in Nat
        /\ a.base < ChunkEnd(a) /\ a.ptr \in Nat /\ a.request \in Nat
  BY HeapAssumption DEF Allocs, Inside, ChunkEnd
<1>5. \A k, l \in 1 .. Len(free_list) :
        k < l => ChunkEnd(free_list[k]) < free_list[l].base
  BY DEF HeapInv, FreeListMerged
<1>6. HEAP_END \in Nat
  BY HeapAssumption DEF HEAP_END
<1>7. \A k \in 1 .. Len(free_list) :
              /\ free_list[k] \in Chunks /\ Inside(free_list[k])
              /\ free_list[k].base \in Nat /\ free_list[k].len \in Nat
              /\ free_list[k].len > 0
              /\ ChunkEnd(free_list[k]) \in Nat
              /\ free_list[k].base < ChunkEnd(free_list[k])
  BY <1>1, <1>3
<1>8. \A a \in allocs :
              /\ a \in Allocs /\ Inside(a) /\ a.base \in Nat /\ a.len \in Nat
              /\ a.len > 0 /\ ChunkEnd(a) \in Nat /\ a.base < ChunkEnd(a)
              /\ a.ptr \in Nat /\ a.request \in Nat
  BY <1>2, <1>4
<1> QED BY <1>1, <1>5, <1>6, <1>7, <1>8, Zenon

\* The chunks from i to j - 1 have been replaced by e, which has their bytes and
\* those of a, and touches none of the others.
FreedAt(a, i, j, e) ==
  /\ free_list' = Splice(free_list, i, e, j)
  /\ Inside(e) /\ e.base <= a.base /\ ChunkEnd(a) <= ChunkEnd(e)
  /\ \A k \in 1 .. Len(free_list) : k < i => ChunkEnd(free_list[k]) < e.base
  /\ \A k \in 1 .. Len(free_list) : j <= k => ChunkEnd(e) < free_list[k].base
  /\ \A k \in 1 .. Len(free_list) : i <= k /\ k < j =>
       e.base <= free_list[k].base /\ ChunkEnd(free_list[k]) <= ChunkEnd(e)
  /\ \A x \in Nat : Holds(e, x) =>
       Holds(a, x) \/ \E k \in 1 .. Len(free_list) : Holds(free_list[k], x)

\* heap_insert_free_chunk() finds the place and merges.
LEMMA FreedChunk ==
  ASSUME HeapInv, NEW a \in allocs,
         heap_insert_free_chunk([base |-> a.base, len |-> a.len])
  PROVE  \E i \in 1 .. Len(free_list) + 1 : \E j \in i .. Len(free_list) + 1 :
         \E e \in Chunks : FreedAt(a, i, j, e)
<1> DEFINE N == Len(free_list)
           B == [k \in 1 .. N |-> free_list[k].base]
           E == [k \in 1 .. N |-> ChunkEnd(free_list[k])]
           p == a.base
           q == ChunkEnd(a)
           chunk == [base |-> a.base, len |-> a.len]
<1>1. p \in Nat /\ q \in Nat /\ p < q /\ N \in Nat
  BY Parts
<1>2. B \in [1 .. N -> Nat] /\ E \in [1 .. N -> Nat]
  BY Parts
<1>3. \A k \in 1 .. N : B[k] < E[k]
  BY Parts
<1>4. \A k, l \in 1 .. N : k < l => E[k] < B[l]
  BY Parts
<1>5. \A k \in 1 .. N : q <= B[k] \/ E[k] <= p
  <2>1. \A k \in 1 .. N : Apart(a, free_list[k])
    BY DEF HeapInv, AllocsApart
  <2> QED BY <2>1 DEF Apart
<1>6. chunk.base = p /\ ChunkEnd(chunk) = q
  BY DEF ChunkEnd
<1> DEFINE last(n) == n > 1 /\ ChunkEnd(free_list[n - 1]) = chunk.base
           next(n) == n <= Len(free_list) /\ ChunkEnd(chunk) = free_list[n].base
           base(n) == IF last(n) THEN free_list[n - 1].base ELSE chunk.base
           end(n)  == IF next(n) THEN ChunkEnd(free_list[n]) ELSE ChunkEnd(chunk)
<1>7. PICK n \in 1 .. N + 1 :
        /\ \A k \in 1 .. n - 1 : ~(chunk.base < free_list[k].base)
        /\ n <= N => chunk.base < free_list[n].base
        /\ free_list' = Splice(free_list, IF last(n) THEN n - 1 ELSE n,
                               [base |-> base(n), len |-> end(n) - base(n)],
                               IF next(n) THEN n + 1 ELSE n)
  BY Zenon DEF heap_insert_free_chunk
<1> DEFINE i == IF n > 1 /\ E[n - 1] = p THEN n - 1 ELSE n
           u == IF n > 1 /\ E[n - 1] = p THEN B[n - 1] ELSE p
           j == IF n <= N /\ q = B[n] THEN n + 1 ELSE n
           v == IF n <= N /\ q = B[n] THEN E[n] ELSE q
           e == [base |-> u, len |-> v - u]
<1>8. /\ \A k \in 1 .. n - 1 : ~(p < B[k])
      /\ n <= N => p < B[n]
  BY <1>1, <1>6, <1>7
<1>9. free_list' = Splice(free_list, i, e, j)
  <2>1. last(n) <=> (n > 1 /\ E[n - 1] = p)
    BY <1>1, <1>6
  <2>2. next(n) <=> (n <= N /\ q = B[n])
    BY <1>1, <1>6
  <2>3. base(n) = u
    BY <1>1, <1>6, <2>1
  <2>4. end(n) = v
    BY <1>1, <1>6, <2>2
  <2>5. (IF last(n) THEN n - 1 ELSE n) = i
    BY <2>1
  <2>6. (IF next(n) THEN n + 1 ELSE n) = j
    BY <2>2
  <2> HIDE DEF last, next, base, end, i, j, u, v
  <2> QED BY <1>7, <2>3, <2>4, <2>5, <2>6
<1> HIDE DEF last, next, base, end
<1>10. /\ \A k \in 1 .. n - 1 : E[k] <= p
       /\ \A k \in n .. N : q <= B[k]
       /\ \A k \in 1 .. n - 2 : E[k] < B[n - 1]
       /\ \A k \in n + 1 .. N : E[n] < B[k]
       /\ n > 1 /\ E[n - 1] # p => \A k \in 1 .. n - 1 : E[k] < p
       /\ n <= N /\ q # B[n] => \A k \in n .. N : q < B[k]
  <2> HIDE DEF N, B, E, p, q
  <2> QED BY <1>1, <1>2, <1>3, <1>4, <1>5, <1>7, <1>8, Neighbours
<1>11. /\ i \in 1 .. n /\ n <= i + 1 /\ u \in Nat /\ u <= p
       /\ \A k \in 1 .. N : k < i => E[k] < u
       /\ \A k \in 1 .. N : i <= k /\ k < n => u <= B[k] /\ E[k] <= p
       /\ \A x \in Nat : u <= x /\ x < p => i \in 1 .. N /\ i < n /\ B[i] <= x /\ x < E[i]
  <2> HIDE DEF N, B, E, p, q
  <2> QED BY <1>1, <1>2, <1>3, <1>7, <1>10, MergeBefore
<1>12. /\ j \in n .. N + 1 /\ j <= n + 1 /\ v \in Nat /\ q <= v
       /\ \A k \in 1 .. N : j <= k => v < B[k]
       /\ \A k \in 1 .. N : n <= k /\ k < j => q <= B[k] /\ E[k] <= v
       /\ \A x \in Nat : q <= x /\ x < v => n \in 1 .. N /\ n < j /\ B[n] <= x /\ x < E[n]
  <2> HIDE DEF N, B, E, p, q
  <2> QED BY <1>1, <1>2, <1>3, <1>7, <1>10, MergeBehind
<1> HIDE DEF i, j, u, v
<1>13. i \in 1 .. N + 1 /\ j \in i .. N + 1
  BY <1>1, <1>7, <1>11, <1>12
<1>14. e \in Chunks /\ e.base = u /\ ChunkEnd(e) = v
  BY <1>1, <1>11, <1>12 DEF Chunks, ChunkEnd
<1> HIDE DEF e
<1>15. Inside(e)
  <2>1. HEAP_START <= u
    <3>1. CASE u = p
      BY <3>1, Parts DEF Inside
    <3>2. CASE n - 1 \in 1 .. N /\ u = free_list[n - 1].base
      BY <3>2, Parts DEF Inside
    <3> QED BY <1>1, <1>7, <3>1, <3>2 DEF u
  <2>2. v <= HEAP_END
    <3>1. CASE v = q
      BY <3>1, Parts DEF Inside
    <3>2. CASE n \in 1 .. N /\ v = ChunkEnd(free_list[n])
      BY <3>2, Parts DEF Inside
    <3> QED BY <1>1, <1>7, <3>1, <3>2 DEF v
  <2>3. CHUNK <= q - p
    BY Parts DEF Inside, ChunkEnd
  <2>4. e.len = v - u
    BY DEF e
  <2>5. CHUNK <= v - u
    BY <1>1, <1>11, <1>12, <2>3, HeapAssumption
  <2> QED BY <1>14, <2>1, <2>2, <2>4, <2>5 DEF Inside
<1>16. \A k \in 1 .. N : i <= k /\ k < j => u <= B[k] /\ E[k] <= v
  <2> SUFFICES ASSUME NEW k \in 1 .. N, i <= k, k < j
               PROVE  u <= B[k] /\ E[k] <= v
    OBVIOUS
  <2> HIDE DEF N, B, E, p, q
  <2>1. CASE k < n
    BY <1>1, <1>2, <1>3, <1>11, <1>12, <2>1
  <2>2. CASE ~(k < n)
    BY <1>1, <1>2, <1>3, <1>7, <1>11, <1>12, <2>2
  <2> QED BY <2>1, <2>2
<1>17. ASSUME NEW x \in Nat, Holds(e, x)
       PROVE  Holds(a, x) \/ \E k \in 1 .. N : Holds(free_list[k], x)
  <2>1. u <= x /\ x < v
    BY <1>14, <1>17 DEF Holds
  <2>2. CASE x < p
    <3>1. i \in 1 .. N /\ B[i] <= x /\ x < E[i]
      BY <1>11, <2>1, <2>2
    <3> QED BY <3>1 DEF Holds
  <2>3. CASE q <= x
    <3>1. n \in 1 .. N /\ B[n] <= x /\ x < E[n]
      BY <1>12, <2>1, <2>3
    <3> QED BY <3>1 DEF Holds
  <2>4. CASE p <= x /\ x < q
    BY <2>4 DEF Holds
  <2> QED BY <1>1, <2>2, <2>3, <2>4
<1>18. /\ \A k \in 1 .. N : k < i => ChunkEnd(free_list[k]) < e.base
       /\ \A k \in 1 .. N : j <= k => ChunkEnd(e) < free_list[k].base
       /\ \A k \in 1 .. N : i <= k /\ k < j =>
            e.base <= free_list[k].base /\ ChunkEnd(free_list[k]) <= ChunkEnd(e)
  BY <1>11, <1>12, <1>14, <1>16
<1>19. e.base <= a.base /\ ChunkEnd(a) <= ChunkEnd(e)
  BY <1>11, <1>12, <1>14
<1>20. FreedAt(a, i, j, e)
  BY <1>9, <1>15, <1>17, <1>18, <1>19 DEF FreedAt
<1> QED BY <1>13, <1>14, <1>20

\* heap_free() keeps the heap invariant.
LEMMA FreeStep ==
  ASSUME HeapInv, NEW a \in allocs, heap_free(a)
  PROVE  HeapInv'
<1> DEFINE N == Len(free_list)
           t == free_list'
<1>1. PICK i \in 1 .. N + 1 : \E j \in i .. N + 1 : \E e \in Chunks : FreedAt(a, i, j, e)
  BY FreedChunk DEF heap_free
<1>2. PICK j \in i .. N + 1, e \in Chunks : FreedAt(a, i, j, e)
  BY <1>1
<1>3. /\ free_list' = Splice(free_list, i, e, j)
      /\ Inside(e) /\ e.base <= a.base /\ ChunkEnd(a) <= ChunkEnd(e)
      /\ \A k \in 1 .. N : k < i => ChunkEnd(free_list[k]) < e.base
      /\ \A k \in 1 .. N : j <= k => ChunkEnd(e) < free_list[k].base
      /\ \A k \in 1 .. N : i <= k /\ k < j =>
           e.base <= free_list[k].base /\ ChunkEnd(free_list[k]) <= ChunkEnd(e)
      /\ \A x \in Nat : Holds(e, x) =>
           Holds(a, x) \/ \E k \in 1 .. N : Holds(free_list[k], x)
  BY <1>2 DEF FreedAt
<1>4. allocs' = allocs \ {a} /\ doomed' = doomed \ {a}
  BY DEF heap_free
<1>5. free_list \in Seq(Chunks) /\ N \in Nat
  BY Parts
<1>6. /\ \A k \in 1 .. Len(t) : Inside(t[k])
      /\ \A k, l \in 1 .. Len(t) : k < l => ChunkEnd(t[k]) < t[l].base
      /\ t \in Seq(Chunks) /\ i \in 1 .. Len(t) /\ t[i] = e
      /\ \A k \in 1 .. Len(t) :
           k # i => \E l \in 1 .. N : (l < i \/ j <= l) /\ t[k] = free_list[l]
      /\ \A l \in 1 .. N :
           l < i \/ j <= l => \E k \in 1 .. Len(t) : t[k] = free_list[l]
  <2>1. /\ \A k \in 1 .. N : Inside(free_list[k])
        /\ \A k, l \in 1 .. N : k < l => ChunkEnd(free_list[k]) < free_list[l].base
    BY Parts
  <2>2. /\ \A k \in 1 .. Len(t) : Inside(t[k])
        /\ \A k, l \in 1 .. Len(t) : k < l => ChunkEnd(t[k]) < t[l].base
    BY <1>3, <1>5, <2>1, ReplacingChunks
  <2>3. t \in Seq(Chunks)
    <3>1. Splice(free_list, i, e, j) \in Seq(Chunks)
      BY <1>5, SpliceFacts
    <3> QED BY <1>3, <3>1
  <2>6. i \in 1 .. Len(t)
    BY <1>3, <1>5, SpliceElements
  <2>7. t[i] = e
    BY <1>3, <1>5, SpliceElements
  <2>4. \A k \in 1 .. Len(t) :
           k # i => \E l \in 1 .. N : (l < i \/ j <= l) /\ t[k] = free_list[l]
    <3> SUFFICES ASSUME NEW k \in 1 .. Len(t), k # i
                 PROVE  \E l \in 1 .. N : (l < i \/ j <= l) /\ t[k] = free_list[l]
      OBVIOUS
    <3>1. k \in 1 .. Len(Splice(free_list, i, e, j))
      BY <1>3
    <3>2. \E l \in 1 .. N : /\ l < i \/ j <= l
                            /\ Splice(free_list, i, e, j)[k] = free_list[l]
      BY <1>5, <3>1, SpliceOld
    <3> QED BY <1>3, <3>2
  <2>5. \A l \in 1 .. N :
           l < i \/ j <= l => \E k \in 1 .. Len(t) : t[k] = free_list[l]
    <3> SUFFICES ASSUME NEW l \in 1 .. N, l < i \/ j <= l
                 PROVE  \E k \in 1 .. Len(t) : t[k] = free_list[l]
      OBVIOUS
    <3>1. \E k \in 1 .. Len(Splice(free_list, i, e, j)) :
            Splice(free_list, i, e, j)[k] = free_list[l]
      BY <1>5, SpliceKeeps
    <3> QED BY <1>3, <3>1
  <2> QED BY <2>2, <2>3, <2>4, <2>5, <2>6, <2>7
<1>7. e.base \in Nat /\ e.len \in Nat /\ e.len > 0 /\ ChunkEnd(e) \in Nat
  BY <1>3, HeapAssumption DEF Chunks, Inside, ChunkEnd
<1>8. HeapTypeOK'
  BY <1>4, <1>6 DEF HeapInv, HeapTypeOK
<1>9. FreeListMerged'
  BY <1>6 DEF FreeListMerged
<1>10. AllocsApart'
  <2> SUFFICES ASSUME NEW b \in allocs, b # a
               PROVE  /\ Inside(b)
                      /\ \A c \in allocs \ {a, b} : Apart(b, c)
                      /\ \A k \in 1 .. Len(t) : Apart(b, t[k])
    BY <1>4 DEF AllocsApart
  <2>1. /\ Inside(b) /\ \A c \in allocs \ {b} : Apart(b, c)
        /\ \A k \in 1 .. N : Apart(b, free_list[k])
    BY DEF HeapInv, AllocsApart
  <2>2. /\ b.base \in Nat /\ b.len \in Nat /\ b.len > 0
        /\ a.base \in Nat /\ a.len \in Nat /\ a.len > 0
    BY Parts
  <2>3. Apart(b, e)
    <3>1. SUFFICES ASSUME NEW x \in Nat, Holds(b, x), Holds(e, x) PROVE FALSE
      BY <1>7, <2>2, ApartHolds
    <3>2. CASE Holds(a, x)
      <4>1. Apart(b, a)
        BY <2>1
      <4> QED BY <2>2, <3>1, <3>2, <4>1, ApartHolds
    <3>3. CASE \E k \in 1 .. N : Holds(free_list[k], x)
      <4>1. PICK k \in 1 .. N : Holds(free_list[k], x)
        BY <3>3
      <4>2. /\ free_list[k].base \in Nat /\ free_list[k].len \in Nat
            /\ free_list[k].len > 0 /\ Apart(b, free_list[k])
        BY <2>1, Parts
      <4> QED BY <2>2, <3>1, <4>1, <4>2, ApartHolds
    <3> QED BY <1>3, <3>1, <3>2, <3>3
  <2>4. \A k \in 1 .. Len(t) : Apart(b, t[k])
    BY <1>6, <2>1, <2>3
  <2> QED BY <2>1, <2>4
<1>11. NothingLost'
  <2> SUFFICES ASSUME NEW x \in HEAP_START .. HEAP_END - 1
               PROVE  \/ \E b \in allocs \ {a} : Holds(b, x)
                      \/ \E k \in 1 .. Len(t) : Holds(t[k], x)
    BY <1>4 DEF NothingLost
  <2>1. x \in Nat
    BY HeapAssumption, Parts
  <2>2. CASE \E b \in allocs : Holds(b, x)
    <3>1. PICK b \in allocs : Holds(b, x)
      BY <2>2
    <3>2. CASE b = a
      <4>1. Holds(e, x)
        BY <1>3, <1>7, <2>1, <3>1, <3>2, Parts DEF Holds
      <4> QED BY <1>6, <4>1
    <3> QED BY <3>1, <3>2
  <2>3. CASE \E k \in 1 .. N : Holds(free_list[k], x)
    <3>1. PICK l \in 1 .. N : Holds(free_list[l], x)
      BY <2>3
    <3>2. CASE l < i \/ j <= l
      BY <1>6, <3>1, <3>2
    <3>3. CASE i <= l /\ l < j
      <4>1. Holds(e, x)
        BY <1>3, <1>7, <2>1, <3>1, <3>3, Parts, SMTT(40) DEF Holds
      <4> QED BY <1>6, <4>1
    <3> QED BY <1>5, <3>2, <3>3
  <2> QED BY <2>2, <2>3 DEF HeapInv, NothingLost
<1>12. PayloadFits'
  BY <1>4 DEF HeapInv, PayloadFits
<1> QED BY <1>8, <1>9, <1>10, <1>11, <1>12 DEF HeapInv
-----------------------------------------------------------------------------
(* heap_alloc().                                                           *)

\* The free list after the first L bytes of the n-th chunk have been given out.
Carved(n, L) ==
  /\ free_list' \in Seq(Chunks) /\ FreeListMerged'
  /\ \A k \in 1 .. Len(free_list') :
       \/ /\ free_list'[k].base = free_list[n].base + L
          /\ ChunkEnd(free_list'[k]) = ChunkEnd(free_list[n])
       \/ \E l \in 1 .. Len(free_list) \ {n} : free_list'[k] = free_list[l]
  /\ \A l \in 1 .. Len(free_list) \ {n} :
       \E k \in 1 .. Len(free_list') : free_list'[k] = free_list[l]
  /\ \/ L = free_list[n].len
     \/ \E k \in 1 .. Len(free_list') :
          /\ free_list'[k].base = free_list[n].base + L
          /\ ChunkEnd(free_list'[k]) = ChunkEnd(free_list[n])

\* The free list without its n-th chunk.
LEMMA RemovedChunk ==
  ASSUME HeapInv, NEW n \in 1 .. Len(free_list), NEW L, L = free_list[n].len,
         free_list' = RemoveIndex(free_list, n)
  PROVE  Carved(n, L)
<1> DEFINE s == free_list
           t == free_list'
           N == Len(free_list)
<1>1. s \in Seq(Chunks) /\ N \in Nat
  BY Parts
<1>2. t \in Seq(Chunks) /\ Len(t) = N - 1
  <2>1. RemoveIndex(s, n) \in Seq(Chunks) /\ Len(RemoveIndex(s, n)) = N - 1
    BY <1>1, RemoveFacts
  <2> QED BY <2>1
<1>3. \A k \in 1 .. N - 1 : t[k] = IF k < n THEN s[k] ELSE s[k + 1]
  BY DEF RemoveIndex
<1>4. ASSUME NEW k \in 1 .. N - 1
      PROVE  \E l \in 1 .. N \ {n} : t[k] = s[l]
  <2>1. CASE k < n
    <3>1. k \in 1 .. N \ {n} /\ t[k] = s[k]
      BY <1>1, <1>3, <2>1
    <3> QED BY <3>1, Zenon
  <2>2. CASE ~(k < n)
    <3>1. k + 1 \in 1 .. N \ {n} /\ t[k] = s[k + 1]
      BY <1>1, <1>3, <2>2
    <3> QED BY <3>1, Zenon
  <2> QED BY <2>1, <2>2
<1>5. ASSUME NEW l \in 1 .. N \ {n}
      PROVE  \E k \in 1 .. N - 1 : t[k] = s[l]
  <2>1. CASE l < n
    <3>1. l \in 1 .. N - 1 /\ t[l] = s[l]
      BY <1>1, <1>3, <2>1
    <3> QED BY <3>1, Zenon
  <2>2. CASE ~(l < n)
    <3>1. l - 1 \in 1 .. N - 1 /\ ~(l - 1 < n) /\ (l - 1) + 1 = l
      BY <1>1, <2>2
    <3>2. t[l - 1] = s[(l - 1) + 1]
      BY <1>3, <3>1
    <3> QED BY <3>1, <3>2, Zenon
  <2> QED BY <2>1, <2>2
<1>6. \A k \in 1 .. N - 1 : Inside(t[k])
  BY <1>4, Parts
<1>7. ASSUME NEW k \in 1 .. N - 1, NEW l \in 1 .. N - 1, k < l
      PROVE  ChunkEnd(t[k]) < t[l].base
  <2>1. k \in 1 .. N /\ k + 1 \in 1 .. N /\ l \in 1 .. N /\ l + 1 \in 1 .. N
    BY <1>1
  <2>2. \A x, y \in 1 .. N : x < y => ChunkEnd(s[x]) < s[y].base
    BY Parts
  <2>3. CASE l < n
    <3>1. t[k] = s[k] /\ t[l] = s[l]
      BY <1>3, <1>7, <2>3
    <3> QED BY <1>7, <2>1, <2>2, <3>1
  <2>4. CASE ~(l < n) /\ k < n
    <3>1. t[k] = s[k] /\ t[l] = s[l + 1]
      BY <1>3, <2>4
    <3>2. k < l + 1
      BY <1>7
    <3> QED BY <2>1, <2>2, <3>1, <3>2
  <2>5. CASE ~(k < n)
    <3>1. t[k] = s[k + 1] /\ t[l] = s[l + 1]
      BY <1>3, <1>7, <2>5
    <3>2. k + 1 < l + 1
      BY <1>7
    <3> QED BY <2>1, <2>2, <3>1, <3>2
  <2> QED BY <2>3, <2>4, <2>5
<1>8. FreeListMerged'
  BY <1>2, <1>6, <1>7 DEF FreeListMerged
<1> QED BY <1>2, <1>4, <1>5, <1>8 DEF Carved

\* The free list with the first want bytes of its n-th chunk cut off.
LEMMA CutChunk ==
  ASSUME HeapInv, NEW n \in 1 .. Len(free_list), NEW want \in Nat,
         free_list[n].len > want + CHUNK,
         NEW e, e = [base |-> free_list[n].base + want, len |-> free_list[n].len - want],
         free_list' = Splice(free_list, n, e, n + 1)
  PROVE  Carved(n, want)
<1> DEFINE s == free_list
           t == free_list'
           N == Len(free_list)
<1>1. s \in Seq(Chunks) /\ N \in Nat
  BY Parts
<1>2. /\ s[n].base \in Nat /\ s[n].len \in Nat /\ ChunkEnd(s[n]) = s[n].base + s[n].len
      /\ HEAP_START <= s[n].base /\ ChunkEnd(s[n]) <= HEAP_END /\ HEAP_END \in Nat
  BY Parts DEF Inside, ChunkEnd
<1>3. e \in Chunks /\ ChunkEnd(e) = ChunkEnd(s[n]) /\ Inside(e) /\ s[n].base <= e.base
  <2>1. e.base = s[n].base + want /\ e.len = s[n].len - want
    OBVIOUS
  <2>2. e.base \in Nat /\ e.len \in Nat /\ CHUNK <= e.len /\ s[n].base <= e.base
    BY <1>2, <2>1, HeapAssumption, SMTT(40)
  <2>3. ChunkEnd(e) = ChunkEnd(s[n])
    BY <1>2, <2>1 DEF ChunkEnd
  <2>4. e \in Chunks
    BY <2>1, <2>2 DEF Chunks
  <2>5. HEAP_START <= e.base
    BY <1>2, <2>2, HeapAssumption, SMTT(40)
  <2> QED BY <1>2, <2>2, <2>3, <2>4, <2>5 DEF Inside
<1>4. n \in 1 .. N + 1 /\ n + 1 \in n .. N + 1
  BY <1>1
<1>5. \A k, l \in 1 .. N : k < l => ChunkEnd(s[k]) < s[l].base
  BY Parts
<1>6. \A k \in 1 .. N : Inside(s[k]) /\ ChunkEnd(s[k]) \in Nat /\ s[k].base \in Nat
  BY Parts
<1>7. \A k \in 1 .. N : k < n => ChunkEnd(s[k]) < e.base
  <2>1. e.base \in Nat
    BY <1>3 DEF Chunks
  <2> QED BY <1>3, <1>5, <1>6, <2>1
<1>8. \A k \in 1 .. N : n + 1 <= k => ChunkEnd(e) < s[k].base
  BY <1>3, <1>5
<1>9. /\ \A k \in 1 .. Len(t) : Inside(t[k])
      /\ \A k, l \in 1 .. Len(t) : k < l => ChunkEnd(t[k]) < t[l].base
  <2>1. t = Splice(s, n, e, n + 1)
    OBVIOUS
  <2> QED BY <1>1, <1>3, <1>4, <1>5, <1>6, <1>7, <1>8, <2>1, ReplacingChunks
<1>10. t \in Seq(Chunks) /\ n \in 1 .. Len(t) /\ t[n] = e
  <2>1. Splice(s, n, e, n + 1) \in Seq(Chunks)
    BY <1>1, <1>3, <1>4, SpliceFacts
  <2>2. n \in 1 .. Len(t) /\ t[n] = e
    BY <1>1, <1>3, <1>4, SpliceElements
  <2> QED BY <2>1, <2>2
<1>11. ASSUME NEW k \in 1 .. Len(t)
       PROVE  t[k] = e \/ \E l \in 1 .. N \ {n} : t[k] = s[l]
  <2>1. CASE k = n
    BY <1>10, <2>1
  <2>2. CASE k # n
    <3>1. \E l \in 1 .. N : (l < n \/ n + 1 <= l) /\ Splice(s, n, e, n + 1)[k] = s[l]
      BY <1>1, <1>3, <1>4, <2>2, SpliceOld
    <3> QED BY <3>1
  <2> QED BY <2>1, <2>2
<1>12. ASSUME NEW l \in 1 .. N \ {n}
       PROVE  \E k \in 1 .. Len(t) : t[k] = s[l]
  <2>1. l < n \/ n + 1 <= l
    BY <1>1
  <2>2. l \in 1 .. N
    OBVIOUS
  <2>3. \E k \in 1 .. Len(Splice(s, n, e, n + 1)) : Splice(s, n, e, n + 1)[k] = s[l]
    BY <1>1, <1>3, <1>4, <2>1, <2>2, SpliceKeeps
  <2> QED BY <2>3
<1>13. FreeListMerged'
  BY <1>9 DEF FreeListMerged
<1>14. e.base = s[n].base + want /\ ChunkEnd(e) = ChunkEnd(s[n])
  BY <1>3
<1>15. \A k \in 1 .. Len(t) :
         \/ t[k].base = s[n].base + want /\ ChunkEnd(t[k]) = ChunkEnd(s[n])
         \/ \E l \in 1 .. N \ {n} : t[k] = s[l]
  BY <1>11, <1>14
<1>16. \E k \in 1 .. Len(t) : t[k].base = s[n].base + want /\ ChunkEnd(t[k]) = ChunkEnd(s[n])
  BY <1>10, <1>14
<1> QED BY <1>10, <1>12, <1>13, <1>15, <1>16 DEF Carved

\* Carve() gives out the bytes wanted, or the whole chunk.
LEMMA CarvedList ==
  ASSUME HeapInv, NEW n \in 1 .. Len(free_list), NEW want \in Nat,
         want <= free_list[n].len,
         NEW size, NEW alignment, Carve(n, want, size, alignment)
  PROVE  \E L \in Nat :
           /\ want <= L /\ L <= free_list[n].len /\ Carved(n, L)
           /\ allocs' = allocs \cup
                {[base |-> free_list[n].base, len |-> L,
                  ptr |-> AllocPtr(free_list[n].base, alignment),
                  request |-> size, align |-> alignment]}
<1>1. free_list[n].len \in Nat
  BY Parts
<1>2. CASE free_list[n].len > want + CHUNK
  <2> DEFINE e == [base |-> free_list[n].base + want, len |-> free_list[n].len - want]
  <2>1. free_list' = Splice(free_list, n, e, n + 1)
    BY <1>2 DEF Carve
  <2>2. allocs' = allocs \cup
                {[base |-> free_list[n].base, len |-> want,
                  ptr |-> AllocPtr(free_list[n].base, alignment),
                  request |-> size, align |-> alignment]}
    BY <1>2 DEF Carve
  <2>3. e = [base |-> free_list[n].base + want, len |-> free_list[n].len - want]
    OBVIOUS
  <2> HIDE DEF e
  <2>4. Carved(n, want)
    BY <1>2, <2>1, <2>3, CutChunk
  <2> QED BY <2>2, <2>4
<1>3. CASE ~(free_list[n].len > want + CHUNK)
  <2> DEFINE L == free_list[n].len
  <2>1. free_list' = RemoveIndex(free_list, n)
    BY <1>3 DEF Carve
  <2>2. allocs' = allocs \cup
                {[base |-> free_list[n].base, len |-> L,
                  ptr |-> AllocPtr(free_list[n].base, alignment),
                  request |-> size, align |-> alignment]}
    BY <1>3 DEF Carve
  <2>3. Carved(n, L)
    BY <2>1, RemovedChunk
  <2>4. L \in Nat /\ want <= L /\ L <= L
    BY <1>1
  <2> HIDE DEF L
  <2>5. L <= free_list[n].len
    BY <2>4 DEF L
  <2> QED BY <2>2, <2>3, <2>4, <2>5
<1> QED BY <1>2, <1>3

\* heap_alloc() keeps the heap invariant, but for the type of doomed, and the
\* allocations that there were.
LEMMA AllocStep ==
  ASSUME HeapInv, NEW size \in Nat, NEW alignment \in Nat, heap_alloc(size, alignment)
  PROVE  /\ free_list' \in Seq(Chunks) /\ allocs' \subseteq Allocs /\ allocs \subseteq allocs'
         /\ FreeListMerged' /\ AllocsApart' /\ NothingLost' /\ PayloadFits'
<1> DEFINE want == AllocSize(size, alignment)
           N == Len(free_list)
           t == free_list'
<1>1. PICK n \in 1 .. N : free_list[n].len >= want /\ Carve(n, want, size, alignment)
  BY DEF heap_alloc
<1> DEFINE c == free_list[n]
           p == AllocPtr(c.base, alignment)
<1>2. /\ c.base \in Nat /\ c.len \in Nat /\ Inside(c) /\ ChunkEnd(c) = c.base + c.len
      /\ HEAP_START <= c.base /\ ChunkEnd(c) <= HEAP_END /\ HEAP_END \in Nat
  BY Parts DEF Inside, ChunkEnd
<1>3. /\ want \in Nat /\ CHUNK <= want /\ p \in Nat /\ c.base + HEADER <= p
      /\ p + size <= c.base + want
  BY <1>2, AllocSizeFacts
<1> HIDE DEF want, p
<1>4. PICK L \in Nat :
           /\ want <= L /\ L <= free_list[n].len /\ Carved(n, L)
           /\ allocs' = allocs \cup
                {[base |-> free_list[n].base, len |-> L,
                  ptr |-> AllocPtr(free_list[n].base, alignment),
                  request |-> size, align |-> alignment]}
  <2>1. want <= free_list[n].len
    BY <1>1, <1>2, <1>3
  <2> QED BY <1>1, <1>3, <2>1, CarvedList
<1> DEFINE a == [base |-> c.base, len |-> L, ptr |-> p,
                 request |-> size, align |-> alignment]
<1>5. allocs' = allocs \cup {a}
  BY <1>4 DEF p
<1>6. /\ a \in Allocs /\ a.base = c.base /\ a.len = L /\ a.ptr = p /\ a.request = size
      /\ ChunkEnd(a) = c.base + L
  BY <1>2, <1>3, <1>4 DEF Allocs, ChunkEnd
<1> HIDE DEF a
<1>7. L \in Nat /\ L > 0 /\ CHUNK <= L /\ c.base + L <= ChunkEnd(c)
  <2>1. want <= L /\ L <= c.len
    BY <1>4
  <2>2. CHUNK \in Nat \ {0}
    BY HeapAssumption
  <2> QED BY <1>2, <1>3, <2>1, <2>2
<1>8. Inside(a)
  BY <1>2, <1>6, <1>7 DEF Inside
<1>9. PayloadFits'
  <2>1. a.base + HEADER <= a.ptr /\ a.ptr + a.request <= ChunkEnd(a)
    BY <1>2, <1>3, <1>4, <1>6
  <2> QED BY <1>5, <2>1 DEF HeapInv, PayloadFits
<1>10. \A b \in allocs :
         /\ Inside(b) /\ b.base \in Nat /\ ChunkEnd(b) \in Nat /\ b.base < ChunkEnd(b)
         /\ \A d \in allocs \ {b} : Apart(b, d)
         /\ \A k \in 1 .. N : Apart(b, free_list[k])
  BY Parts DEF HeapInv, AllocsApart
<1>11. \A b \in allocs : Apart(b, a) /\ Apart(a, b)
  <2> SUFFICES ASSUME NEW b \in allocs PROVE Apart(b, a) /\ Apart(a, b)
    OBVIOUS
  <2>1. ChunkEnd(b) <= c.base \/ ChunkEnd(c) <= b.base
    BY <1>10 DEF Apart
  <2> QED BY <1>2, <1>6, <1>7, <1>10, <2>1 DEF Apart
<1>12. ASSUME NEW k \in 1 .. Len(t)
       PROVE  Apart(a, t[k]) /\ \A b \in allocs : Apart(b, t[k])
  <2>1. CASE t[k].base = c.base + L /\ ChunkEnd(t[k]) = ChunkEnd(c)
    <3>1. Apart(a, t[k])
      BY <1>2, <1>6, <1>7, <2>1 DEF Apart
    <3>2. ASSUME NEW b \in allocs PROVE Apart(b, t[k])
      <4>1. ChunkEnd(b) <= c.base \/ ChunkEnd(c) <= b.base
        BY <1>10 DEF Apart
      <4> QED BY <1>2, <1>7, <1>10, <2>1, <4>1 DEF Apart
    <3> QED BY <3>1, <3>2
  <2>2. CASE \E l \in 1 .. N \ {n} : t[k] = free_list[l]
    <3>1. PICK l \in 1 .. N \ {n} : t[k] = free_list[l]
      BY <2>2
    <3>2. l \in 1 .. N /\ (l < n \/ n < l)
      BY Parts
    <3>3. /\ l < n => ChunkEnd(free_list[l]) < c.base
          /\ n < l => ChunkEnd(c) < free_list[l].base
          /\ free_list[l].base \in Nat /\ ChunkEnd(free_list[l]) \in Nat
      BY <3>2, Parts
    <3>4. Apart(a, free_list[l])
      BY <1>2, <1>6, <1>7, <3>2, <3>3, SMTT(40) DEF Apart
    <3> QED BY <1>10, <3>1, <3>2, <3>4
  <2> QED BY <1>4, <2>1, <2>2 DEF Carved
<1>13. AllocsApart'
  BY <1>5, <1>8, <1>10, <1>11, <1>12 DEF AllocsApart
<1>14. NothingLost'
  <2> SUFFICES ASSUME NEW x \in HEAP_START .. HEAP_END - 1
               PROVE  \/ \E b \in allocs' : Holds(b, x)
                      \/ \E k \in 1 .. Len(t) : Holds(t[k], x)
    BY DEF NothingLost
  <2>1. x \in Nat
    BY <1>2, HeapAssumption
  <2>2. CASE \E b \in allocs : Holds(b, x)
    BY <1>5, <2>2
  <2>3. CASE \E k \in 1 .. N : Holds(free_list[k], x)
    <3>1. PICK l \in 1 .. N : Holds(free_list[l], x)
      BY <2>3
    <3>2. CASE l # n
      BY <1>4, <3>1, <3>2 DEF Carved
    <3>3. CASE l = n /\ x < c.base + L
      <4>1. Holds(a, x)
        BY <1>6, <3>1, <3>3 DEF Holds
      <4> QED BY <1>5, <4>1
    <3>4. CASE l = n /\ c.base + L <= x
      <4>1. x < ChunkEnd(c)
        BY <3>1, <3>4 DEF Holds
      <4>2. L # c.len
        BY <1>2, <1>7, <2>1, <3>4, <4>1
      <4>3. PICK k \in 1 .. Len(t) : t[k].base = c.base + L /\ ChunkEnd(t[k]) = ChunkEnd(c)
        BY <1>4, <4>2 DEF Carved
      <4>4. Holds(t[k], x)
        BY <3>4, <4>1, <4>3 DEF Holds
      <4> QED BY <4>4
    <3> QED BY <1>2, <1>7, <2>1, <3>2, <3>3, <3>4
  <2> QED BY <2>2, <2>3 DEF HeapInv, NothingLost
<1>15. allocs' \subseteq Allocs
  BY <1>5, <1>6 DEF HeapInv, HeapTypeOK
<1> QED BY <1>4, <1>5, <1>9, <1>13, <1>14, <1>15 DEF Carved

-----------------------------------------------------------------------------
(* The theorems.                                                           *)

\* In every state the heap's bytes are divided, without overlap or loss, into
\* what has been given out and a free list that is ordered and merged, and every
\* payload has the room that was asked for (heap_alloc, heap_free, heap_realloc).
THEOREM HeapInvariant == HeapSpec => []HeapInv
<1>1. heap_init => HeapInv
  <2> SUFFICES ASSUME heap_init PROVE HeapInv
    OBVIOUS
  <2> DEFINE c == [base |-> HEAP_START, len |-> HEAP_LEN]
  <2>1. free_list = <<c>> /\ allocs = {} /\ doomed = {}
    BY DEF heap_init
  <2>2. c \in Chunks /\ Inside(c) /\ c.base = HEAP_START /\ ChunkEnd(c) = HEAP_END
    BY HeapAssumption DEF Chunks, Inside, ChunkEnd, HEAP_END
  <2> HIDE DEF c
  <2>3. free_list \in Seq(Chunks) /\ Len(free_list) = 1 /\ free_list[1] = c
    BY <2>1, <2>2
  <2>4. \A i \in 1 .. Len(free_list) : i = 1
    BY <2>3
  <2>5. HeapTypeOK /\ AllocsApart /\ PayloadFits
    BY <2>1, <2>3 DEF HeapTypeOK, AllocsApart, PayloadFits
  <2>6. FreeListMerged
    BY <2>2, <2>3, <2>4 DEF FreeListMerged
  <2>7. NothingLost
    <3>1. \A x \in HEAP_START .. HEAP_END - 1 : Holds(c, x)
      BY <2>2, HeapAssumption DEF Holds, HEAP_END
    <3> QED BY <2>3, <3>1 DEF NothingLost
  <2> QED BY <2>5, <2>6, <2>7 DEF HeapInv
<1>2. HeapInv /\ [HeapNext]_heapVars => HeapInv'
  <2> SUFFICES ASSUME HeapInv, [HeapNext]_heapVars PROVE HeapInv'
    OBVIOUS
  <2>1. CASE Allocate
    <3>1. PICK size \in Sizes, alignment \in Alignments : heap_alloc(size, alignment)
      BY <2>1 DEF Allocate
    <3>2. size \in Nat /\ alignment \in Nat
      BY HeapAssumption
    <3>3. /\ free_list' \in Seq(Chunks) /\ allocs' \subseteq Allocs /\ allocs \subseteq allocs'
          /\ FreeListMerged' /\ AllocsApart' /\ NothingLost' /\ PayloadFits'
      BY <3>1, <3>2, AllocStep
    <3>4. doomed' = doomed /\ doomed \subseteq allocs
      BY <2>1 DEF Allocate, HeapInv, HeapTypeOK
    <3> QED BY <3>3, <3>4 DEF HeapInv, HeapTypeOK
  <2>2. CASE Free
    BY <2>2, FreeStep DEF Free
  <2>3. CASE Reallocate
    <3>1. PICK a \in allocs \ doomed, size \in Sizes \ {0} : heap_realloc(a, size)
      BY <2>3 DEF Reallocate
    <3>2. size \in Nat /\ 0 \in Nat
      BY HeapAssumption
    <3>3. heap_alloc(size, 0) /\ doomed' = doomed \cup {a}
      BY <3>1 DEF heap_realloc
    <3>4. /\ free_list' \in Seq(Chunks) /\ allocs' \subseteq Allocs /\ allocs \subseteq allocs'
          /\ FreeListMerged' /\ AllocsApart' /\ NothingLost' /\ PayloadFits'
      BY <3>2, <3>3, AllocStep
    <3>5. doomed \subseteq allocs
      BY DEF HeapInv, HeapTypeOK
    <3> QED BY <3>1, <3>3, <3>4, <3>5 DEF HeapInv, HeapTypeOK
  <2>4. CASE ReallocFree
    <3>1. PICK a \in doomed : heap_free(a)
      BY <2>4 DEF ReallocFree
    <3>2. a \in allocs
      BY DEF HeapInv, HeapTypeOK
    <3> QED BY <3>1, <3>2, FreeStep
  <2>5. CASE UNCHANGED heapVars
    BY <2>5 DEF heapVars, HeapInv, HeapTypeOK, FreeListMerged, AllocsApart, NothingLost,
                PayloadFits
  <2> QED BY <2>1, <2>2, <2>3, <2>4, <2>5 DEF HeapNext
<1> QED BY <1>1, <1>2, PTL DEF HeapSpec

\* A free chunk reaches as far as the bytes behind it are free: the one that holds
\* x holds everything up to y if nobody has a byte in between.
LEMMA FreeRun ==
  ASSUME HeapInv, NEW x \in HEAP_START .. HEAP_END, NEW y \in HEAP_START .. HEAP_END,
         x < y, Unallocated(x, y)
  PROVE  \E i \in 1 .. Len(free_list) :
           free_list[i].base <= x /\ y <= ChunkEnd(free_list[i])
<1>1. HEAP_START \in Nat /\ HEAP_END \in Nat /\ x \in Nat /\ y \in Nat
  BY Parts, HeapAssumption
<1>2. \A z \in x .. y - 1 : \E i \in 1 .. Len(free_list) : Holds(free_list[i], z)
  <2> SUFFICES ASSUME NEW z \in x .. y - 1
               PROVE  \E i \in 1 .. Len(free_list) : Holds(free_list[i], z)
    OBVIOUS
  <2>1. z \in HEAP_START .. HEAP_END - 1 /\ z \in Nat
    BY <1>1
  <2>2. ~\E a \in allocs : Holds(a, z)
    <3> SUFFICES ASSUME NEW a \in allocs, Holds(a, z) PROVE FALSE
      OBVIOUS
    <3>1. ChunkEnd(a) \in Nat /\ a.base \in Nat
      BY Parts
    <3> QED BY <1>1, <2>1, <3>1 DEF Holds, Unallocated
  <2> QED BY <2>1, <2>2 DEF HeapInv, NothingLost
<1>3. PICK i \in 1 .. Len(free_list) : Holds(free_list[i], x)
  BY <1>1, <1>2
<1>4. free_list[i].base \in Nat /\ ChunkEnd(free_list[i]) \in Nat
  BY Parts
<1>5. y <= ChunkEnd(free_list[i])
  <2> SUFFICES ASSUME ChunkEnd(free_list[i]) < y PROVE FALSE
    BY <1>1, <1>4
  <2> DEFINE e == ChunkEnd(free_list[i])
  <2>1. e \in x .. y - 1
    BY <1>1, <1>3, <1>4 DEF Holds
  <2>2. PICK j \in 1 .. Len(free_list) : Holds(free_list[j], e)
    BY <1>2, <2>1
  <2>3. j # i
    BY <1>4, <2>2 DEF Holds
  <2>4. /\ i < j => e < free_list[j].base
        /\ j < i => ChunkEnd(free_list[j]) < free_list[i].base
        /\ free_list[j].base \in Nat /\ ChunkEnd(free_list[j]) \in Nat
        /\ free_list[i].base < e
    BY Parts
  <2>5. i < j \/ j < i
    BY <2>3, Parts
  <2> QED BY <1>4, <2>2, <2>4, <2>5 DEF Holds
<1> QED BY <1>3, <1>5 DEF Holds

\* The free bytes are never fragmented by bookkeeping: any run of bytes that no
\* allocation holds lies in one chunk of the free list, where the first-fit search
\* of heap_alloc() sees it whole.
THEOREM HolesAreWhole == HeapSpec => []HolesWhole
<1>1. HeapInv => HolesWhole
  BY FreeRun DEF HolesWhole
<1> QED BY <1>1, HeapInvariant, PTL

\* Once everything has been freed, in whatever order and with whatever reallocations
\* in between, heap_insert_free_chunk() has merged the heap back into the one
\* chunk of heap_init().
THEOREM FreedHeapIsInitial == HeapSpec => []AllFreedIsInitial
<1>1. HeapInv => AllFreedIsInitial
  <2> SUFFICES ASSUME HeapInv, allocs = {}
               PROVE  free_list = <<[base |-> HEAP_START, len |-> HEAP_LEN]>>
    BY DEF AllFreedIsInitial
  <2>1. /\ HEAP_START \in HEAP_START .. HEAP_END /\ HEAP_END \in HEAP_START .. HEAP_END
        /\ HEAP_START < HEAP_END /\ HEAP_END = HEAP_START + HEAP_LEN
        /\ HEAP_START \in Nat /\ HEAP_LEN \in Nat
    BY HeapAssumption DEF HEAP_END
  <2>2. Unallocated(HEAP_START, HEAP_END)
    BY DEF Unallocated
  <2>3. PICK i \in 1 .. Len(free_list) :
          free_list[i].base <= HEAP_START /\ HEAP_END <= ChunkEnd(free_list[i])
    BY <2>1, <2>2, FreeRun
  <2>4. \A k \in 1 .. Len(free_list) :
          /\ free_list[k] \in Chunks /\ free_list[k].base \in Nat /\ free_list[k].len \in Nat
          /\ ChunkEnd(free_list[k]) = free_list[k].base + free_list[k].len
          /\ HEAP_START <= free_list[k].base /\ ChunkEnd(free_list[k]) <= HEAP_END
          /\ free_list[k].base < ChunkEnd(free_list[k])
    BY Parts DEF Inside, ChunkEnd
  <2>5. free_list[i].base = HEAP_START /\ free_list[i].len = HEAP_LEN
    BY <2>1, <2>3, <2>4
  <2>6. free_list[i] = [base |-> HEAP_START, len |-> HEAP_LEN]
    BY <2>4, <2>5 DEF Chunks
  <2>7. \A k \in 1 .. Len(free_list) : k = i
    <3> SUFFICES ASSUME NEW k \in 1 .. Len(free_list), k # i PROVE FALSE
      OBVIOUS
    <3>1. /\ k < i => ChunkEnd(free_list[k]) < free_list[i].base
          /\ i < k => ChunkEnd(free_list[i]) < free_list[k].base
      BY Parts
    <3>2. k < i \/ i < k
      BY Parts
    <3>3. /\ HEAP_START <= free_list[k].base /\ ChunkEnd(free_list[k]) <= HEAP_END
          /\ free_list[k].base \in Nat /\ ChunkEnd(free_list[k]) \in Nat
          /\ free_list[k].base < ChunkEnd(free_list[k])
          /\ ChunkEnd(free_list[i]) \in Nat
      BY <2>4, SMTT(40)
    <3> QED BY <2>1, <2>3, <2>5, <3>1, <3>2, <3>3
  <2>8. free_list \in Seq(Chunks) /\ Len(free_list) \in Nat
    BY Parts
  <2>9. Len(free_list) = 1 /\ i = 1
    <3>1. 1 \in 1 .. Len(free_list) /\ Len(free_list) \in 1 .. Len(free_list)
      BY <2>8
    <3>2. 1 = i /\ Len(free_list) = i
      BY <2>7, <3>1
    <3> QED BY <3>2
  <2> QED BY <2>6, <2>8, <2>9
<1> QED BY <1>1, HeapInvariant, PTL

-----------------------------------------------------------------------------
(* Words and alignments.                                                   *)

\* A product is a multiple of its factors.
LEMMA Multiple ==
  ASSUME NEW q \in Int, NEW w \in Nat \ {0}
  PROVE  (w * q) % w = 0
  OBVIOUS

\* A multiple has a quotient.
LEMMA Quotient ==
  ASSUME NEW x \in Nat, NEW w \in Nat \ {0}, x % w = 0
  PROVE  \E q \in Int : x = w * q
<1>1. x \div w \in Int /\ x = w * (x \div w)
  OBVIOUS
<1> QED BY <1>1

\* Sums and differences of multiples are multiples.
LEMMA SumMultiple ==
  ASSUME NEW a \in Nat, NEW b \in Nat, NEW w \in Nat \ {0}, a % w = 0, b % w = 0
  PROVE  (a + b) % w = 0 /\ (a - b) % w = 0
<1>1. PICK p \in Int : a = w * p
  BY Quotient
<1>2. PICK q \in Int : b = w * q
  BY Quotient
<1>3. a + b = w * (p + q) /\ p + q \in Int
  BY <1>1, <1>2
<1>4. a - b = w * (p - q) /\ p - q \in Int
  BY <1>1, <1>2
<1>5. (a + b) % w = 0
  BY <1>3, Multiple
<1>6. (a - b) % w = 0
  BY <1>4, Multiple
<1> QED BY <1>5, <1>6

\* A multiple of a multiple is a multiple.
LEMMA MultipleOfMultiple ==
  ASSUME NEW a \in Nat, NEW w \in Nat \ {0}, NEW v \in Nat \ {0}, a % w = 0, w % v = 0
  PROVE  a % v = 0
<1>1. PICK p \in Int : a = w * p
  BY Quotient
<1>2. PICK q \in Int : w = v * q
  BY Quotient
<1>3. a = v * (q * p) /\ q * p \in Int
  BY <1>1, <1>2
<1> QED BY <1>3, Multiple

\* ROUNDUP() gives a multiple.
LEMMA RoundUpMultiple ==
  ASSUME NEW a \in Nat, NEW w \in Nat \ {0}
  PROVE  ROUNDUP(a, w) % w = 0
<1>1. (a + ((w - (a % w)) % w)) % w = 0
  OBVIOUS
<1> QED BY <1>1 DEF ROUNDUP

\* What heap_alloc() looks for is a number of words, and the address it returns
\* is a multiple of the alignment that was asked for, also when it uses a larger
\* one.
LEMMA AllocAligned ==
  ASSUME NEW size \in Nat, NEW alignment \in Alignments \cup {0}, NEW base \in Nat
  PROVE  /\ AllocSize(size, alignment) % WORD = 0
         /\ alignment > 0 => AllocPtr(base, alignment) % alignment = 0
<1> DEFINE w == IF size + HEADER < CHUNK THEN CHUNK ELSE size + HEADER
           ea == EffectiveAlign(alignment)
<1>0. WORD \in Nat \ {0} /\ MIN_ALIGN \in Nat \ {0} /\ alignment \in Nat /\ base + HEADER \in Nat
  BY HeapAssumption
<1>1. w \in Nat
  BY HeapAssumption
<1>2. ROUNDUP(w, WORD) \in Nat /\ ROUNDUP(w, WORD) % WORD = 0
  BY <1>0, <1>1, RoundUpFacts, RoundUpMultiple
<1>3. ea \in Nat /\ ea % WORD = 0
  <2>1. CASE alignment = 0
    <3>1. ea = 0
      BY <2>1 DEF EffectiveAlign
    <3>2. 0 % WORD = 0
      BY <1>0
    <3> QED BY <3>1, <3>2
  <2>2. CASE alignment # 0 /\ alignment < MIN_ALIGN
    BY <1>0, <2>2, AlignAssumption DEF EffectiveAlign
  <2>3. CASE alignment # 0 /\ ~(alignment < MIN_ALIGN)
    BY <1>0, <2>3, AlignAssumption DEF EffectiveAlign
  <2> QED BY <2>1, <2>2, <2>3
<1>4. AllocSize(size, alignment) = ROUNDUP(w, WORD) + ea
  BY DEF AllocSize
<1>5. AllocSize(size, alignment) % WORD = 0
  <2> HIDE DEF w, ea
  <2> QED BY <1>0, <1>2, <1>3, <1>4, SumMultiple
<1>6. ASSUME alignment > 0 PROVE AllocPtr(base, alignment) % alignment = 0
  <2>1. AllocPtr(base, alignment) = ROUNDUP(base + HEADER, ea)
    BY <1>6 DEF AllocPtr
  <2>2. CASE alignment < MIN_ALIGN
    <3>1. ea = MIN_ALIGN /\ MIN_ALIGN % alignment = 0 /\ alignment \in Nat \ {0}
      BY <1>0, <1>6, <2>2, AlignAssumption DEF EffectiveAlign
    <3>2. ROUNDUP(base + HEADER, MIN_ALIGN) % MIN_ALIGN = 0
          /\ ROUNDUP(base + HEADER, MIN_ALIGN) \in Nat
      BY <1>0, RoundUpFacts, RoundUpMultiple
    <3>3. ROUNDUP(base + HEADER, MIN_ALIGN) % alignment = 0
      BY <1>0, <3>1, <3>2, MultipleOfMultiple
    <3> QED BY <2>1, <3>1, <3>3
  <2>3. CASE ~(alignment < MIN_ALIGN)
    <3>1. ea = alignment /\ alignment \in Nat \ {0}
      BY <1>0, <1>6, <2>3 DEF EffectiveAlign
    <3> QED BY <1>0, <2>1, <3>1, RoundUpMultiple
  <2> QED BY <2>2, <2>3
<1> QED BY <1>5, <1>6

\* A spliced list has lengths in words if the old one and the new chunk have.
LEMMA SpliceWords ==
  ASSUME free_list \in Seq(Chunks), NEW e \in Chunks, e.len % WORD = 0,
         \A k \in 1 .. Len(free_list) : free_list[k].len % WORD = 0,
         NEW i \in 1 .. Len(free_list) + 1, NEW j \in i .. Len(free_list) + 1,
         free_list' = Splice(free_list, i, e, j)
  PROVE  \A k \in 1 .. Len(free_list') : free_list'[k].len % WORD = 0
<1> DEFINE t == Splice(free_list, i, e, j)
<1>1. t[i] = e
  BY SpliceElements
<1> SUFFICES ASSUME NEW k \in 1 .. Len(t) PROVE t[k].len % WORD = 0
  OBVIOUS
<1>2. CASE k = i
  <2> HIDE DEF t
  <2> QED BY <1>1, <1>2
<1>3. CASE k # i
  <2>1. PICK l \in 1 .. Len(free_list) : t[k] = free_list[l]
    BY <1>3, SpliceOld
  <2> HIDE DEF t
  <2> QED BY <2>1
<1> QED BY <1>2, <1>3

\* heap_alloc() leaves whole words free and gives out whole words.
LEMMA AllocKeepsAligned ==
  ASSUME HeapInv, Aligned, NEW size \in Nat, NEW alignment \in Alignments \cup {0},
         heap_alloc(size, alignment)
  PROVE  Aligned'
<1> DEFINE want == AllocSize(size, alignment)
           N == Len(free_list)
<1>0. alignment \in Nat /\ WORD \in Nat \ {0} /\ CHUNK \in Nat
  BY HeapAssumption
<1>1. PICK n \in 1 .. N : free_list[n].len >= want /\ Carve(n, want, size, alignment)
  BY DEF heap_alloc
<1>2. free_list \in Seq(Chunks) /\ N \in Nat
  BY Parts
<1>3. /\ \A k \in 1 .. N : free_list[k].len % WORD = 0
      /\ \A a \in allocs : a.len % WORD = 0 /\ (a.align > 0 => a.ptr % a.align = 0)
  BY DEF Aligned
<1> DEFINE c == free_list[n]
           split == c.len > want + CHUNK
           new == [base |-> c.base, len |-> IF split THEN want ELSE c.len,
                   ptr |-> AllocPtr(c.base, alignment), request |-> size, align |-> alignment]
<1>4. c \in Chunks /\ c.base \in Nat /\ c.len \in Nat
  BY Parts
<1>5. want \in Nat /\ want % WORD = 0
      /\ (alignment > 0 => AllocPtr(c.base, alignment) % alignment = 0)
  BY <1>0, <1>4, AllocSizeFacts, AllocAligned
<1>6. allocs' = allocs \cup {new}
  BY <1>1 DEF Carve
<1>7. /\ new.len = (IF split THEN want ELSE c.len)
      /\ new.ptr = AllocPtr(c.base, alignment) /\ new.align = alignment
  OBVIOUS
<1>8. new.len % WORD = 0 /\ (new.align > 0 => new.ptr % new.align = 0)
  <2>1. c.len % WORD = 0
    BY <1>3
  <2> HIDE DEF new, c, want, split
  <2> QED BY <1>5, <1>7, <2>1
<1>9. \A a \in allocs' : a.len % WORD = 0 /\ (a.align > 0 => a.ptr % a.align = 0)
  <2> HIDE DEF new
  <2> QED BY <1>3, <1>6, <1>8
<1>10. \A k \in 1 .. Len(free_list') : free_list'[k].len % WORD = 0
  <2>1. CASE split
    <3> DEFINE e == [base |-> c.base + want, len |-> c.len - want]
    <3>1. free_list' = Splice(free_list, n, e, n + 1)
      BY <1>1, <2>1 DEF Carve
    <3>2. c.len - want \in Nat /\ c.base + want \in Nat
      <4> HIDE DEF c, want
      <4> QED BY <1>0, <1>4, <1>5, <2>1 DEF split
    <3>3. e \in Chunks /\ e.len = c.len - want
      <4> HIDE DEF c, want
      <4> QED BY <3>2 DEF Chunks
    <3>4. (c.len - want) % WORD = 0
      <4>1. c.len % WORD = 0
        BY <1>3
      <4> HIDE DEF c, want
      <4> QED BY <1>0, <1>4, <1>5, <4>1, SumMultiple
    <3>5. e.len % WORD = 0
      <4> HIDE DEF e
      <4> QED BY <3>3, <3>4
    <3>6. n \in 1 .. N + 1 /\ n + 1 \in n .. N + 1
      BY <1>2
    <3> HIDE DEF e
    <3> QED BY <1>2, <1>3, <3>1, <3>3, <3>5, <3>6, SpliceWords
  <2>2. CASE ~split
    <3>1. free_list' = RemoveIndex(free_list, n)
      BY <1>1, <2>2 DEF Carve
    <3>2. /\ Len(free_list') = N - 1
          /\ \A k \in 1 .. N - 1 : free_list'[k] = IF k < n THEN free_list[k] ELSE free_list[k + 1]
      BY <1>2, <3>1, RemoveFacts
    <3> QED BY <1>2, <1>3, <3>2
  <2> QED BY <2>1, <2>2
<1> QED BY <1>9, <1>10 DEF Aligned

\* heap_insert_free_chunk() adds whole chunks to each other.
LEMMA FreeKeepsAligned ==
  ASSUME HeapInv, Aligned, NEW a \in allocs, heap_free(a)
  PROVE  Aligned'
<1> DEFINE N == Len(free_list)
           chunk == [base |-> a.base, len |-> a.len]
<1>0. WORD \in Nat \ {0}
  BY HeapAssumption
<1>1. free_list \in Seq(Chunks) /\ N \in Nat /\ a \in Allocs
  BY Parts DEF HeapInv, HeapTypeOK
<1>2. /\ \A k \in 1 .. N : free_list[k].len % WORD = 0
      /\ \A b \in allocs : b.len % WORD = 0 /\ (b.align > 0 => b.ptr % b.align = 0)
  BY DEF Aligned
<1>3. a.base \in Nat /\ a.len \in Nat /\ chunk.base = a.base /\ chunk.len = a.len
      /\ ChunkEnd(chunk) = a.base + a.len
  BY <1>1 DEF Allocs, ChunkEnd
<1>4. \A k \in 1 .. N : /\ free_list[k].base \in Nat /\ free_list[k].len \in Nat
                        /\ ChunkEnd(free_list[k]) = free_list[k].base + free_list[k].len
  BY Parts DEF ChunkEnd
<1> DEFINE last(n) == n > 1 /\ ChunkEnd(free_list[n - 1]) = chunk.base
           next(n) == n <= N /\ ChunkEnd(chunk) = free_list[n].base
           base(n) == IF last(n) THEN free_list[n - 1].base ELSE chunk.base
           end(n)  == IF next(n) THEN ChunkEnd(free_list[n]) ELSE ChunkEnd(chunk)
<1>5. PICK n \in 1 .. N + 1 :
        free_list' = Splice(free_list, IF last(n) THEN n - 1 ELSE n,
                            [base |-> base(n), len |-> end(n) - base(n)],
                            IF next(n) THEN n + 1 ELSE n)
  BY DEF heap_free, heap_insert_free_chunk
<1> HIDE DEF chunk
<1> DEFINE lo == IF last(n) THEN free_list[n - 1].len ELSE 0
           hi == IF next(n) THEN free_list[n].len ELSE 0
<1>6. lo \in Nat /\ lo % WORD = 0 /\ hi \in Nat /\ hi % WORD = 0
  <2>1. 0 % WORD = 0
    BY <1>0
  <2>2. last(n) => n - 1 \in 1 .. N
    BY <1>1
  <2>3. next(n) => n \in 1 .. N
    BY <1>1
  <2> HIDE DEF last, next
  <2> QED BY <1>2, <1>4, <2>1, <2>2, <2>3
<1>7. base(n) \in Nat /\ end(n) - base(n) = lo + a.len + hi
  <2>1. CASE last(n) /\ next(n)
    <3>1. n - 1 \in 1 .. N /\ n \in 1 .. N
      BY <1>1, <2>1
    <3>2. /\ free_list[n - 1].base \in Nat /\ free_list[n - 1].len \in Nat
          /\ ChunkEnd(free_list[n - 1]) = free_list[n - 1].base + free_list[n - 1].len
          /\ free_list[n].base \in Nat /\ free_list[n].len \in Nat
          /\ ChunkEnd(free_list[n]) = free_list[n].base + free_list[n].len
      BY <1>4, <3>1
    <3>3. /\ ChunkEnd(free_list[n - 1]) = a.base /\ a.base + a.len = free_list[n].base
          /\ base(n) = free_list[n - 1].base /\ end(n) = ChunkEnd(free_list[n])
          /\ lo = free_list[n - 1].len /\ hi = free_list[n].len
      BY <1>3, <2>1
    <3>4. \A u, v, w, x, y, z \in Nat :
            u + v = w /\ w + x = y => y + z - u = v + x + z
      OBVIOUS
    <3> DEFINE c == free_list[n - 1]
               d == free_list[n]
    <3>5. /\ c.base \in Nat /\ c.len \in Nat /\ a.base \in Nat /\ a.len \in Nat
          /\ d.base \in Nat /\ d.len \in Nat
          /\ c.base + c.len = a.base /\ a.base + a.len = d.base
      BY <1>3, <3>2, <3>3
    <3>6. d.base + d.len - c.base = c.len + a.len + d.len
      <4> HIDE DEF c, d
      <4> QED BY <3>4, <3>5
    <3> HIDE DEF base, end, lo, hi
    <3> QED BY <3>2, <3>3, <3>6
  <2>2. CASE last(n) /\ ~next(n)
    <3>1. n - 1 \in 1 .. N
      BY <1>1, <2>2
    <3>2. /\ free_list[n - 1].base \in Nat /\ free_list[n - 1].len \in Nat
          /\ ChunkEnd(free_list[n - 1]) = free_list[n - 1].base + free_list[n - 1].len
      BY <1>4, <3>1
    <3>3. /\ ChunkEnd(free_list[n - 1]) = a.base
          /\ base(n) = free_list[n - 1].base /\ end(n) = a.base + a.len
          /\ lo = free_list[n - 1].len /\ hi = 0
      BY <1>3, <2>2
    <3> HIDE DEF base, end, lo, hi
    <3> QED BY <1>3, <3>2, <3>3
  <2>3. CASE ~last(n) /\ next(n)
    <3>1. n \in 1 .. N
      BY <1>1, <2>3
    <3>2. /\ free_list[n].base \in Nat /\ free_list[n].len \in Nat
          /\ ChunkEnd(free_list[n]) = free_list[n].base + free_list[n].len
      BY <1>4, <3>1
    <3>3. /\ a.base + a.len = free_list[n].base
          /\ base(n) = a.base /\ end(n) = ChunkEnd(free_list[n])
          /\ lo = 0 /\ hi = free_list[n].len
      BY <1>3, <2>3
    <3> HIDE DEF base, end, lo, hi
    <3> QED BY <1>3, <3>2, <3>3
  <2>4. CASE ~last(n) /\ ~next(n)
    BY <1>3, <2>4
  <2> QED BY <2>1, <2>2, <2>3, <2>4
<1>8. (lo + a.len + hi) % WORD = 0 /\ lo + a.len + hi \in Nat
  <2> HIDE DEF lo, hi
  <2>1. a.len % WORD = 0
    BY <1>2
  <2>2. (lo + a.len) % WORD = 0 /\ lo + a.len \in Nat
    BY <1>0, <1>3, <1>6, <2>1, SumMultiple
  <2>3. (lo + a.len + hi) % WORD = 0
    BY <1>0, <1>6, <2>2, SumMultiple
  <2> QED BY <1>6, <2>2, <2>3
<1> DEFINE e == [base |-> base(n), len |-> end(n) - base(n)]
           i == IF last(n) THEN n - 1 ELSE n
           j == IF next(n) THEN n + 1 ELSE n
<1>9. i \in 1 .. N + 1 /\ j \in i .. N + 1
  BY <1>1
<1>10. e \in Chunks /\ e.len % WORD = 0 /\ free_list' = Splice(free_list, i, e, j)
  <2>1. free_list' = Splice(free_list, i, e, j)
    BY <1>5
  <2> HIDE DEF lo, hi, base, end
  <2>2. e.base = base(n) /\ e.len = lo + a.len + hi /\ e \in Chunks
    BY <1>7, <1>8 DEF Chunks
  <2> HIDE DEF e
  <2> QED BY <1>8, <2>1, <2>2
<1> HIDE DEF e, i, j
<1>11. \A k \in 1 .. Len(free_list') : free_list'[k].len % WORD = 0
  BY <1>1, <1>2, <1>9, <1>10, SpliceWords
<1>12. allocs' \subseteq allocs
  BY DEF heap_free
<1> QED BY <1>2, <1>11, <1>12 DEF Aligned

\* Every address that heap_alloc() returns is a multiple of the alignment asked
\* for (heap_test() asserts it), and the heap is cut into whole words only
\* (heap_create_free_chunk() and heap_alloc() assert it).
THEOREM HeapIsAligned == HeapSpec => []Aligned
<1>1. heap_init => Aligned
  <2> SUFFICES ASSUME heap_init PROVE Aligned
    OBVIOUS
  <2> DEFINE c == [base |-> HEAP_START, len |-> HEAP_LEN]
  <2>1. free_list = <<c>> /\ allocs = {} /\ c.len % WORD = 0
    BY AlignAssumption DEF heap_init
  <2> HIDE DEF c
  <2>2. \A k \in 1 .. Len(free_list) : free_list[k] = c
    BY <2>1
  <2> QED BY <2>1, <2>2 DEF Aligned
<1>2. HeapInv /\ Aligned /\ [HeapNext]_heapVars => Aligned'
  <2> SUFFICES ASSUME HeapInv, Aligned, [HeapNext]_heapVars PROVE Aligned'
    OBVIOUS
  <2>1. CASE Allocate
    <3>1. PICK size \in Sizes, alignment \in Alignments : heap_alloc(size, alignment)
      BY <2>1 DEF Allocate
    <3>2. size \in Nat
      BY HeapAssumption
    <3> QED BY <3>1, <3>2, AllocKeepsAligned
  <2>2. CASE Free
    BY <2>2, FreeKeepsAligned DEF Free
  <2>3. CASE Reallocate
    <3>1. PICK a \in allocs \ doomed, size \in Sizes \ {0} : heap_realloc(a, size)
      BY <2>3 DEF Reallocate
    <3>2. size \in Nat /\ heap_alloc(size, 0)
      BY <3>1, HeapAssumption DEF heap_realloc
    <3> QED BY <3>2, AllocKeepsAligned
  <2>4. CASE ReallocFree
    <3>1. PICK a \in doomed : heap_free(a)
      BY <2>4 DEF ReallocFree
    <3>2. a \in allocs
      BY DEF HeapInv, HeapTypeOK
    <3> QED BY <3>1, <3>2, FreeKeepsAligned
  <2>5. CASE UNCHANGED heapVars
    BY <2>5 DEF heapVars, Aligned
  <2> QED BY <2>1, <2>2, <2>3, <2>4, <2>5 DEF HeapNext
<1> QED BY <1>1, <1>2, HeapInvariant, PTL DEF HeapSpec

=============================================================================
