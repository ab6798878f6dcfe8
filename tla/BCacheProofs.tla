---------------------------- MODULE BCacheProofs ----------------------------
(***************************************************************************)
(* The invariant of the block cache and its refinement of BlockStore, for  *)
(* any number of blocks, slots and values.  The lists only matter as sets  *)
(* here: which slots are on them.  Then ext2, which reads through the      *)
(* cache: it gets and puts the blocks in pairs, reads a file as its tree   *)
(* of block pointers gives it, and walks a path to what Resolve gives.     *)
(***************************************************************************)
EXTENDS Ext2, ListProofs, FiniteSetTheorems, TLAPS

-----------------------------------------------------------------------------
(* Walks of the lru_list as statements about sets of slots.                *)

\* Found() for any list of slots and any block numbers.
FoundIn(lru, bn, s, b) ==
  \E i \in 1 .. Len(lru) :
    /\ s = lru[i] /\ bn[s] = b
    /\ \A j \in 1 .. i - 1 : bn[lru[j]] # b

\* OneSlotPerBlock for any list of slots and any block numbers.
OneSlotIn(lru, bn) ==
  \A i, j \in 1 .. Len(lru) : bn[lru[i]] = bn[lru[j]] => i = j

\* If no block number occurs twice, find_block() finds every slot on the list.
LEMMA FoundForm ==
  ASSUME NEW lru \in Seq(Slots), NEW bn, OneSlotIn(lru, bn), NEW s, NEW b
  PROVE  FoundIn(lru, bn, s, b) <=> OccursIn(s, lru) /\ bn[s] = b
<1>1. ASSUME FoundIn(lru, bn, s, b) PROVE OccursIn(s, lru) /\ bn[s] = b
  BY <1>1 DEF FoundIn, OccursIn
<1>2. ASSUME OccursIn(s, lru), bn[s] = b PROVE FoundIn(lru, bn, s, b)
  <2>1. PICK i \in 1 .. Len(lru) : lru[i] = s
    BY <1>2 DEF OccursIn
  <2>2. ASSUME NEW j \in 1 .. i - 1, bn[lru[j]] = b PROVE FALSE
    <3>1. j \in 1 .. Len(lru) /\ j # i
      OBVIOUS
    <3> QED BY <1>2, <2>1, <2>2, <3>1 DEF OneSlotIn
  <2> QED BY <1>2, <2>1, <2>2 DEF FoundIn
<1> QED BY <1>1, <1>2

\* No block number occurs twice on a list without repetitions exactly if no two
\* slots on it have the same one.
LEMMA OneSlotForm ==
  ASSUME NEW lru \in Seq(Slots), Distinct(lru), NEW bn
  PROVE  OneSlotIn(lru, bn) <=>
           \A s, t \in Slots :
             OccursIn(s, lru) /\ OccursIn(t, lru) /\ bn[s] = bn[t] => s = t
<1>1. ASSUME OneSlotIn(lru, bn), NEW s \in Slots, NEW t \in Slots,
             OccursIn(s, lru), OccursIn(t, lru), bn[s] = bn[t]
      PROVE  s = t
  BY <1>1 DEF OneSlotIn, OccursIn
<1>2. ASSUME \A s, t \in Slots :
               OccursIn(s, lru) /\ OccursIn(t, lru) /\ bn[s] = bn[t] => s = t,
             NEW i \in 1 .. Len(lru), NEW j \in 1 .. Len(lru),
             bn[lru[i]] = bn[lru[j]]
      PROVE  i = j
  <2>1. lru[i] \in Slots /\ lru[j] \in Slots
    OBVIOUS
  <2>2. OccursIn(lru[i], lru) /\ OccursIn(lru[j], lru)
    BY DEF OccursIn
  <2>3. lru[i] = lru[j]
    BY <1>2, <2>1, <2>2
  <2> QED BY <2>3 DEF Distinct
<1> QED BY <1>1, <1>2 DEF OneSlotIn

\* BCInv in the form the proofs use.
CacheSets ==
  /\ \A s, t \in Slots :
       OccursIn(s, lru_list) /\ OccursIn(t, lru_list) /\ blocknum[s] = blocknum[t] => s = t
  /\ \A b \in Blocks :
       pins[b] > 0 => \E s \in Slots : OccursIn(s, lru_list) /\ blocknum[s] = b
  /\ \A s \in Slots : OccursIn(s, lru_list) => ref_count[s] = pins[blocknum[s]]
  /\ CleanMatchesDisk

\* The invariant as a statement about sets of slots.
LEMMA ToSets ==
  ASSUME BCInv
  PROVE  /\ CacheSets /\ BCTypeOK /\ SlotsOnOneList /\ OneSlotIn(lru_list, blocknum)
         /\ \A s \in Slots, b \in Blocks :
              Found(s, b) <=> OccursIn(s, lru_list) /\ blocknum[s] = b
<1>1. BCTypeOK /\ SlotsOnOneList /\ OneSlotIn(lru_list, blocknum) /\ CleanMatchesDisk
  BY DEF BCInv, OneSlotPerBlock, OneSlotIn
<1>2. lru_list \in Seq(Slots) /\ Distinct(lru_list) /\ blocknum \in [Slots -> Blocks]
  BY <1>1 DEF BCTypeOK, SlotsOnOneList
<1>3. \A s \in Slots, b \in Blocks :
        Found(s, b) <=> OccursIn(s, lru_list) /\ blocknum[s] = b
  <2> SUFFICES ASSUME NEW s \in Slots, NEW b \in Blocks
               PROVE  Found(s, b) <=> OccursIn(s, lru_list) /\ blocknum[s] = b
    OBVIOUS
  <2>1. FoundIn(lru_list, blocknum, s, b) <=> OccursIn(s, lru_list) /\ blocknum[s] = b
    BY <1>1, <1>2, FoundForm
  <2> QED BY <2>1 DEF Found, FoundIn
<1>4. \A s, t \in Slots :
       OccursIn(s, lru_list) /\ OccursIn(t, lru_list) /\ blocknum[s] = blocknum[t] => s = t
  BY <1>1, <1>2, OneSlotForm
<1>5. \A b \in Blocks :
       pins[b] > 0 => \E s \in Slots : OccursIn(s, lru_list) /\ blocknum[s] = b
  BY <1>3 DEF BCInv, PinnedStay, Cached
<1>6. \A s \in Slots : OccursIn(s, lru_list) => ref_count[s] = pins[blocknum[s]]
  BY <1>2, <1>3 DEF BCInv, PinnedStay
<1> QED BY <1>1, <1>3, <1>4, <1>5, <1>6 DEF CacheSets

\* And back.
LEMMA FromSets ==
  ASSUME CacheSets', BCTypeOK', SlotsOnOneList'
  PROVE  BCInv' /\ OneSlotIn(lru_list', blocknum')
<1>1. /\ lru_list' \in Seq(Slots) /\ Distinct(lru_list')
      /\ blocknum' \in [Slots -> Blocks] /\ pins' \in [Blocks -> Nat]
  BY DEF BCTypeOK, SlotsOnOneList
<1>2. OneSlotIn(lru_list', blocknum')
  BY <1>1, OneSlotForm DEF CacheSets
<1>3. OneSlotPerBlock'
  BY <1>2 DEF OneSlotPerBlock, OneSlotIn
<1>4. ASSUME NEW s \in Slots, NEW b \in Blocks
      PROVE  Found(s, b)' <=> OccursIn(s, lru_list') /\ blocknum'[s] = b
  <2>1. FoundIn(lru_list', blocknum', s, b) <=> OccursIn(s, lru_list') /\ blocknum'[s] = b
    BY <1>1, <1>2, FoundForm
  <2> QED BY <2>1 DEF Found, FoundIn
<1>5. PinnedStay'
  BY <1>1, <1>4 DEF PinnedStay, Cached, CacheSets
<1> QED BY <1>2, <1>3, <1>5 DEF BCInv, CacheSets

-----------------------------------------------------------------------------
(* The two ways a function gets at a slot.                                 *)

\* Moving a slot to the tail of the lru_list keeps the lists' members.
LEMMA TouchFacts ==
  ASSUME BCInv, NEW s \in Slots, OccursIn(s, lru_list),
         lru_list' = Touch(s), free_list' = free_list
  PROVE  /\ lru_list' \in Seq(Slots) /\ free_list' \in Seq(Slots) /\ SlotsOnOneList'
         /\ \A t : OccursIn(t, lru_list') <=> OccursIn(t, lru_list)
<1>1. /\ lru_list \in Seq(Slots) /\ Distinct(lru_list)
      /\ free_list \in Seq(Slots) /\ Distinct(free_list)
      /\ \A t \in Slots : OccursIn(t, free_list) <=> ~OccursIn(t, lru_list)
  BY DEF BCInv, BCTypeOK, SlotsOnOneList
<1> DEFINE w == Without(lru_list, s)
<1>2. /\ w \in Seq(Slots) /\ Distinct(w)
      /\ \A u : OccursIn(u, w) <=> OccursIn(u, lru_list) /\ u # s
  BY <1>1, WithoutFacts
<1>3. lru_list' = Append(w, s)
  BY DEF Touch
<1> HIDE DEF w
<1>4. /\ Append(w, s) \in Seq(Slots) /\ Distinct(Append(w, s))
      /\ \A u : OccursIn(u, Append(w, s)) <=> OccursIn(u, w) \/ u = s
  BY <1>2, AppendFacts
<1>5. \A t : OccursIn(t, lru_list') <=> OccursIn(t, lru_list)
  BY <1>2, <1>3, <1>4
<1> QED BY <1>1, <1>3, <1>4, <1>5 DEF SlotsOnOneList

\* What alloc_block() does: the slot is on the lru_list afterwards, nobody refers to
\* it, and its old contents are on the device.
LEMMA AllocFacts ==
  ASSUME BCInv, NEW s \in Slots, alloc_block(s)
  PROVE  /\ lru_list' \in Seq(Slots) /\ free_list' \in Seq(Slots) /\ SlotsOnOneList'
         /\ \A t : OccursIn(t, lru_list') <=> OccursIn(t, lru_list) \/ t = s
         /\ OccursIn(s, lru_list) => ref_count[s] = 0
         /\ disk' = [c \in Blocks |-> IF OccursIn(s, lru_list) /\ blocknum[s] = c
                                        THEN data[s] ELSE disk[c]]
<1>1. /\ lru_list \in Seq(Slots) /\ Distinct(lru_list)
      /\ free_list \in Seq(Slots) /\ Distinct(free_list)
      /\ \A t \in Slots : OccursIn(t, free_list) <=> ~OccursIn(t, lru_list)
      /\ disk \in [Blocks -> Values] /\ blocknum \in [Slots -> Blocks]
  BY DEF BCInv, BCTypeOK, SlotsOnOneList
<1>2. CASE /\ free_list # <<>> /\ s = Head(free_list)
           /\ free_list' = Tail(free_list)
           /\ lru_list' = Append(lru_list, s)
           /\ UNCHANGED disk
  <2>1. /\ Tail(free_list) \in Seq(Slots) /\ Distinct(Tail(free_list))
        /\ OccursIn(s, free_list)
        /\ \A u : OccursIn(u, Tail(free_list)) <=> OccursIn(u, free_list) /\ u # s
    BY <1>1, <1>2, TailFacts
  <2>2. ~OccursIn(s, lru_list)
    BY <1>1, <2>1
  <2>3. /\ Append(lru_list, s) \in Seq(Slots) /\ Distinct(Append(lru_list, s))
        /\ \A u : OccursIn(u, Append(lru_list, s)) <=> OccursIn(u, lru_list) \/ u = s
    BY <1>1, <2>2, AppendFacts
  <2>4. SlotsOnOneList'
    BY <1>1, <1>2, <2>1, <2>3 DEF SlotsOnOneList
  <2>5. disk' = [c \in Blocks |-> IF OccursIn(s, lru_list) /\ blocknum[s] = c
                                    THEN data[s] ELSE disk[c]]
    BY <1>1, <1>2, <2>2
  <2> QED BY <1>2, <2>1, <2>2, <2>3, <2>4, <2>5
<1>3. CASE /\ free_list = <<>> /\ Victim(s)
           /\ IF is_dirty[s] THEN flush_block(s) ELSE UNCHANGED disk
           /\ lru_list' = Touch(s)
           /\ UNCHANGED free_list
  <2>1. OccursIn(s, lru_list) /\ ref_count[s] = 0
    BY <1>3 DEF Victim, OccursIn
  <2>2. /\ lru_list' \in Seq(Slots) /\ free_list' \in Seq(Slots) /\ SlotsOnOneList'
        /\ \A t : OccursIn(t, lru_list') <=> OccursIn(t, lru_list)
    BY <1>3, <2>1, TouchFacts
  <2>3. disk' = [c \in Blocks |-> IF blocknum[s] = c THEN data[s] ELSE disk[c]]
    <3>1. CASE is_dirty[s]
      BY <1>1, <1>3, <3>1 DEF flush_block
    <3>2. CASE ~is_dirty[s]
      <4>1. disk' = disk /\ data[s] = disk[blocknum[s]]
        BY <1>3, <2>1, <3>2 DEF BCInv, CleanMatchesDisk
      <4> QED BY <1>1, <4>1
    <3> QED BY <3>1, <3>2
  <2> QED BY <2>1, <2>2, <2>3
<1> QED BY <1>2, <1>3 DEF alloc_block

-----------------------------------------------------------------------------
(* Contents as a client sees them.                                         *)

\* The contents that the refinement mapping of Store gives to the blocks.
ContentsOf(lru, bn, dt, dk) ==
  [b \in Blocks |-> IF \E s \in Slots : FoundIn(lru, bn, s, b)
                      THEN dt[CHOOSE s \in Slots : FoundIn(lru, bn, s, b)] ELSE dk[b]]

Contents == ContentsOf(lru_list, blocknum, data, disk)

\* The contents of the store are those of the slots, else those of the device.
LEMMA ContentsFacts ==
  ASSUME NEW lru \in Seq(Slots), Distinct(lru), NEW bn \in [Slots -> Blocks],
         OneSlotIn(lru, bn), NEW dt \in [Slots -> Values], NEW dk \in [Blocks -> Values]
  PROVE  /\ ContentsOf(lru, bn, dt, dk) \in [Blocks -> Values]
         /\ \A s \in Slots : OccursIn(s, lru) => ContentsOf(lru, bn, dt, dk)[bn[s]] = dt[s]
         /\ \A b \in Blocks : (\A s \in Slots : OccursIn(s, lru) => bn[s] # b) =>
              ContentsOf(lru, bn, dt, dk)[b] = dk[b]
<1>1. ASSUME NEW s \in Slots, NEW b \in Blocks
      PROVE  FoundIn(lru, bn, s, b) <=> OccursIn(s, lru) /\ bn[s] = b
  BY FoundForm
<1>2. ContentsOf(lru, bn, dt, dk) \in [Blocks -> Values]
  BY DEF ContentsOf
<1>3. ASSUME NEW s \in Slots, OccursIn(s, lru)
      PROVE  ContentsOf(lru, bn, dt, dk)[bn[s]] = dt[s]
  <2> DEFINE b == bn[s]
             c == CHOOSE t \in Slots : FoundIn(lru, bn, t, b)
  <2>1. b \in Blocks
    OBVIOUS
  <2>2. FoundIn(lru, bn, s, b)
    BY <1>1, <1>3, <2>1
  <2>3. c \in Slots /\ FoundIn(lru, bn, c, b)
    BY <2>2
  <2>4. ContentsOf(lru, bn, dt, dk)[b] = dt[c]
    BY <2>1, <2>2 DEF ContentsOf
  <2> HIDE DEF c
  <2>5. OccursIn(c, lru) /\ bn[c] = bn[s]
    BY <1>1, <2>1, <2>3
  <2>6. c = s
    BY <1>3, <2>3, <2>5, OneSlotForm
  <2> QED BY <2>4, <2>6
<1>4. ASSUME NEW b \in Blocks, \A s \in Slots : OccursIn(s, lru) => bn[s] # b
      PROVE  ContentsOf(lru, bn, dt, dk)[b] = dk[b]
  <2>1. ~\E s \in Slots : FoundIn(lru, bn, s, b)
    BY <1>1, <1>4
  <2> QED BY <2>1 DEF ContentsOf
<1> QED BY <1>2, <1>3, <1>4
\* The contents before and after a step: what ContentsFacts says of the variables.
LEMMA ContentsNow ==
  ASSUME BCInv
  PROVE  /\ Contents \in [Blocks -> Values]
         /\ \A s \in Slots : OccursIn(s, lru_list) => Contents[blocknum[s]] = data[s]
         /\ \A b \in Blocks : (\A s \in Slots : OccursIn(s, lru_list) => blocknum[s] # b) =>
              Contents[b] = disk[b]
<1>1. /\ lru_list \in Seq(Slots) /\ Distinct(lru_list) /\ blocknum \in [Slots -> Blocks]
      /\ OneSlotIn(lru_list, blocknum)
      /\ data \in [Slots -> Values] /\ disk \in [Blocks -> Values]
  BY ToSets DEF BCTypeOK, SlotsOnOneList
<1> QED BY <1>1, ContentsFacts, ZenonT(40) DEF Contents

\* The same after a step.
LEMMA ContentsThen ==
  ASSUME BCInv'
  PROVE  /\ Contents' \in [Blocks -> Values]
         /\ \A s \in Slots : OccursIn(s, lru_list') => Contents'[blocknum'[s]] = data'[s]
         /\ \A b \in Blocks : (\A s \in Slots : OccursIn(s, lru_list') => blocknum'[s] # b) =>
              Contents'[b] = disk'[b]
<1>1. /\ lru_list' \in Seq(Slots) /\ Distinct(lru_list') /\ blocknum' \in [Slots -> Blocks]
      /\ data' \in [Slots -> Values] /\ disk' \in [Blocks -> Values]
      /\ OneSlotPerBlock'
  BY DEF BCInv, BCTypeOK, SlotsOnOneList
<1>2. OneSlotIn(lru_list', blocknum')
  BY <1>1 DEF OneSlotIn, OneSlotPerBlock
<1>3. Contents' = ContentsOf(lru_list', blocknum', data', disk')
  BY DEF Contents, ContentsOf, FoundIn
<1> QED BY <1>1, <1>2, <1>3, ContentsFacts, ZenonT(40)

-----------------------------------------------------------------------------
(* The steps.                                                              *)

\* The dirty flags after a step that leaves the slot s with the contents v.
FlagsAfter(s, v) ==
  /\ is_dirty' \in [Slots -> BOOLEAN]
  /\ \A t \in Slots : t # s => is_dirty'[t] = is_dirty[t]
  /\ is_dirty'[s] = TRUE \/ (v = data[s] /\ is_dirty'[s] = is_dirty[s])

\* A function that finds the block b in the slot s, which it leaves with the contents
\* v and k references, and dirty if it differs now.
LEMMA HitStep ==
  ASSUME BCInv, NEW s \in Slots, NEW b \in Blocks, Found(s, b), lru_list' = Touch(s),
         UNCHANGED <<free_list, blocknum, disk, crashed, write_failed>>,
         NEW v \in Values, data' = [data EXCEPT ![s] = v],
         FlagsAfter(s, v),
         NEW k \in Nat, ref_count' = [ref_count EXCEPT ![s] = k],
         pins' = [pins EXCEPT ![b] = k]
  PROVE  /\ BCInv' /\ Contents' = [Contents EXCEPT ![b] = v]
         /\ Contents \in [Blocks -> Values] /\ Contents[b] = data[s]
<1>1. /\ CacheSets /\ BCTypeOK /\ OccursIn(s, lru_list) /\ blocknum[s] = b
  BY ToSets
<1>2. /\ lru_list' \in Seq(Slots) /\ free_list' \in Seq(Slots) /\ SlotsOnOneList'
      /\ \A t : OccursIn(t, lru_list') <=> OccursIn(t, lru_list)
  BY <1>1, TouchFacts
<1>3. BCTypeOK'
  BY <1>1, <1>2 DEF BCTypeOK, FlagsAfter
<1>4. \A t \in Slots : /\ OccursIn(t, lru_list) /\ blocknum[t] = b => t = s
                       /\ blocknum[t] \in Blocks /\ blocknum'[t] = blocknum[t]
  BY <1>1 DEF CacheSets, BCTypeOK
<1>5. CacheSets'
  <2>1. \A t, u \in Slots : OccursIn(t, lru_list') /\ OccursIn(u, lru_list')
                              /\ blocknum'[t] = blocknum'[u] => t = u
    BY <1>1, <1>2 DEF CacheSets
  <2>2. ASSUME NEW c \in Blocks, pins'[c] > 0
        PROVE  \E t \in Slots : OccursIn(t, lru_list') /\ blocknum'[t] = c
    <3>1. CASE c = b
      BY <1>1, <1>2, <3>1
    <3>2. CASE c # b
      BY <1>1, <1>2, <2>2, <3>2 DEF CacheSets, BCTypeOK
    <3> QED BY <3>1, <3>2
  <2>3. ASSUME NEW t \in Slots, OccursIn(t, lru_list')
        PROVE  ref_count'[t] = pins'[blocknum'[t]]
    <3>1. CASE t = s
      BY <1>1, <3>1 DEF BCTypeOK
    <3>2. CASE t # s
      BY <1>1, <1>2, <1>4, <2>3, <3>2 DEF CacheSets, BCTypeOK
    <3> QED BY <3>1, <3>2
  <2>4. ASSUME NEW t \in Slots, OccursIn(t, lru_list'), ~is_dirty'[t]
        PROVE  data'[t] = disk'[blocknum'[t]]
    <3>1. CASE t = s
      BY <1>1, <2>4, <3>1 DEF CacheSets, CleanMatchesDisk, BCTypeOK, FlagsAfter
    <3>2. CASE t # s
      BY <1>1, <1>2, <2>4, <3>2 DEF CacheSets, CleanMatchesDisk, BCTypeOK, FlagsAfter
    <3> QED BY <3>1, <3>2
  <2> QED BY <2>1, <2>2, <2>3, <2>4 DEF CacheSets, CleanMatchesDisk
<1>6. BCInv'
  BY <1>2, <1>3, <1>5, FromSets
<1>7. Contents \in [Blocks -> Values] /\ Contents' \in [Blocks -> Values] /\ Contents[b] = data[s]
  BY <1>1, <1>6, ContentsNow, ContentsThen
<1>8. ASSUME NEW c \in Blocks PROVE Contents'[c] = [Contents EXCEPT ![b] = v][c]
  <2>1. CASE \E t \in Slots : OccursIn(t, lru_list) /\ blocknum[t] = c
    <3>1. PICK t \in Slots : OccursIn(t, lru_list) /\ blocknum[t] = c
      BY <2>1
    <3>2. Contents'[c] = data'[t] /\ Contents[c] = data[t]
      BY <1>2, <1>6, <3>1, ContentsNow, ContentsThen
    <3>3. data'[t] = IF t = s THEN v ELSE data[t]
      BY <1>1 DEF BCTypeOK
    <3> QED BY <1>1, <1>4, <1>7, <3>1, <3>2, <3>3
  <2>2. CASE \A t \in Slots : OccursIn(t, lru_list) => blocknum[t] # c
    <3>1. Contents'[c] = disk'[c] /\ Contents[c] = disk[c]
      BY <1>2, <1>6, <2>2, ContentsNow, ContentsThen
    <3>2. c # b
      BY <1>1, <2>2
    <3> QED BY <1>7, <3>1, <3>2
  <2> QED BY <2>1, <2>2
<1>9. Contents' = [Contents EXCEPT ![b] = v]
  BY <1>7, <1>8
<1> QED BY <1>6, <1>7, <1>9

\* The same for a slot that gets the contents v for the block b.
FlagsFilled(s, b, v) ==
  /\ is_dirty' \in [Slots -> BOOLEAN]
  /\ \A t \in Slots : t # s => is_dirty'[t] = is_dirty[t]
  /\ is_dirty'[s] = TRUE \/ v = disk[b]

\* A function that does not find b and gets the slot s for it from alloc_block(): what
\* the slot held is on the device, and b is the only block that may look different.
LEMMA FillStep ==
  ASSUME BCInv, NEW s \in Slots, NEW b \in Blocks, ~Cached(b), alloc_block(s),
         blocknum' = [blocknum EXCEPT ![s] = b],
         NEW v \in Values, data' = [data EXCEPT ![s] = v],
         FlagsFilled(s, b, v),
         NEW k \in Nat, ref_count' = [ref_count EXCEPT ![s] = k],
         pins' = [pins EXCEPT ![b] = k],
         UNCHANGED <<crashed, write_failed>>
  PROVE  /\ BCInv' /\ Contents' = [Contents EXCEPT ![b] = v]
         /\ Contents \in [Blocks -> Values] /\ Contents[b] = disk[b]
<1>1. /\ CacheSets /\ BCTypeOK
      /\ \A t \in Slots : OccursIn(t, lru_list) => blocknum[t] # b
  BY ToSets DEF Cached
<1>2. /\ lru_list' \in Seq(Slots) /\ free_list' \in Seq(Slots) /\ SlotsOnOneList'
      /\ \A t : OccursIn(t, lru_list') <=> OccursIn(t, lru_list) \/ t = s
      /\ OccursIn(s, lru_list) => ref_count[s] = 0
      /\ disk' = [c \in Blocks |-> IF OccursIn(s, lru_list) /\ blocknum[s] = c
                                     THEN data[s] ELSE disk[c]]
  BY AllocFacts
<1>3. disk' \in [Blocks -> Values]
  BY <1>1, <1>2 DEF BCTypeOK
<1>4. BCTypeOK'
  BY <1>1, <1>2, <1>3 DEF BCTypeOK, FlagsFilled
<1>5. /\ blocknum'[s] = b /\ data'[s] = v /\ ref_count'[s] = k
      /\ pins'[b] = k /\ \A c \in Blocks : c # b => pins'[c] = pins[c]
      /\ \A t \in Slots : /\ blocknum[t] \in Blocks
                          /\ t # s => /\ blocknum'[t] = blocknum[t] /\ data'[t] = data[t]
                                      /\ is_dirty'[t] = is_dirty[t]
                                      /\ ref_count'[t] = ref_count[t]
  BY <1>1 DEF BCTypeOK, FlagsFilled
<1>6. \A t \in Slots : OccursIn(t, lru_list) /\ t # s => disk'[blocknum[t]] = disk[blocknum[t]]
  <2> SUFFICES ASSUME NEW t \in Slots, OccursIn(t, lru_list), t # s
               PROVE  disk'[blocknum[t]] = disk[blocknum[t]]
    OBVIOUS
  <2>1. ~(OccursIn(s, lru_list) /\ blocknum[s] = blocknum[t])
    BY <1>1 DEF CacheSets
  <2> QED BY <1>2, <1>5, <2>1
<1>7. disk'[b] = disk[b]
  BY <1>1, <1>2
<1>8. CacheSets'
  <2>1. \A t, u \in Slots : OccursIn(t, lru_list') /\ OccursIn(u, lru_list')
                              /\ blocknum'[t] = blocknum'[u] => t = u
    BY <1>1, <1>2, <1>5 DEF CacheSets
  <2>2. ASSUME NEW c \in Blocks, pins'[c] > 0
        PROVE  \E t \in Slots : OccursIn(t, lru_list') /\ blocknum'[t] = c
    <3>1. CASE c = b
      BY <1>2, <1>5, <3>1
    <3>2. CASE c # b
      <4>1. PICK t \in Slots : OccursIn(t, lru_list) /\ blocknum[t] = c
        BY <1>1, <1>5, <2>2, <3>2 DEF CacheSets
      <4>2. ref_count[t] > 0
        BY <1>1, <1>5, <2>2, <3>2, <4>1 DEF CacheSets
      <4>3. t # s
        BY <1>2, <4>1, <4>2
      <4> QED BY <1>2, <1>5, <4>1, <4>3
    <3> QED BY <3>1, <3>2
  <2>3. ASSUME NEW t \in Slots, OccursIn(t, lru_list')
        PROVE  ref_count'[t] = pins'[blocknum'[t]]
    <3>1. CASE t = s
      BY <1>5, <3>1
    <3>2. CASE t # s
      BY <1>1, <1>2, <1>5, <2>3, <3>2 DEF CacheSets
    <3> QED BY <3>1, <3>2
  <2>4. ASSUME NEW t \in Slots, OccursIn(t, lru_list'), ~is_dirty'[t]
        PROVE  data'[t] = disk'[blocknum'[t]]
    <3>1. CASE t = s
      BY <1>5, <1>7, <2>4, <3>1 DEF FlagsFilled
    <3>2. CASE t # s
      BY <1>1, <1>2, <1>5, <1>6, <2>4, <3>2 DEF CacheSets, CleanMatchesDisk
    <3> QED BY <3>1, <3>2
  <2> QED BY <2>1, <2>2, <2>3, <2>4 DEF CacheSets, CleanMatchesDisk
<1>9. BCInv'
  BY <1>2, <1>4, <1>8, FromSets
<1>10. Contents \in [Blocks -> Values] /\ Contents' \in [Blocks -> Values] /\ Contents[b] = disk[b]
  BY <1>1, <1>9, ContentsNow, ContentsThen
<1>11. Contents'[b] = v
  BY <1>2, <1>5, <1>9, ContentsThen
<1>12. ASSUME NEW c \in Blocks, c # b PROVE Contents'[c] = Contents[c]
  <2>1. CASE \E t \in Slots : OccursIn(t, lru_list) /\ blocknum[t] = c /\ t # s
    <3>1. PICK t \in Slots : OccursIn(t, lru_list) /\ blocknum[t] = c /\ t # s
      BY <2>1
    <3>2. Contents[c] = data[t]
      BY <3>1, ContentsNow
    <3>3. OccursIn(t, lru_list') /\ blocknum'[t] = c /\ data'[t] = data[t]
      BY <1>2, <1>5, <3>1
    <3>4. Contents'[c] = data'[t]
      BY <1>9, <3>3, ContentsThen
    <3> QED BY <3>2, <3>3, <3>4
  <2>2. CASE \A t \in Slots : OccursIn(t, lru_list) /\ blocknum[t] = c => t = s
    <3>1. \A t \in Slots : OccursIn(t, lru_list') => blocknum'[t] # c
      BY <1>2, <1>5, <1>12, <2>2
    <3>2. Contents'[c] = disk'[c]
      BY <1>9, <3>1, ContentsThen
    <3>3. CASE OccursIn(s, lru_list) /\ blocknum[s] = c
      <4>1. disk'[c] = data[s]
        BY <1>2, <3>3
      <4>2. Contents[c] = data[s]
        BY <3>3, ContentsNow
      <4> QED BY <3>2, <4>1, <4>2
    <3>4. CASE ~(OccursIn(s, lru_list) /\ blocknum[s] = c)
      <4>1. disk'[c] = disk[c]
        BY <1>2, <3>4
      <4>2. \A t \in Slots : OccursIn(t, lru_list) => blocknum[t] # c
        BY <2>2, <3>4
      <4>3. Contents[c] = disk[c]
        BY <4>2, ContentsNow
      <4> QED BY <3>2, <4>1, <4>3
    <3> QED BY <3>3, <3>4
  <2> QED BY <2>1, <2>2
<1>13. Contents' = [Contents EXCEPT ![b] = v]
  BY <1>10, <1>11, <1>12
<1> QED BY <1>9, <1>10, <1>13

\* What a step does to the contents and the client's access: a step of BlockStore or
\* none.
StoreStep ==
  \/ UNCHANGED <<Contents, access>>
  \/ \E b \in Blocks :
       \/ ClientReads(b, Contents[b]) /\ Contents' = Contents
       \/ \E v \in Values : ClientWrites(b, v) /\ Contents' = [Contents EXCEPT ![b] = v]

\* find_or_fill_block() as the two steps above, for a caller that leaves the block with
\* k references.
LEMMA FindOrFill ==
  ASSUME BCInv, NEW s \in Slots, NEW b \in Blocks, find_or_fill_block(s, b),
         NEW k \in Nat, ref_count' = [ref_count EXCEPT ![s] = k],
         pins' = [pins EXCEPT ![b] = k],
         UNCHANGED <<crashed, write_failed>>
  PROVE  BCInv' /\ Contents' = Contents /\ data'[s] = Contents[b]
<1>1. BCTypeOK
  BY DEF BCInv
<1>2. CASE /\ Found(s, b)
           /\ lru_list' = Touch(s)
           /\ UNCHANGED <<free_list, blocknum, is_dirty, data, disk>>
  <2>1. data[s] \in Values /\ data' = [data EXCEPT ![s] = data[s]]
    BY <1>1, <1>2 DEF BCTypeOK
  <2>2. FlagsAfter(s, data[s])
    BY <1>1, <1>2 DEF BCTypeOK, FlagsAfter
  <2>3. /\ BCInv' /\ Contents' = [Contents EXCEPT ![b] = data[s]]
        /\ Contents \in [Blocks -> Values] /\ Contents[b] = data[s]
    BY <1>2, <2>1, <2>2, HitStep
  <2> QED BY <1>2, <2>3
<1>3. CASE /\ ~Cached(b) /\ alloc_block(s)
           /\ blocknum' = [blocknum EXCEPT ![s] = b]
           /\ data' = [data EXCEPT ![s] = disk[b]]
           /\ is_dirty' = [is_dirty EXCEPT ![s] = DirtyAfterAlloc(s)]
  <2>1. disk[b] \in Values /\ data'[s] = disk[b]
    BY <1>1, <1>3 DEF BCTypeOK
  <2>2. FlagsFilled(s, b, disk[b])
    BY <1>1, <1>3 DEF BCTypeOK, DirtyAfterAlloc, FlagsFilled
  <2>3. /\ BCInv' /\ Contents' = [Contents EXCEPT ![b] = disk[b]]
        /\ Contents \in [Blocks -> Values] /\ Contents[b] = disk[b]
    BY <1>3, <2>1, <2>2, FillStep
  <2> QED BY <2>1, <2>3
<1> QED BY <1>2, <1>3 DEF find_or_fill_block

\* bcache_read_block() changes no contents and copies them to the client.
LEMMA ReadStep ==
  ASSUME BCInv, NEW b \in Blocks, bcache_read_block(b)
  PROVE  BCInv' /\ StoreStep
<1>1. PICK s \in Slots :
        /\ find_or_fill_block(s, b)
        /\ ref_count' = IF Cached(b) THEN ref_count ELSE [ref_count EXCEPT ![s] = 0]
        /\ ClientReads(b, data'[s])
  BY DEF bcache_read_block
<1>2. /\ BCTypeOK /\ CacheSets
      /\ \A t \in Slots : Found(t, b) <=> OccursIn(t, lru_list) /\ blocknum[t] = b
  BY ToSets
<1>3. pins[b] \in Nat /\ pins' = [pins EXCEPT ![b] = pins[b]]
  BY <1>2 DEF BCTypeOK, bcache_read_block
<1>4. ref_count' = [ref_count EXCEPT ![s] = pins[b]]
  <2>1. CASE Cached(b)
    <3>1. Found(s, b)
      BY <1>1, <2>1 DEF find_or_fill_block
    <3>2. ref_count[s] = pins[b]
      BY <1>2, <3>1 DEF CacheSets
    <3> QED BY <1>1, <1>2, <2>1, <3>2 DEF BCTypeOK
  <2>2. CASE ~Cached(b)
    <3>1. ~(pins[b] > 0)
      BY <1>2, <2>2 DEF CacheSets, Cached
    <3>2. pins[b] = 0
      BY <1>3, <3>1
    <3> QED BY <1>1, <2>2, <3>2
  <2> QED BY <2>1, <2>2
<1>5. UNCHANGED <<crashed, write_failed>>
  BY DEF bcache_read_block
<1>6. BCInv' /\ Contents' = Contents /\ data'[s] = Contents[b]
  BY <1>1, <1>3, <1>4, <1>5, FindOrFill
<1> QED BY <1>1, <1>6 DEF StoreStep, ClientReads

\* bcache_get_block() changes no contents and points the client to them.
LEMMA GetStep ==
  ASSUME BCInv, NEW b \in Blocks, bcache_get_block(b)
  PROVE  BCInv' /\ StoreStep
<1>1. PICK s \in Slots :
        /\ find_or_fill_block(s, b)
        /\ ref_count' = [ref_count EXCEPT ![s] = IF Cached(b) THEN @ + 1 ELSE 1]
        /\ ClientReads(b, data'[s])
  BY DEF bcache_get_block
<1>2. /\ BCTypeOK /\ CacheSets
      /\ \A t \in Slots : Found(t, b) <=> OccursIn(t, lru_list) /\ blocknum[t] = b
  BY ToSets
<1>3. /\ pins[b] \in Nat /\ pins[b] + 1 \in Nat /\ pins' = [pins EXCEPT ![b] = pins[b] + 1]
      /\ UNCHANGED <<crashed, write_failed>>
  BY <1>2 DEF BCTypeOK, bcache_get_block
<1>4. ref_count' = [ref_count EXCEPT ![s] = pins[b] + 1]
  <2>1. CASE Cached(b)
    <3>1. Found(s, b)
      BY <1>1, <2>1 DEF find_or_fill_block
    <3>2. ref_count[s] = pins[b]
      BY <1>2, <3>1 DEF CacheSets
    <3> QED BY <1>1, <1>2, <2>1, <3>2 DEF BCTypeOK
  <2>2. CASE ~Cached(b)
    <3>1. ~(pins[b] > 0)
      BY <1>2, <2>2 DEF CacheSets, Cached
    <3>2. pins[b] = 0
      BY <1>3, <3>1
    <3> QED BY <1>1, <2>2, <3>2
  <2> QED BY <2>1, <2>2
<1>5. BCInv' /\ Contents' = Contents /\ data'[s] = Contents[b]
  BY <1>1, <1>3, <1>4, FindOrFill
<1> QED BY <1>1, <1>5 DEF StoreStep, ClientReads

\* bcache_put_block() changes no contents.
LEMMA PutStep ==
  ASSUME BCInv, NEW b \in Blocks, bcache_put_block(b)
  PROVE  BCInv' /\ StoreStep
<1>1. PICK s \in Slots : /\ Found(s, b) /\ lru_list' = Touch(s)
                         /\ ref_count' = [ref_count EXCEPT ![s] = @ - 1]
  BY DEF bcache_put_block
<1>2. /\ BCTypeOK /\ CacheSets /\ OccursIn(s, lru_list) /\ blocknum[s] = b
  BY <1>1, ToSets
<1>3. /\ pins[b] - 1 \in Nat /\ pins' = [pins EXCEPT ![b] = pins[b] - 1]
      /\ UNCHANGED <<free_list, blocknum, is_dirty, data, disk, access, crashed, write_failed>>
  BY <1>2 DEF BCTypeOK, bcache_put_block
<1>4. ref_count' = [ref_count EXCEPT ![s] = pins[b] - 1]
  BY <1>1, <1>2 DEF CacheSets
<1>5. data[s] \in Values /\ data' = [data EXCEPT ![s] = data[s]]
  BY <1>2, <1>3 DEF BCTypeOK
<1>6. FlagsAfter(s, data[s])
  BY <1>2, <1>3 DEF BCTypeOK, FlagsAfter
<1>7. /\ BCInv' /\ Contents' = [Contents EXCEPT ![b] = data[s]]
      /\ Contents \in [Blocks -> Values] /\ Contents[b] = data[s]
  BY <1>1, <1>3, <1>4, <1>5, <1>6, HitStep
<1>8. Contents' = Contents
  BY <1>7
<1> QED BY <1>3, <1>7, <1>8 DEF StoreStep

\* What the client writes through its pointer becomes the contents.
LEMMA MarkDirtyStep ==
  ASSUME BCInv, NEW b \in Blocks, NEW v \in Values, bcache_mark_block_dirty(b, v)
  PROVE  BCInv' /\ StoreStep
<1>1. PICK s \in Slots : /\ Found(s, b) /\ lru_list' = Touch(s)
                         /\ data' = [data EXCEPT ![s] = v]
                         /\ is_dirty' = [is_dirty EXCEPT ![s] = TRUE]
  BY DEF bcache_mark_block_dirty
<1>2. /\ BCTypeOK /\ CacheSets /\ OccursIn(s, lru_list) /\ blocknum[s] = b
  BY <1>1, ToSets
<1>3. /\ UNCHANGED <<free_list, blocknum, ref_count, disk, pins, crashed, write_failed>>
      /\ ClientWrites(b, v)
  BY DEF bcache_mark_block_dirty
<1>4. pins[b] \in Nat /\ pins' = [pins EXCEPT ![b] = pins[b]]
  BY <1>2, <1>3 DEF BCTypeOK
<1>5. ref_count' = [ref_count EXCEPT ![s] = pins[b]]
  BY <1>2, <1>3 DEF BCTypeOK, CacheSets
<1>6. BCInv' /\ Contents' = [Contents EXCEPT ![b] = v]
  <2>1. FlagsAfter(s, v)
    BY <1>1, <1>2 DEF BCTypeOK, FlagsAfter
  <2>2. Found(s, b) /\ lru_list' = Touch(s) /\ data' = [data EXCEPT ![s] = v]
    BY <1>1
  <2>3. UNCHANGED <<free_list, blocknum, disk, crashed, write_failed>>
    BY <1>3
  <2> QED BY <1>4, <1>5, <2>1, <2>2, <2>3, HitStep
<1> QED BY <1>3, <1>6 DEF StoreStep

\* bcache_zero_block() writes zeros.
LEMMA ZeroStep ==
  ASSUME BCInv, NEW b \in Blocks, bcache_zero_block(b)
  PROVE  BCInv' /\ StoreStep
<1>1. PICK s \in Slots :
        /\ \/ /\ Found(s, b)
              /\ lru_list' = Touch(s)
              /\ UNCHANGED <<free_list, blocknum, ref_count, disk>>
           \/ /\ ~Cached(b) /\ alloc_block(s)
              /\ blocknum' = [blocknum EXCEPT ![s] = b]
              /\ ref_count' = [ref_count EXCEPT ![s] = 0]
        /\ data' = [data EXCEPT ![s] = Zero]
        /\ is_dirty' = [is_dirty EXCEPT ![s] = TRUE]
  BY DEF bcache_zero_block
<1>2. /\ BCTypeOK /\ CacheSets /\ Zero \in Values
      /\ \A t \in Slots : Found(t, b) <=> OccursIn(t, lru_list) /\ blocknum[t] = b
  BY ToSets, BCacheAssumption
<1>3. UNCHANGED <<pins, crashed, write_failed>> /\ ClientWrites(b, Zero)
  BY DEF bcache_zero_block
<1>4. pins[b] \in Nat /\ pins' = [pins EXCEPT ![b] = pins[b]]
  BY <1>2, <1>3 DEF BCTypeOK
<1>5. BCInv' /\ Contents' = [Contents EXCEPT ![b] = Zero]
  <2>0. /\ is_dirty' \in [Slots -> BOOLEAN] /\ is_dirty'[s] = TRUE
        /\ \A t \in Slots : t # s => is_dirty'[t] = is_dirty[t]
    BY <1>1, <1>2 DEF BCTypeOK
  <2>1. CASE Found(s, b) /\ lru_list' = Touch(s)
             /\ UNCHANGED <<free_list, blocknum, ref_count, disk>>
    <3>1. ref_count' = [ref_count EXCEPT ![s] = pins[b]]
      BY <1>2, <2>1 DEF BCTypeOK, CacheSets
    <3>2. /\ UNCHANGED <<free_list, blocknum, disk, crashed, write_failed>>
          /\ Zero \in Values /\ data' = [data EXCEPT ![s] = Zero]
      BY <1>1, <1>2, <1>3, <2>1
    <3>3. Found(s, b) /\ lru_list' = Touch(s)
      BY <2>1
    <3>4. FlagsAfter(s, Zero)
      BY <2>0 DEF FlagsAfter
    <3> QED BY <1>4, <3>1, <3>2, <3>3, <3>4, HitStep
  <2>2. CASE /\ ~Cached(b) /\ alloc_block(s)
             /\ blocknum' = [blocknum EXCEPT ![s] = b]
             /\ ref_count' = [ref_count EXCEPT ![s] = 0]
    <3>1. ~(pins[b] > 0)
      BY <1>2, <2>2 DEF CacheSets, Cached
    <3>2. pins[b] = 0
      BY <1>4, <3>1
    <3>3. ref_count' = [ref_count EXCEPT ![s] = pins[b]]
      BY <2>2, <3>2
    <3>4. /\ ~Cached(b) /\ alloc_block(s) /\ blocknum' = [blocknum EXCEPT ![s] = b]
          /\ Zero \in Values /\ data' = [data EXCEPT ![s] = Zero]
          /\ UNCHANGED <<crashed, write_failed>>
      BY <1>1, <1>2, <1>3, <2>2
    <3>5. FlagsFilled(s, b, Zero)
      BY <2>0 DEF FlagsFilled
    <3> QED BY <1>4, <3>3, <3>4, <3>5, FillStep
  <2> QED BY <1>1, <2>1, <2>2
<1> QED BY <1>2, <1>3, <1>5 DEF StoreStep

\* bcache_flush() changes no contents, however far it gets.
LEMMA FlushStep ==
  ASSUME BCInv, bcache_flush
  PROVE  BCInv' /\ StoreStep
<1>1. PICK n \in 0 .. Len(lru_list) :
        LET flushed == {s \in Slots : is_dirty[s] /\ \E i \in 1 .. n : lru_list[i] = s}
        IN  /\ disk' = [b \in Blocks |->
                          IF \E s \in flushed : blocknum[s] = b
                            THEN data[CHOOSE s \in flushed : blocknum[s] = b] ELSE disk[b]]
            /\ is_dirty' = [s \in Slots |-> is_dirty[s] /\ s \notin flushed]
  BY DEF bcache_flush
<1> DEFINE flushed == {s \in Slots : is_dirty[s] /\ \E i \in 1 .. n : lru_list[i] = s}
<1>2. /\ disk' = [b \in Blocks |->
                    IF \E s \in flushed : blocknum[s] = b
                      THEN data[CHOOSE s \in flushed : blocknum[s] = b] ELSE disk[b]]
      /\ is_dirty' = [s \in Slots |-> is_dirty[s] /\ s \notin flushed]
  BY <1>1
<1>3. BCTypeOK /\ CacheSets /\ SlotsOnOneList
  BY ToSets
<1>4. UNCHANGED <<free_list, lru_list, blocknum, ref_count, data, pins, access, crashed,
                  write_failed>>
  BY DEF bcache_flush
<1>5. \A s \in flushed : s \in Slots /\ OccursIn(s, lru_list) /\ is_dirty[s]
  BY <1>3 DEF BCTypeOK, OccursIn
<1> HIDE DEF flushed
<1>6. ASSUME NEW b \in Blocks PROVE disk'[b] \in Values
  <2>1. CASE \E s \in flushed : blocknum[s] = b
    <3> DEFINE c == CHOOSE s \in flushed : blocknum[s] = b
    <3>1. c \in flushed
      BY <2>1
    <3>2. disk'[b] = data[c]
      BY <1>2, <2>1
    <3> HIDE DEF c
    <3> QED BY <1>3, <1>5, <3>1, <3>2 DEF BCTypeOK
  <2>2. CASE ~\E s \in flushed : blocknum[s] = b
    BY <1>2, <1>3, <2>2 DEF BCTypeOK
  <2> QED BY <2>1, <2>2
<1>7. disk' \in [Blocks -> Values]
  BY <1>2, <1>6
<1>8. is_dirty' \in [Slots -> BOOLEAN]
  BY <1>2
<1>9. BCTypeOK'
  BY <1>3, <1>4, <1>7, <1>8 DEF BCTypeOK
<1>10. SlotsOnOneList'
  BY <1>3, <1>4 DEF SlotsOnOneList
<1>11. ASSUME NEW s \in Slots, OccursIn(s, lru_list)
       PROVE  disk'[blocknum[s]] = IF s \in flushed THEN data[s] ELSE disk[blocknum[s]]
  <2>1. /\ blocknum[s] \in Blocks
        /\ \A t \in flushed : blocknum[t] = blocknum[s] => t = s
    BY <1>3, <1>5, <1>11 DEF CacheSets, BCTypeOK
  <2>2. CASE s \in flushed
    <3> DEFINE c == CHOOSE t \in flushed : blocknum[t] = blocknum[s]
    <3>1. c \in flushed /\ blocknum[c] = blocknum[s]
      BY <2>2
    <3>2. disk'[blocknum[s]] = data[c]
      BY <1>2, <2>1, <2>2
    <3> HIDE DEF c
    <3>3. c = s
      BY <2>1, <3>1
    <3> QED BY <2>2, <3>2, <3>3
  <2>3. CASE s \notin flushed
    BY <1>2, <2>1, <2>3
  <2> QED BY <2>2, <2>3
<1>12. CleanMatchesDisk'
  <2> SUFFICES ASSUME NEW s \in Slots, OccursIn(s, lru_list), ~is_dirty'[s]
               PROVE  data[s] = disk'[blocknum[s]]
    BY <1>4 DEF CleanMatchesDisk
  <2>1. CASE s \in flushed
    BY <1>11, <2>1
  <2>2. CASE s \notin flushed
    <3>1. ~is_dirty[s]
      BY <1>2, <2>2
    <3>2. data[s] = disk[blocknum[s]]
      BY <1>3, <3>1 DEF CacheSets, CleanMatchesDisk
    <3> QED BY <1>11, <2>2, <3>2
  <2> QED BY <2>1, <2>2
<1>13. CacheSets'
  BY <1>3, <1>4, <1>12 DEF CacheSets
<1>14. BCInv'
  BY <1>9, <1>10, <1>13, FromSets
<1>15. Contents \in [Blocks -> Values] /\ Contents' \in [Blocks -> Values]
  BY <1>14, ContentsNow, ContentsThen
<1>16. ASSUME NEW b \in Blocks PROVE Contents'[b] = Contents[b]
  <2>1. CASE \E s \in Slots : OccursIn(s, lru_list) /\ blocknum[s] = b
    <3>1. PICK s \in Slots : OccursIn(s, lru_list) /\ blocknum[s] = b
      BY <2>1
    <3>2. Contents[b] = data[s]
      BY <3>1, ContentsNow
    <3>3. OccursIn(s, lru_list') /\ blocknum'[s] = b /\ data'[s] = data[s]
      BY <1>4, <3>1
    <3>4. Contents'[b] = data'[s]
      BY <1>14, <3>3, ContentsThen
    <3> QED BY <3>2, <3>3, <3>4
  <2>2. CASE \A s \in Slots : OccursIn(s, lru_list) => blocknum[s] # b
    <3>1. Contents[b] = disk[b]
      BY <2>2, ContentsNow
    <3>2. \A s \in Slots : OccursIn(s, lru_list') => blocknum'[s] # b
      BY <1>4, <2>2
    <3>3. Contents'[b] = disk'[b]
      BY <1>14, <3>2, ContentsThen
    <3>4. disk'[b] = disk[b]
      BY <1>2, <1>5, <2>2
    <3> QED BY <3>1, <3>3, <3>4
  <2> QED BY <2>1, <2>2
<1>17. Contents' = Contents
  BY <1>15, <1>16
<1> QED BY <1>4, <1>14, <1>17 DEF StoreStep

\* The lists of a new cache: every slot is free.
LEMMA FreshLists ==
  ASSUME NEW s \in Slots
  PROVE  /\ [i \in Slots |-> block_count + 1 - i] \in Seq(Slots)
         /\ Distinct([i \in Slots |-> block_count + 1 - i])
         /\ OccursIn(s, [i \in Slots |-> block_count + 1 - i])
<1> DEFINE f == [i \in 1 .. block_count |-> block_count + 1 - i]
<1>1. f \in [1 .. block_count -> 1 .. block_count] /\ block_count \in Nat
  BY BCacheAssumption
<1>2. f \in Seq(1 .. block_count) /\ Len(f) = block_count
  BY <1>1
<1>3. block_count + 1 - s \in 1 .. block_count /\ f[block_count + 1 - s] = s
  BY <1>1 DEF Slots
<1>4. \A i \in 1 .. block_count : f[i] = block_count + 1 - i
  OBVIOUS
<1> HIDE DEF f
<1>5. Distinct(f)
  BY <1>1, <1>2, <1>4 DEF Distinct
<1>6. OccursIn(s, f)
  BY <1>2, <1>3 DEF OccursIn
<1> QED BY <1>2, <1>5, <1>6 DEF f, Slots

\* A new cache on a device that has everything.
LEMMA RecreateStep ==
  ASSUME BCInv, Recreate
  PROVE  BCInv' /\ StoreStep
<1>1. /\ \A b \in Blocks : pins[b] = 0
      /\ \A s \in Slots : ~is_dirty[s]
      /\ free_list' = [i \in Slots |-> block_count + 1 - i] /\ lru_list' = <<>>
      /\ blocknum' \in [Slots -> Blocks] /\ data' \in [Slots -> Values]
      /\ ref_count' = [s \in Slots |-> 0]
      /\ UNCHANGED <<is_dirty, disk, pins, access, crashed, write_failed>>
  BY DEF Recreate
<1>2. BCTypeOK /\ CleanMatchesDisk
  BY DEF BCInv
<1>3. /\ free_list' \in Seq(Slots) /\ Distinct(free_list')
      /\ \A s \in Slots : OccursIn(s, free_list')
  <2>1. 1 \in Slots
    BY BCacheAssumption DEF Slots
  <2> QED BY <1>1, <2>1, FreshLists
<1>4. /\ lru_list' \in Seq(Slots) /\ Distinct(lru_list') /\ Len(lru_list') = 0
      /\ \A s \in Slots : ~OccursIn(s, lru_list')
  BY <1>1 DEF Distinct, OccursIn
<1>5. SlotsOnOneList'
  BY <1>3, <1>4 DEF SlotsOnOneList
<1>6. ref_count' \in [Slots -> Int]
  BY <1>1
<1>7. BCTypeOK'
  BY <1>1, <1>2, <1>3, <1>4, <1>6 DEF BCTypeOK
<1>8. CacheSets'
  BY <1>1, <1>4 DEF CacheSets, CleanMatchesDisk
<1>9. BCInv'
  BY <1>5, <1>7, <1>8, FromSets
<1>10. Contents \in [Blocks -> Values] /\ Contents' \in [Blocks -> Values]
  BY <1>9, ContentsNow, ContentsThen
<1>11. ASSUME NEW b \in Blocks PROVE Contents'[b] = Contents[b]
  <2>1. Contents'[b] = disk'[b]
    BY <1>4, <1>9, ContentsThen
  <2>2. CASE \E s \in Slots : OccursIn(s, lru_list) /\ blocknum[s] = b
    <3>1. PICK s \in Slots : OccursIn(s, lru_list) /\ blocknum[s] = b
      BY <2>2
    <3>2. Contents[b] = data[s]
      BY <3>1, ContentsNow
    <3>3. data[s] = disk[b]
      BY <1>1, <1>2, <3>1 DEF CleanMatchesDisk
    <3> QED BY <1>1, <2>1, <3>2, <3>3
  <2>3. CASE \A s \in Slots : OccursIn(s, lru_list) => blocknum[s] # b
    <3>1. Contents[b] = disk[b]
      BY <2>3, ContentsNow
    <3> QED BY <1>1, <2>1, <3>1
  <2> QED BY <2>2, <2>3
<1>12. Contents' = Contents
  BY <1>10, <1>11
<1> QED BY <1>1, <1>9, <1>12 DEF StoreStep

\* A step that changes nothing of the cache but the flags crashed and write_failed.
LEMMA QuietStep ==
  ASSUME BCInv, UNCHANGED <<cacheVars, disk, pins, access>>,
         crashed' \in BOOLEAN, write_failed' \in BOOLEAN
  PROVE  BCInv' /\ StoreStep
<1>1. UNCHANGED <<free_list, lru_list, blocknum, ref_count, is_dirty, data, disk, pins, access>>
  BY DEF cacheVars
<1>2. BCTypeOK'
  BY <1>1 DEF BCInv, BCTypeOK
<1>3. SlotsOnOneList' /\ OneSlotPerBlock' /\ CleanMatchesDisk'
  BY <1>1 DEF BCInv, SlotsOnOneList, OneSlotPerBlock, CleanMatchesDisk
<1>4. PinnedStay'
  BY <1>1 DEF BCInv, PinnedStay, Cached, Found
<1>5. Contents' = Contents
  BY <1>1 DEF Contents, ContentsOf, FoundIn
<1> QED BY <1>1, <1>2, <1>3, <1>4, <1>5 DEF BCInv, StoreStep

\* bcache_create() establishes the invariant.
LEMMA BCInitInv == BCInit => BCInv
<1> SUFFICES ASSUME BCInit PROVE BCInv
  OBVIOUS
<1>1. /\ free_list \in Seq(Slots) /\ Distinct(free_list)
      /\ \A s \in Slots : OccursIn(s, free_list)
  <2>1. 1 \in Slots
    BY BCacheAssumption DEF Slots
  <2> QED BY <2>1, FreshLists DEF BCInit
<1>2. /\ lru_list \in Seq(Slots) /\ Distinct(lru_list) /\ Len(lru_list) = 0
      /\ \A s \in Slots : ~OccursIn(s, lru_list)
  BY DEF BCInit, Distinct, OccursIn
<1>3. BCTypeOK
  <2>1. ref_count \in [Slots -> Int] /\ pins \in [Blocks -> Nat]
    BY DEF BCInit
  <2>2. is_dirty \in [Slots -> BOOLEAN] /\ crashed \in BOOLEAN /\ write_failed \in BOOLEAN
    BY DEF BCInit
  <2> QED BY <1>1, <1>2, <2>1, <2>2 DEF BCInit, BCTypeOK
<1>4. SlotsOnOneList /\ OneSlotPerBlock /\ CleanMatchesDisk
  BY <1>1, <1>2 DEF SlotsOnOneList, OneSlotPerBlock, CleanMatchesDisk
<1>5. PinnedStay
  BY <1>2 DEF BCInit, PinnedStay, Found
<1> QED BY <1>3, <1>4, <1>5 DEF BCInv

\* Every step keeps the invariant and is a step of BlockStore, or none.
LEMMA BCNextStep ==
  ASSUME BCInv, [BCNext]_bcVars
  PROVE  BCInv' /\ StoreStep
<1>1. ASSUME NEW b \in Blocks, bcache_read_block(b) PROVE BCInv' /\ StoreStep
  BY <1>1, ReadStep
<1>2. ASSUME NEW b \in Blocks, bcache_get_block(b) PROVE BCInv' /\ StoreStep
  BY <1>2, GetStep
<1>3. ASSUME NEW b \in Blocks, bcache_put_block(b) PROVE BCInv' /\ StoreStep
  BY <1>3, PutStep
<1>4. ASSUME NEW b \in Blocks, bcache_zero_block(b) PROVE BCInv' /\ StoreStep
  BY <1>4, ZeroStep
<1>5. ASSUME NEW b \in Blocks, NEW v \in Values, bcache_mark_block_dirty(b, v)
      PROVE  BCInv' /\ StoreStep
  BY <1>5, MarkDirtyStep
<1>6. ASSUME NEW b \in Blocks, NullBlock(b) PROVE BCInv' /\ StoreStep
  <2>1. UNCHANGED <<cacheVars, disk, pins, access>>
    BY <1>6 DEF NullBlock
  <2>2. crashed' \in BOOLEAN /\ write_failed' \in BOOLEAN
    BY <1>6 DEF NullBlock
  <2> QED BY <2>1, <2>2, QuietStep
<1>7. CASE bcache_flush
  BY <1>7, FlushStep
<1>8. CASE Recreate
  BY <1>8, RecreateStep
<1>9. CASE UNCHANGED bcVars
  <2>1. UNCHANGED <<cacheVars, disk, pins, access, crashed, write_failed>>
    BY <1>9 DEF bcVars
  <2>2. crashed' \in BOOLEAN /\ write_failed' \in BOOLEAN
    BY <2>1 DEF BCInv, BCTypeOK
  <2> QED BY <2>1, <2>2, QuietStep
<1> QED BY <1>1, <1>2, <1>3, <1>4, <1>5, <1>6, <1>7, <1>8, <1>9 DEF BCNext

\* The cache's lists and its blocks stay consistent, whatever the client does: no
\* block is cached twice, a block that the client holds is not evicted, and what is
\* not on the device is marked dirty.
THEOREM BCInvariant == BCSpec => []BCInv
<1>1. BCInv /\ [BCNext]_bcVars => BCInv'
  BY BCNextStep
<1> QED BY <1>1, BCInitInv, PTL DEF BCSpec

\* The mapping of Store gives the contents that the proofs talk about.
LEMMA StoreContents ==
  [b \in Blocks |-> IF Cached(b) THEN data[CHOOSE s \in Slots : Found(s, b)] ELSE disk[b]]
    = Contents
BY DEF Contents, ContentsOf, Cached, Found, FoundIn

\* The cache is transparent: it implements BlockStore, whose only steps are reads and
\* writes of the client.  So what bcache_read_block() copies and bcache_get_block()
\* points to is what the client last wrote to the block, and gets, puts, evictions,
\* flushes and failures of the device change no block.
THEOREM CacheRefinesStore == BCSpec => CacheIsTransparent
<1>1. BCInit => Store!Init
  <2> SUFFICES ASSUME BCInit PROVE Store!Init
    OBVIOUS
  <2>1. Contents \in [Blocks -> Values]
    BY BCInitInv, ContentsNow
  <2>2. PICK b \in Blocks : access = [kind |-> "read", block |-> b, value |-> disk[b]]
    BY DEF BCInit
  <2>3. disk[b] \in Values /\ Contents[b] = disk[b]
    <3>1. \A s \in Slots : ~OccursIn(s, lru_list)
      BY DEF BCInit, OccursIn
    <3> QED BY <3>1, BCInitInv, ContentsNow DEF BCInit
  <2>4. access \in Store!Accesses /\ access.value = Contents[access.block]
    BY <2>2, <2>3 DEF Store!Accesses
  <2> QED BY <2>1, <2>4, StoreContents DEF Store!Init
<1>2. BCInv /\ [BCNext]_bcVars =>
        [Store!Next]_<<[b \in Blocks |-> IF Cached(b)
                          THEN data[CHOOSE s \in Slots : Found(s, b)] ELSE disk[b]], access>>
  <2> SUFFICES ASSUME BCInv, [BCNext]_bcVars
               PROVE  [Store!Next]_<<[b \in Blocks |-> IF Cached(b)
                          THEN data[CHOOSE s \in Slots : Found(s, b)] ELSE disk[b]], access>>
    OBVIOUS
  <2>1. StoreStep
    BY BCNextStep
  <2>2. [b \in Blocks |-> IF Cached(b) THEN data[CHOOSE s \in Slots : Found(s, b)]
                                       ELSE disk[b]]' = Contents'
    BY DEF Contents, ContentsOf, Cached, Found, FoundIn
  <2> QED BY <2>1, <2>2, StoreContents DEF StoreStep, ClientReads, ClientWrites,
                                           Store!Next, Store!Read, Store!Write
<1> QED BY <1>1, <1>2, BCInvariant, PTL DEF BCSpec, CacheIsTransparent, Store!Spec

-----------------------------------------------------------------------------
(* alloc_block() has a slot to give.                                       *)

\* The walk of alloc_block() stops if some slot on the lru_list has no references.
LEMMA WalkStops ==
  ASSUME BCTypeOK, NEW s \in Slots, OccursIn(s, lru_list), ref_count[s] = 0
  PROVE  \E t \in Slots : Victim(t)
<1> DEFINE T == {i \in 1 .. Len(lru_list) : ref_count[lru_list[i]] = 0}
<1>1. lru_list \in Seq(Slots) /\ Len(lru_list) \in Nat
  BY DEF BCTypeOK
<1>2. T \subseteq Nat /\ T # {}
  BY <1>1 DEF OccursIn
<1>3. PICK i \in T : \A j \in T : ~(j < i)
  BY <1>2, LeastNat
<1>4. i \in 1 .. Len(lru_list) /\ ref_count[lru_list[i]] = 0 /\ lru_list[i] \in Slots
  BY <1>1, <1>3
<1>5. \A j \in 1 .. i - 1 : ref_count[lru_list[j]] # 0
  <2> SUFFICES ASSUME NEW j \in 1 .. i - 1, ref_count[lru_list[j]] = 0 PROVE FALSE
    OBVIOUS
  <2>1. j \in T /\ j < i
    BY <1>1, <1>4
  <2> QED BY <1>3, <2>1
<1> QED BY <1>4, <1>5 DEF Victim

\* The blocks that the client holds.
Pinned == {c \in Blocks : pins[c] > 0}

\* What the client keeps to: it holds at most MaxPins blocks at a time.
PinsBounded == IsFiniteSet(Pinned) /\ Cardinality(Pinned) <= MaxPins

\* Without an error of the device, alloc_block() gives a slot.
LEMMA AllocSucceeds ==
  ASSUME BCInv, PinsBounded
  PROVE  ~AllocFails(FALSE)
<1> SUFFICES ASSUME free_list = <<>>, \A s \in Slots : ~Victim(s) PROVE FALSE
  BY DEF AllocFails
<1>1. BCTypeOK /\ CacheSets /\ SlotsOnOneList
  BY ToSets
<1>2. \A s \in Slots : ~OccursIn(s, free_list)
  BY DEF OccursIn
<1>3. \A s \in Slots : OccursIn(s, lru_list)
  BY <1>1, <1>2 DEF SlotsOnOneList
<1>4. ASSUME NEW s \in Slots PROVE blocknum[s] \in Pinned
  <2>1. ref_count[s] # 0
    BY <1>1, <1>3, WalkStops
  <2>2. blocknum[s] \in Blocks /\ pins[blocknum[s]] \in Nat /\ ref_count[s] = pins[blocknum[s]]
    BY <1>1, <1>3 DEF CacheSets, BCTypeOK
  <2> QED BY <2>1, <2>2 DEF Pinned
<1>5. blocknum \in [Slots -> Pinned]
  BY <1>1, <1>4 DEF BCTypeOK
<1>6. IsFiniteSet(Slots) /\ Cardinality(Slots) = block_count
  BY FS_Interval, BCacheAssumption DEF Slots
<1>7. Cardinality(Pinned) \in Nat
  BY FS_CardinalityType DEF PinsBounded
<1>8. Cardinality(Pinned) < Cardinality(Slots)
  BY <1>6, <1>7, BCacheAssumption DEF PinsBounded
<1>9. \E s, t \in Slots : s # t /\ blocknum[s] = blocknum[t]
  BY <1>5, <1>6, <1>8, FS_PigeonHole DEF PinsBounded
<1> QED BY <1>1, <1>3, <1>9 DEF CacheSets

\* The client keeps to its bound.
LEMMA PinsStep ==
  ASSUME BCTypeOK, PinsBounded, [BCNext]_bcVars
  PROVE  PinsBounded'
<1>0. IsFiniteSet(Pinned) /\ Cardinality(Pinned) <= MaxPins /\ Cardinality(Pinned) \in Nat
  BY FS_CardinalityType DEF PinsBounded
<1>1. CASE UNCHANGED pins
  BY <1>1 DEF PinsBounded, Pinned
<1>2. ASSUME NEW b \in Blocks, bcache_get_block(b) PROVE PinsBounded'
  <2>1. Pinned' = Pinned \cup {b}
    BY <1>2 DEF bcache_get_block, Pinned, BCTypeOK
  <2>2. b \in Pinned \/ Cardinality(Pinned) < MaxPins
    BY <1>2 DEF bcache_get_block, Pinned
  <2>3. /\ IsFiniteSet(Pinned \cup {b})
        /\ Cardinality(Pinned \cup {b}) =
             IF b \in Pinned THEN Cardinality(Pinned) ELSE Cardinality(Pinned) + 1
    BY <1>0, FS_AddElement
  <2>4. Cardinality(Pinned \cup {b}) <= MaxPins
    BY <1>0, <2>2, <2>3, BCacheAssumption
  <2> QED BY <2>1, <2>3, <2>4 DEF PinsBounded
<1>3. ASSUME NEW b \in Blocks, bcache_put_block(b) PROVE PinsBounded'
  <2>1. Pinned' \in SUBSET Pinned
    BY <1>3 DEF bcache_put_block, Pinned, BCTypeOK
  <2>2. IsFiniteSet(Pinned') /\ Cardinality(Pinned') <= Cardinality(Pinned)
    BY <1>0, <2>1, FS_Subset
  <2>3. Cardinality(Pinned') \in Nat
    BY <2>2, FS_CardinalityType
  <2> QED BY <1>0, <2>2, <2>3, BCacheAssumption DEF PinsBounded
<1>4. ASSUME NEW b \in Blocks,
             bcache_read_block(b) \/ bcache_zero_block(b) \/ NullBlock(b)
      PROVE  UNCHANGED pins
  BY <1>4 DEF bcache_read_block, bcache_zero_block, NullBlock
<1>5. ASSUME NEW b \in Blocks, NEW v \in Values, bcache_mark_block_dirty(b, v)
      PROVE  UNCHANGED pins
  BY <1>5 DEF bcache_mark_block_dirty
<1>6. ASSUME bcache_flush \/ Recreate PROVE UNCHANGED pins
  BY <1>6 DEF bcache_flush, Recreate
<1>7. ASSUME UNCHANGED bcVars PROVE UNCHANGED pins
  BY <1>7 DEF bcVars
<1> QED BY <1>1, <1>2, <1>3, <1>4, <1>5, <1>6, <1>7 DEF BCNext

\* A client that holds fewer blocks than the cache has slots never makes
\* find_or_fill_block() write through the NULL of alloc_block(), unless the device
\* has failed to write: some slot is always without references.
THEOREM NullNeedsWriteError == BCSpec => []NullOnlyOnWriteError
<1>1. BCInit => PinsBounded /\ NullOnlyOnWriteError
  <2> SUFFICES ASSUME BCInit PROVE PinsBounded /\ NullOnlyOnWriteError
    OBVIOUS
  <2>1. Pinned = {}
    BY DEF BCInit, Pinned
  <2>2. PinsBounded
    BY <2>1, FS_EmptySet, BCacheAssumption DEF PinsBounded
  <2>3. NullOnlyOnWriteError
    BY DEF BCInit, NullOnlyOnWriteError
  <2> QED BY <2>2, <2>3
<1>2. BCInv /\ PinsBounded /\ NullOnlyOnWriteError /\ [BCNext]_bcVars
        => PinsBounded' /\ NullOnlyOnWriteError'
  <2> SUFFICES ASSUME BCInv, PinsBounded, NullOnlyOnWriteError, [BCNext]_bcVars
               PROVE  PinsBounded' /\ NullOnlyOnWriteError'
    OBVIOUS
  <2>1. PinsBounded'
    BY PinsStep DEF BCInv
  <2>2. ASSUME NEW b \in Blocks, NullBlock(b) PROVE NullOnlyOnWriteError'
    <3>1. PICK writeError \in BOOLEAN : /\ AllocFails(writeError)
                                        /\ write_failed' = writeError
      BY <2>2 DEF NullBlock
    <3>2. writeError
      BY <3>1, AllocSucceeds
    <3> QED BY <3>1, <3>2 DEF NullOnlyOnWriteError
  <2>3. ASSUME NEW b \in Blocks, bcache_read_block(b) \/ bcache_get_block(b)
                 \/ bcache_put_block(b) \/ bcache_zero_block(b)
        PROVE  UNCHANGED <<crashed, write_failed>>
    BY <2>3 DEF bcache_read_block, bcache_get_block, bcache_put_block, bcache_zero_block
  <2>4. ASSUME NEW b \in Blocks, NEW v \in Values, bcache_mark_block_dirty(b, v)
        PROVE  UNCHANGED <<crashed, write_failed>>
    BY <2>4 DEF bcache_mark_block_dirty
  <2>5. ASSUME bcache_flush \/ Recreate PROVE NullOnlyOnWriteError'
    BY <2>5 DEF bcache_flush, Recreate, NullOnlyOnWriteError
  <2>6. ASSUME UNCHANGED bcVars PROVE UNCHANGED <<crashed, write_failed>>
    BY <2>6 DEF bcVars
  <2>7. ASSUME UNCHANGED <<crashed, write_failed>> PROVE NullOnlyOnWriteError'
    BY <2>7 DEF NullOnlyOnWriteError
  <2> QED BY <2>1, <2>2, <2>3, <2>4, <2>5, <2>6, <2>7 DEF BCNext
<1> QED BY <1>1, <1>2, BCInvariant, PTL DEF BCSpec

-----------------------------------------------------------------------------
(* ext2 as the client of the cache.                                        *)

\* The block that ext2 looks into at a place of its code, if any.
HeldAt(place, num, blk, b) ==
  \/ place \in {"loaded", "opening"} /\ b = Inodes[num].block
  \/ place = "held" /\ b = blk

\* The inductive invariant: there are counts, and they are what is held.
Ext2Pins == pins \in [Blocks -> Nat] /\ PinsBalanced

\* Ext2Pins in the words of HeldAt().
LEMMA Ext2PinsForm ==
  /\ Ext2Pins <=> /\ pins \in [Blocks -> Nat]
                  /\ \A b \in Blocks : pins[b] = IF HeldAt(pc, inum, current_block, b)
                                                   THEN 1 ELSE 0
  /\ Ext2Pins' <=> /\ pins' \in [Blocks -> Nat]
                   /\ \A b \in Blocks : pins'[b] = IF HeldAt(pc', inum', current_block', b)
                                                     THEN 1 ELSE 0
BY DEF Ext2Pins, PinsBalanced, HeldAt

\* A step from a place where nothing is held to another one, without a change of
\* the counts.
LEMMA NothingHeld ==
  ASSUME Ext2Pins, pins' = pins,
         pc \notin {"loaded", "opening", "held"}, pc' \notin {"loaded", "opening", "held"}
  PROVE  Ext2Pins'
<1>1. \A b : ~HeldAt(pc, inum, current_block, b) /\ ~HeldAt(pc', inum', current_block', b)
  BY DEF HeldAt
<1> QED BY <1>1, Ext2PinsForm

\* bcache_get_block() from a place where nothing is held.
LEMMA GetHolds ==
  ASSUME Ext2Pins, NEW c, bcache_get_block(c), pc \notin {"loaded", "opening", "held"},
         \A b : HeldAt(pc', inum', current_block', b) <=> b = c
  PROVE  Ext2Pins'
<1>1. \A b \in Blocks : pins[b] = 0
  <2>1. \A b : ~HeldAt(pc, inum, current_block, b)
    BY DEF HeldAt
  <2> QED BY <2>1, Ext2PinsForm
<1>2. pins \in [Blocks -> Nat]
  BY Ext2PinsForm
<1>3. pins' = [pins EXCEPT ![c] = @ + 1]
  BY DEF bcache_get_block
<1>4. \A b \in Blocks : pins'[b] = IF b = c THEN 1 ELSE 0
  BY <1>1, <1>2, <1>3
<1>5. pins' \in [Blocks -> Nat]
  <2>1. DOMAIN pins' = Blocks /\ pins' = [b \in Blocks |-> pins'[b]]
    BY <1>2, <1>3
  <2> QED BY <1>4, <2>1
<1>6. \A b \in Blocks : pins'[b] = IF HeldAt(pc', inum', current_block', b) THEN 1 ELSE 0
  BY <1>4
<1> QED BY <1>5, <1>6, Ext2PinsForm

\* bcache_put_block() of the one block that is held.
LEMMA PutReleases ==
  ASSUME Ext2Pins, NEW c, bcache_put_block(c), pc' \notin {"loaded", "opening", "held"},
         \A b : HeldAt(pc, inum, current_block, b) <=> b = c
  PROVE  Ext2Pins'
<1>1. pins \in [Blocks -> Nat] /\ \A b \in Blocks : pins[b] = IF b = c THEN 1 ELSE 0
  BY Ext2PinsForm
<1>2. pins' = [pins EXCEPT ![c] = @ - 1]
  BY DEF bcache_put_block
<1>3. \A b \in Blocks : pins'[b] = 0
  BY <1>1, <1>2
<1>4. pins' \in [Blocks -> Nat]
  <2>1. DOMAIN pins' = Blocks /\ pins' = [b \in Blocks |-> pins'[b]]
    BY <1>1, <1>2
  <2> QED BY <1>3, <2>1
<1>5. \A b : ~HeldAt(pc', inum', current_block', b)
  BY DEF HeldAt
<1> QED BY <1>3, <1>4, <1>5, Ext2PinsForm

\* Wherever ext2_walk() goes on with an inode, it holds no block there.
LEMMA WalkGoesOn ==
  ASSUME ext2_walk
  PROVE  pc' \in {"lookup", "return", "failed"}
<1> DEFINE ino == Inodes[inum]
<1>1. CASE ino.type = "lnk"
  <2>1. FollowLink(ino.link)
    BY <1>1 DEF ext2_walk
  <2> QED BY <2>1 DEF FollowLink, Fail
<1>2. CASE ino.type = "dir"
  <2>1. NextComponent(inum)
    BY <1>2 DEF ext2_walk
  <2> QED BY <2>1 DEF NextComponent
<1>3. CASE ino.type # "lnk" /\ ino.type # "dir"
  <2>1. IF Last THEN NextComponent(Top.dir) ELSE Fail("not found")
    BY <1>3 DEF ext2_walk
  <2> QED BY <2>1 DEF NextComponent, Fail
<1> QED BY <1>1, <1>2, <1>3

\* Every step of ext2 keeps the balance.
LEMMA Ext2KeepsPins ==
  ASSUME Ext2Pins, [Ext2Next]_ext2Vars
  PROVE  Ext2Pins'
<1>1. CASE \E path \in Paths : ext2_open_file(path)
  BY <1>1, NothingHeld DEF ext2_open_file, bcVars
<1>2. CASE ext2_dir_lookup
  BY <1>2, NothingHeld DEF ext2_dir_lookup, Fail, bcVars
<1>3. ASSUME NEW from \in {"load", "open"}, NEW to \in {"loaded", "opening"},
             ext2_load_inode(from, to)
      PROVE  Ext2Pins'
  <2>1. /\ pc = from /\ pc' = to /\ inum' = inum
        /\ bcache_get_block(Inodes[inum].block)
    BY <1>3 DEF ext2_load_inode, walkVars
  <2>2. \A b : HeldAt(pc', inum', current_block', b) <=> b = Inodes[inum].block
    BY <2>1 DEF HeldAt
  <2> QED BY <2>1, <2>2, GetHolds
<1>4. CASE ext2_walk
  <2>1. pc = "loaded" /\ bcache_put_block(Inodes[inum].block)
    BY <1>4 DEF ext2_walk
  <2>2. \A b : HeldAt(pc, inum, current_block, b) <=> b = Inodes[inum].block
    BY <2>1 DEF HeldAt
  <2>3. pc' \notin {"loaded", "opening", "held"}
    BY <1>4, WalkGoesOn
  <2> QED BY <2>1, <2>2, <2>3, PutReleases
<1>5. CASE Return
  BY <1>5, NothingHeld DEF Return, bcVars
<1>6. CASE Opened
  <2>1. pc = "opening" /\ bcache_put_block(Inodes[inum].block) /\ pc' = "opened"
    BY <1>6 DEF Opened
  <2>2. \A b : HeldAt(pc, inum, current_block, b) <=> b = Inodes[inum].block
    BY <2>1 DEF HeldAt
  <2> QED BY <2>1, <2>2, PutReleases
<1>7. CASE \E r \in Reads : ext2_read_file(r[1], r[2])
  <2>1. PICK r \in Reads : ext2_read_file(r[1], r[2])
    BY <1>7
  <2>2. pc = "opened" /\ pc' \in {"delivered", "map"} /\ pins' = pins
    BY <2>1 DEF ext2_read_file, bcVars
  <2> QED BY <2>2, NothingHeld
<1>8. CASE file_block_to_fs_block
  <2>1. pc = "map" /\ pc' \in {"read", "walk", "undefined"} /\ pins' = pins
    BY <1>8 DEF file_block_to_fs_block, bcVars
  <2> QED BY <2>1, NothingHeld
<1>9. CASE GetTable
  <2>1. CASE current_block = 0
    BY <1>9, <2>1, NothingHeld DEF GetTable, bcVars
  <2>2. CASE current_block # 0
    <3>1. /\ pc = "walk" /\ pc' = "held" /\ current_block' = current_block
          /\ bcache_get_block(current_block)
      BY <1>9, <2>2 DEF GetTable
    <3>2. \A b : HeldAt(pc', inum', current_block', b) <=> b = current_block
      BY <3>1 DEF HeldAt
    <3> QED BY <3>1, <3>2, GetHolds
  <2> QED BY <2>1, <2>2
<1>10. CASE PutTable
  <2>1. pc = "held" /\ pc' \in {"walk", "read"} /\ bcache_put_block(current_block)
    BY <1>10 DEF PutTable
  <2>2. \A b : HeldAt(pc, inum, current_block, b) <=> b = current_block
    BY <2>1 DEF HeldAt
  <2> QED BY <2>1, <2>2, PutReleases
<1>11. CASE ext2_read_inode
  <2>1. pc = "read" /\ pc' \in {"map", "delivered"}
    BY <1>11 DEF ext2_read_inode, Deliver
  <2>2. pins' = pins
    BY <1>11 DEF ext2_read_inode, bcache_read_block, bcVars
  <2> QED BY <2>1, <2>2, NothingHeld
<1>12. CASE ext2_close_file
  BY <1>12, NothingHeld DEF ext2_close_file, bcVars
<1>13. CASE UNCHANGED ext2Vars
  <2>1. pc' = pc /\ inum' = inum /\ current_block' = current_block /\ pins' = pins
    BY <1>13 DEF ext2Vars, walkVars, readVars, bcVars
  <2> QED BY <2>1, Ext2PinsForm
<1> QED BY <1>1, <1>2, <1>3, <1>4, <1>5, <1>6, <1>7, <1>8, <1>9, <1>10, <1>11, <1>12,
           <1>13 DEF Ext2Next, Ext2Step

\* On every path through ext2 - not found, a link too deep, a hole, any depth of
\* indirect blocks - each bcache_get_block() is matched by one bcache_put_block()
\* before the next one, on every file system and for any cache.
THEOREM Ext2PinsAreBalanced == Ext2Spec => []PinsBalanced
<1>1. Ext2Init => Ext2Pins
  <2> SUFFICES ASSUME Ext2Init PROVE Ext2Pins
    OBVIOUS
  <2>1. pins = [b \in Blocks |-> 0] /\ pc = "idle"
    BY DEF Ext2Init, BCInit
  <2>2. \A b : ~HeldAt(pc, inum, current_block, b)
    BY <2>1 DEF HeldAt
  <2> QED BY <2>1, <2>2, Ext2PinsForm
<1>2. Ext2Pins /\ [Ext2Next]_ext2Vars => Ext2Pins'
  BY Ext2KeepsPins
<1>3. Ext2Pins => PinsBalanced
  BY DEF Ext2Pins
<1> QED BY <1>1, <1>2, <1>3, PTL DEF Ext2Spec

-----------------------------------------------------------------------------
(* Reading: positions in the tree of block pointers are digits.            *)

\* Multiplication keeps the order.
LEMMA Times ==
  ASSUME NEW p \in Nat, NEW q \in Nat, p <= q, NEW a \in Nat
  PROVE  p * a \in Nat /\ q * a \in Nat /\ p * a <= q * a
OBVIOUS

\* Quotient and remainder.
LEMMA DivMod ==
  ASSUME NEW n \in Nat, NEW a \in Nat \ {0}
  PROVE  /\ n \div a \in Nat /\ n % a \in 0 .. a - 1
         /\ n = (n \div a) * a + (n % a)
<1>a. n % a \in Int
  OBVIOUS
<1>b. 0 <= n % a
  OBVIOUS
<1>c. n % a < a
  OBVIOUS
<1>1. n % a \in 0 .. a - 1
  BY <1>a, <1>b, <1>c
<1>2. n = a * (n \div a) + (n % a)
  OBVIOUS
<1>4. n \div a \in Int
  OBVIOUS
<1>3. n \div a \in Nat
  OBVIOUS
<1> QED BY <1>1, <1>2, <1>3, <1>4

\* The number with the digits i, below m, and j, below a, is below m * a.
LEMMA Digits ==
  ASSUME NEW a \in Nat \ {0}, NEW i \in Nat, NEW j \in 0 .. a - 1, NEW m \in Nat, i < m
  PROVE  i * a + j \in 0 .. m * a - 1
<1>1. (i + 1) * a <= m * a
  BY Times
<1>2. (i + 1) * a = i * a + a /\ i * a \in Nat
  OBVIOUS
<1> QED BY <1>1, <1>2

\* The two digits of a number are unique.
LEMMA DigitsUnique ==
  ASSUME NEW a \in Nat \ {0}, NEW i \in Nat, NEW j \in 0 .. a - 1,
         NEW p \in Nat, NEW q \in 0 .. a - 1, i * a + j = p * a + q
  PROVE  i = p /\ j = q
<1>1. ASSUME i < p PROVE FALSE
  BY <1>1, Digits
<1>2. ASSUME p < i PROVE FALSE
  BY <1>2, Digits
<1> QED BY <1>1, <1>2

\* The quotient of a number below m * a is below m.
LEMMA DivBound ==
  ASSUME NEW a \in Nat \ {0}, NEW m \in Nat, NEW n \in 0 .. m * a - 1
  PROVE  /\ n \div a \in 0 .. m - 1 /\ n % a \in 0 .. a - 1
         /\ n = (n \div a) * a + (n % a)
<1>1. /\ n \in Nat /\ m * a \in Nat
  OBVIOUS
<1>2. n \div a \in Nat /\ n % a \in 0 .. a - 1 /\ n = (n \div a) * a + (n % a)
  BY <1>1, DivMod
<1>3. ASSUME m <= n \div a PROVE FALSE
  BY <1>1, <1>2, <1>3, Times
<1> QED BY <1>2, <1>3

\* Quotient and remainder of a number given by its digits.
LEMMA DivOfDigits ==
  ASSUME NEW a \in Nat \ {0}, NEW i \in Nat, NEW j \in 0 .. a - 1
  PROVE  (i * a + j) \div a = i /\ (i * a + j) % a = j
<1> DEFINE n == i * a + j
<1>1. n \in Nat
  OBVIOUS
<1>2. n \div a \in Nat /\ n % a \in 0 .. a - 1 /\ n = (n \div a) * a + (n % a)
  BY <1>1, DivMod
<1> QED BY <1>2, DigitsUnique

Down(image, ptrs, ps, cl) ==
  LET p0 == ptrs[ps[1]]
      p1 == Entry(image, p0, ps[2])
      p2 == Entry(image, p1, ps[3])
  IN  CASE cl = 0 -> p0 [] cl = 1 -> p1 [] cl = 2 -> p2 [] OTHER -> Entry(image, p2, ps[4])

\* What the positions of block n of a file lead to.
Leads(image, ino, n, lp) ==
  /\ lp[1] \in 0 .. 3 /\ lp[2][1] \in 0 .. EXT2_NDIR_BLOCKS + 2
  /\ \A cl \in 0 .. lp[1] : Down(image, ino.i_block, lp[2], cl) \in Pointers
  /\ BlockOf(image, ino, n, Down(image, ino.i_block, lp[2], lp[1]))

\* The positions that ext2_calculate_block_pointer_pos() computes lead from the inode to
\* the entry of block n.
LEMMA PositionsLead ==
  ASSUME NEW image, NEW ino, TreesHold(image, ino), NEW n \in Nat
  PROVE  LET lp == ext2_calculate_block_pointer_pos(n)
         IN  \/ Leads(image, ino, n, lp)
             \/ /\ lp = <<0, <<n>> >> /\ n \notin 0 .. EXT2_NDIR_BLOCKS + 2
                /\ \A b : ~BlockOf(image, ino, n, b)
<1> DEFINE N == EXT2_NDIR_BLOCKS
           a == EXT2_ADDR_PER_BLOCK
           n1 == n - N
           n2 == n1 - a
           n3 == n2 - a * a
           lp == ext2_calculate_block_pointer_pos(n)
           ptrs == ino.i_block
           E(b, k) == Entry(image, b, k)
<1>1. N \in Nat /\ a \in Nat \ {0} /\ a * a \in Nat /\ a * a * a \in Nat
  BY Ext2Assumption
<1>2. /\ ptrs \in [0 .. N + 2 -> Pointers]
      /\ \A i, j, k \in 0 .. a - 1 :
           /\ E(ptrs[N], i) \in Pointers
           /\ E(ptrs[N + 1], i) \in Pointers
           /\ E(E(ptrs[N + 1], i), j) \in Pointers
           /\ E(ptrs[N + 2], i) \in Pointers
           /\ E(E(ptrs[N + 2], i), j) \in Pointers
           /\ E(E(E(ptrs[N + 2], i), j), k) \in Pointers
  BY DEF TreesHold, Indices
<1>3. CASE n1 < 0
  <2>1. lp = <<0, <<n>> >>
    BY <1>1, <1>3 DEF ext2_calculate_block_pointer_pos
  <2>2. n \in 0 .. N - 1 /\ n \in 0 .. N + 2
    BY <1>1, <1>3
  <2>3. Down(image, ptrs, <<n>>, 0) = ptrs[n]
    BY DEF Down
  <2>4. BlockOf(image, ino, n, ptrs[n])
    BY <2>2 DEF BlockOf
  <2>5. ptrs[n] \in Pointers
    BY <1>2, <2>2
  <2>6. Leads(image, ino, n, <<0, <<n>> >>)
    BY <2>2, <2>3, <2>4, <2>5 DEF Leads
  <2> QED BY <2>1, <2>6
<1>4. CASE n1 >= 0 /\ n1 < a
  <2>1. lp = <<1, <<N, n1>> >>
    BY <1>1, <1>4 DEF ext2_calculate_block_pointer_pos
  <2>2. n1 \in 0 .. a - 1 /\ n = N + n1 /\ N \in 0 .. N + 2
    BY <1>1, <1>4
  <2>3. /\ Down(image, ptrs, <<N, n1>>, 0) = ptrs[N]
        /\ Down(image, ptrs, <<N, n1>>, 1) = E(ptrs[N], n1)
    BY DEF Down
  <2>4. BlockOf(image, ino, n, E(ptrs[N], n1))
    BY <2>2 DEF BlockOf, Indices
  <2>5. ptrs[N] \in Pointers /\ E(ptrs[N], n1) \in Pointers
    BY <1>2, <2>2
  <2>6. \A cl \in 0 .. 1 : Down(image, ptrs, <<N, n1>>, cl) \in Pointers
    BY <2>3, <2>5
  <2>7. Leads(image, ino, n, <<1, <<N, n1>> >>)
    BY <2>2, <2>3, <2>4, <2>6 DEF Leads
  <2> QED BY <2>1, <2>7
<1>5. CASE n2 >= 0 /\ n2 < a * a
  <2> DEFINE i == n2 \div a
             j == n2 % a
  <2>1. lp = <<2, <<N + 1, i, j>> >>
    BY <1>1, <1>5 DEF ext2_calculate_block_pointer_pos
  <2>2. i \in 0 .. a - 1 /\ j \in 0 .. a - 1 /\ n2 = i * a + j
    <3>1. n2 \in 0 .. a * a - 1
      BY <1>1, <1>5
    <3> HIDE DEF n2, a
    <3> QED BY <1>1, <3>1, DivBound DEF i, j
  <2> HIDE DEF i, j
  <2>3. n = N + a + i * a + j /\ N + 1 \in 0 .. N + 2
    BY <1>1, <2>2
  <2>4. /\ Down(image, ptrs, <<N + 1, i, j>>, 0) = ptrs[N + 1]
        /\ Down(image, ptrs, <<N + 1, i, j>>, 1) = E(ptrs[N + 1], i)
        /\ Down(image, ptrs, <<N + 1, i, j>>, 2) = E(E(ptrs[N + 1], i), j)
    BY DEF Down
  <2>5. BlockOf(image, ino, n, E(E(ptrs[N + 1], i), j))
    BY <2>2, <2>3 DEF BlockOf, Indices
  <2>6. /\ ptrs[N + 1] \in Pointers /\ E(ptrs[N + 1], i) \in Pointers
        /\ E(E(ptrs[N + 1], i), j) \in Pointers
    BY <1>2, <2>2, <2>3
  <2>7. \A cl \in 0 .. 2 : Down(image, ptrs, <<N + 1, i, j>>, cl) \in Pointers
    BY <2>4, <2>6
  <2>8. Leads(image, ino, n, <<2, <<N + 1, i, j>> >>)
    BY <2>3, <2>4, <2>5, <2>7 DEF Leads
  <2> QED BY <2>1, <2>8
<1>6. CASE n3 >= 0 /\ n3 < a * a * a
  <2> DEFINE i == n3 \div (a * a)
             r == n3 % (a * a)
             j == r \div a
             k == r % a
  <2>1. lp = <<3, <<N + 2, i, j, k>> >>
    <3>1. n2 >= a * a /\ n1 >= a
      BY <1>1, <1>6
    <3> QED BY <1>1, <1>6, <3>1 DEF ext2_calculate_block_pointer_pos
  <2>2. i \in 0 .. a - 1 /\ r \in 0 .. a * a - 1 /\ n3 = i * (a * a) + r
    <3>1. a * a \in Nat \ {0} /\ a * a * a = a * (a * a)
      BY <1>1
    <3>2. n3 \in 0 .. a * (a * a) - 1
      BY <1>1, <1>6, <3>1
    <3> HIDE DEF n3, a
    <3> QED BY <1>1, <3>1, <3>2, DivBound
  <2>3. j \in 0 .. a - 1 /\ k \in 0 .. a - 1 /\ r = j * a + k
    <3> HIDE DEF r
    <3> QED BY <1>1, <2>2, DivBound
  <2> HIDE DEF i, j, k, r
  <2>4. n = N + a + a * a + (i * a + j) * a + k /\ N + 2 \in 0 .. N + 2
    <3>1. i * (a * a) + j * a = (i * a + j) * a
      BY <1>1, <2>2, <2>3
    <3> QED BY <1>1, <2>2, <2>3, <3>1
  <2>5. /\ Down(image, ptrs, <<N + 2, i, j, k>>, 0) = ptrs[N + 2]
        /\ Down(image, ptrs, <<N + 2, i, j, k>>, 1) = E(ptrs[N + 2], i)
        /\ Down(image, ptrs, <<N + 2, i, j, k>>, 2) = E(E(ptrs[N + 2], i), j)
        /\ Down(image, ptrs, <<N + 2, i, j, k>>, 3) = E(E(E(ptrs[N + 2], i), j), k)
    BY DEF Down
  <2>6. BlockOf(image, ino, n, E(E(E(ptrs[N + 2], i), j), k))
    BY <2>2, <2>3, <2>4 DEF BlockOf, Indices
  <2>7. /\ ptrs[N + 2] \in Pointers /\ E(ptrs[N + 2], i) \in Pointers
        /\ E(E(ptrs[N + 2], i), j) \in Pointers
        /\ E(E(E(ptrs[N + 2], i), j), k) \in Pointers
    BY <1>2, <2>2, <2>3, <2>4
  <2>8. \A cl \in 0 .. 3 : Down(image, ptrs, <<N + 2, i, j, k>>, cl) \in Pointers
    BY <2>5, <2>7
  <2>9. Leads(image, ino, n, <<3, <<N + 2, i, j, k>> >>)
    BY <2>4, <2>5, <2>6, <2>8 DEF Leads
  <2> QED BY <2>1, <2>9
<1>7. CASE n3 >= a * a * a
  <2>1. n2 >= a * a /\ n1 >= a
    BY <1>1, <1>7
  <2>2. lp = <<0, <<n>> >>
    BY <1>1, <1>7, <2>1 DEF ext2_calculate_block_pointer_pos
  <2>3. a >= 1 /\ a * a >= 1 /\ a * a * a >= 1
    BY <1>1
  <2>4. n \notin 0 .. N + 2
    BY <1>1, <1>7, <2>3
  <2>5. ASSUME NEW b, BlockOf(image, ino, n, b) PROVE FALSE
    <3>1. n >= N + a + a * a + a * a * a
      BY <1>1, <1>7
    <3>2. n \notin 0 .. N - 1 /\ \A i \in 0 .. a - 1 : n # N + i
      BY <1>1, <2>3, <3>1
    <3>3. \A i, j \in 0 .. a - 1 : n # N + a + i * a + j
      <4> TAKE i, j \in 0 .. a - 1
      <4>1. i * a + j \in 0 .. a * a - 1
        BY <1>1, Digits
      <4> QED BY <1>1, <2>3, <3>1, <4>1
    <3>4. \A i, j, k \in 0 .. a - 1 : n # N + a + a * a + (i * a + j) * a + k
      <4> TAKE i, j, k \in 0 .. a - 1
      <4>1. i * a + j \in 0 .. a * a - 1
        BY <1>1, Digits
      <4>2. (i * a + j) * a + k \in 0 .. (a * a) * a - 1
        BY <1>1, <4>1, Digits
      <4> QED BY <1>1, <3>1, <4>2
    <3> QED BY <2>5, <3>2, <3>3, <3>4 DEF BlockOf, Indices
  <2> QED BY <2>2, <2>4, <2>5
<1> QED BY <1>1, <1>3, <1>4, <1>5, <1>6, <1>7

\* A block of a file has one number, and so BlockOf is a function of it.
LEMMA BlockIsUnique ==
  ASSUME NEW image, NEW ino, NEW n, NEW b1, NEW b2,
         BlockOf(image, ino, n, b1), BlockOf(image, ino, n, b2)
  PROVE  b1 = b2
<1> DEFINE N == EXT2_NDIR_BLOCKS
           a == EXT2_ADDR_PER_BLOCK
           Direct(b) == n \in 0 .. N - 1 /\ b = ino.i_block[n]
           One(b, i) == n = N + i /\ b = Entry(image, ino.i_block[N], i)
           Two(b, i, j) == /\ n = N + a + i * a + j
                           /\ b = Entry(image, Entry(image, ino.i_block[N + 1], i), j)
           Three(b, i, j, k) ==
             /\ n = N + a + a * a + (i * a + j) * a + k
             /\ b = Entry(image, Entry(image, Entry(image, ino.i_block[N + 2], i), j), k)
           Index == 0 .. a - 1
<1>1. N \in Nat /\ a \in Nat \ {0} /\ a * a \in Nat
  BY Ext2Assumption
<1>2. ASSUME NEW b, BlockOf(image, ino, n, b)
      PROVE  \/ Direct(b)
             \/ \E i \in Index : One(b, i)
             \/ \E i, j \in Index : Two(b, i, j)
             \/ \E i, j, k \in Index : Three(b, i, j, k)
  BY <1>2 DEF BlockOf, Indices
<1>3. ASSUME NEW b, NEW i \in Index, NEW j \in Index, Two(b, i, j)
      PROVE  i * a + j \in 0 .. a * a - 1 /\ n = (N + a) + (i * a + j)
  <2>1. i * a + j \in 0 .. a * a - 1
    BY <1>1, Digits
  <2> QED BY <1>1, <1>3, <2>1
<1>4. ASSUME NEW b, NEW i \in Index, NEW j \in Index, NEW k \in Index, Three(b, i, j, k)
      PROVE  /\ i * a + j \in 0 .. a * a - 1 /\ (i * a + j) * a + k \in Nat
             /\ n = (N + a + a * a) + ((i * a + j) * a + k)
  <2>1. i * a + j \in 0 .. a * a - 1
    BY <1>1, Digits
  <2>2. (i * a + j) * a \in Nat
    BY <1>1, <2>1
  <2> QED BY <1>1, <1>4, <2>1, <2>2
<1>5. ASSUME Direct(b1) PROVE b1 = b2
  <2>1. n < N
    BY <1>1, <1>5
  <2>2. \A i \in Index : ~One(b2, i)
    BY <1>1, <2>1
  <2>3. \A i, j \in Index : ~Two(b2, i, j)
    BY <1>1, <1>3, <2>1
  <2>4. \A i, j, k \in Index : ~Three(b2, i, j, k)
    BY <1>1, <1>4, <2>1
  <2>5. Direct(b2)
    BY <1>2, <2>2, <2>3, <2>4
  <2> QED BY <1>5, <2>5
<1>6. ASSUME NEW i \in Index, One(b1, i) PROVE b1 = b2
  <2>1. N <= n /\ n < N + a
    BY <1>1, <1>6
  <2>2. ~Direct(b2)
    BY <1>1, <2>1
  <2>3. \A p, q \in Index : ~Two(b2, p, q)
    BY <1>1, <1>3, <2>1
  <2>4. \A p, q, r \in Index : ~Three(b2, p, q, r)
    BY <1>1, <1>4, <2>1
  <2>5. PICK p \in Index : One(b2, p)
    BY <1>2, <2>2, <2>3, <2>4
  <2>6. p = i
    BY <1>1, <1>6, <2>5
  <2> QED BY <1>6, <2>5, <2>6
<1>7. ASSUME NEW i \in Index, NEW j \in Index, Two(b1, i, j) PROVE b1 = b2
  <2>0. i * a + j \in 0 .. a * a - 1 /\ n = (N + a) + (i * a + j)
    BY <1>3, <1>7
  <2>1. N + a <= n /\ n < N + a + a * a
    BY <1>1, <2>0
  <2>2. ~Direct(b2) /\ \A p \in Index : ~One(b2, p)
    BY <1>1, <2>1
  <2>4. \A p, q, r \in Index : ~Three(b2, p, q, r)
    BY <1>1, <1>4, <2>1
  <2>5. PICK p \in Index, q \in Index : Two(b2, p, q)
    BY <1>2, <2>2, <2>4
  <2>6. p * a + q \in 0 .. a * a - 1 /\ n = (N + a) + (p * a + q)
    BY <1>3, <2>5
  <2>7. i * a + j = p * a + q
    BY <1>1, <2>0, <2>6
  <2>8. i = p /\ j = q
    BY <1>1, <2>7, DigitsUnique
  <2> QED BY <1>7, <2>5, <2>8
<1>8. ASSUME NEW i \in Index, NEW j \in Index, NEW k \in Index, Three(b1, i, j, k)
      PROVE  b1 = b2
  <2>0. /\ i * a + j \in 0 .. a * a - 1 /\ (i * a + j) * a + k \in Nat
        /\ n = (N + a + a * a) + ((i * a + j) * a + k)
    BY <1>4, <1>8
  <2>1. N + a + a * a <= n
    BY <1>1, <2>0
  <2>2. ~Direct(b2) /\ \A p \in Index : ~One(b2, p)
    BY <1>1, <2>1
  <2>4. \A p, q \in Index : ~Two(b2, p, q)
    BY <1>1, <1>3, <2>1
  <2>5. PICK p \in Index, q \in Index, r \in Index : Three(b2, p, q, r)
    BY <1>2, <2>2, <2>4
  <2>6. /\ p * a + q \in 0 .. a * a - 1 /\ (p * a + q) * a + r \in Nat
        /\ n = (N + a + a * a) + ((p * a + q) * a + r)
    <3> HIDE DEF Three, Index
    <3> QED BY <1>4, <2>5
  <2>7. (i * a + j) * a + k = (p * a + q) * a + r
    BY <1>1, <2>0, <2>6
  <2>a. PICK x : x = i * a + j
    OBVIOUS
  <2>b. PICK y : y = p * a + q
    OBVIOUS
  <2>c. x \in Nat /\ y \in Nat /\ x * a + k = y * a + r
    BY <2>0, <2>6, <2>7, <2>a, <2>b
  <2>8. i * a + j = p * a + q /\ k = r
    BY <1>1, <2>a, <2>b, <2>c, DigitsUnique
  <2>9. i = p /\ j = q
    BY <1>1, <2>8, DigitsUnique
  <2> QED BY <1>8, <2>5, <2>8, <2>9
<1> QED BY <1>2, <1>5, <1>6, <1>7, <1>8

-----------------------------------------------------------------------------
(* ext2 only reads, so nothing becomes dirty and the device stays as it is. *)

Clean == disk \in Images /\ \A s \in Slots : ~is_dirty[s]

\* A slot that find_block() finds holds what the device has.
LEMMA FoundIsDisk ==
  ASSUME BCInv, Clean, NEW s \in Slots, NEW b \in Blocks, Found(s, b)
  PROVE  data[s] = disk[b]
<1>1. OccursIn(s, lru_list) /\ blocknum[s] = b
  BY ToSets
<1> QED BY <1>1 DEF Clean, BCInv, CleanMatchesDisk

\* find_or_fill_block() has nothing to flush, and its slot holds what the device has.
LEMMA FillIsDisk ==
  ASSUME BCInv, Clean, NEW s \in Slots, NEW b \in Blocks, find_or_fill_block(s, b)
  PROVE  disk' = disk /\ Clean' /\ data'[s] = disk[b]
<1>1. BCTypeOK
  BY DEF BCInv
<1>2. CASE Found(s, b) /\ UNCHANGED <<free_list, blocknum, is_dirty, data, disk>>
  BY <1>2, FoundIsDisk DEF Clean
<1>3. CASE /\ alloc_block(s)
           /\ data' = [data EXCEPT ![s] = disk[b]]
           /\ is_dirty' = [is_dirty EXCEPT ![s] = DirtyAfterAlloc(s)]
  <2>1. disk' = disk
    BY <1>3 DEF alloc_block, Clean
  <2>2. data'[s] = disk[b]
    BY <1>1, <1>3 DEF BCTypeOK
  <2>3. \A t \in Slots : ~is_dirty'[t]
    BY <1>1, <1>3 DEF BCTypeOK, DirtyAfterAlloc, Clean
  <2> QED BY <2>1, <2>2, <2>3 DEF Clean
<1> QED BY <1>2, <1>3 DEF find_or_fill_block

\* What the calls of ext2 do with the cache.
LEMMA GetIsClean ==
  ASSUME BCInv, Clean, NEW b \in Blocks, bcache_get_block(b)
  PROVE  BCInv' /\ Clean' /\ disk' = disk
<1>1. BCInv'
  BY GetStep
<1>2. PICK s \in Slots : find_or_fill_block(s, b)
  BY DEF bcache_get_block
<1> QED BY <1>1, <1>2, FillIsDisk

\* bcache_put_block() moves the slot in the list, and no more.
LEMMA PutIsClean ==
  ASSUME BCInv, Clean, NEW b \in Blocks, bcache_put_block(b)
  PROVE  BCInv' /\ Clean' /\ disk' = disk
<1>1. BCInv'
  BY PutStep
<1>2. disk' = disk /\ is_dirty' = is_dirty
  BY DEF bcache_put_block
<1> QED BY <1>1, <1>2 DEF Clean

\* bcache_read_block() copies what the device has.
LEMMA ReadIsClean ==
  ASSUME BCInv, Clean, NEW b \in Blocks, bcache_read_block(b)
  PROVE  BCInv' /\ Clean' /\ disk' = disk /\ access'.value = disk[b]
<1>1. BCInv'
  BY ReadStep
<1>2. PICK s \in Slots : find_or_fill_block(s, b) /\ ClientReads(b, data'[s])
  BY DEF bcache_read_block
<1>3. access'.value = data'[s]
  BY <1>2 DEF ClientReads
<1> QED BY <1>1, <1>2, <1>3, FillIsDisk

\* Nothing at all.
LEMMA QuietIsClean ==
  ASSUME BCInv, Clean, UNCHANGED bcVars
  PROVE  BCInv' /\ Clean' /\ disk' = disk
<1>1. UNCHANGED <<cacheVars, disk, pins, access, crashed, write_failed>>
  BY DEF bcVars
<1>2. crashed' \in BOOLEAN /\ write_failed' \in BOOLEAN
  BY <1>1 DEF BCInv, BCTypeOK
<1>3. BCInv'
  BY <1>1, <1>2, QuietStep
<1>4. is_dirty' = is_dirty
  BY <1>1 DEF cacheVars
<1> QED BY <1>1, <1>3, <1>4 DEF Clean

-----------------------------------------------------------------------------
(* Where the walk down the tables of a file is.                            *)

\* One table further down.
LEMMA DownNext ==
  ASSUME NEW image, NEW ptrs, NEW ps, NEW cl \in 0 .. 2
  PROVE  Down(image, ptrs, ps, cl + 1) = Entry(image, Down(image, ptrs, ps, cl), ps[cl + 2])
<1>1. CASE cl = 0
  BY <1>1 DEF Down
<1>2. CASE cl = 1
  BY <1>2 DEF Down
<1>3. CASE cl = 2
  BY <1>3 DEF Down
<1> QED BY <1>1, <1>2, <1>3

\* Below a hole there are only holes.
LEMMA HoleBelow ==
  ASSUME NEW image, NEW ptrs, NEW ps, NEW l \in 0 .. 3, NEW cl \in 0 .. l,
         Down(image, ptrs, ps, cl) = 0
  PROVE  Down(image, ptrs, ps, l) = 0
<1> DEFINE D(x) == Down(image, ptrs, ps, x)
<1>1. \A x \in 0 .. 2 : D(x) = 0 => D(x + 1) = 0
  BY DownNext DEF Entry
<1> HIDE DEF D
<1>2. (D(0) = 0 => D(1) = 0) /\ (D(1) = 0 => D(2) = 0) /\ (D(2) = 0 => D(3) = 0)
  BY <1>1
<1>3. D(cl) = 0
  BY DEF D
<1>4. D(l) = 0
  BY <1>2, <1>3
<1> QED BY <1>4 DEF D

\* The words that blocks can hold.
AllWords == {0} \cup UNION {{v[k] : k \in Indices} : v \in Values}

\* A function on 1 .. n is a sequence of length n.
LEMMA IsSequence ==
  ASSUME NEW S, NEW n \in Nat, NEW f \in [1 .. n -> S]
  PROVE  f \in Seq(S) /\ Len(f) = n
OBVIOUS

\* ext2_read_inode() has delivered bf, wants ln words more, and is at block fb of the file,
\* which is block cb of the device: o is where it begins in that block, n how many words
\* it takes, and new what it then has delivered.
DeliverFrom(image, ino, off, bf, ln, fb, cb, block, o, n, new) ==
  /\ off \in Nat /\ bf \in Seq(AllWords) /\ ln \in Nat \ {0}
  /\ fb = (off + Len(bf)) \div BlockSize
  /\ bf # <<>> => (off + Len(bf)) % BlockSize = 0
  /\ \A k \in 1 .. Len(bf) : WordOf(image, ino, off + k - 1, bf[k])
  /\ cb \in Pointers /\ BlockOf(image, ino, fb, cb)
  /\ \A k \in Indices : block[k] = Entry(image, cb, k) /\ block[k] \in AllWords
  /\ o = IF bf = <<>> THEN off % BlockSize ELSE 0
  /\ n = IF o # 0 THEN IF ln < BlockSize - o THEN ln ELSE BlockSize - o
         ELSE IF ln >= BlockSize THEN BlockSize ELSE ln
  /\ new = bf \o Words(block, o, n)

\* The words are those of the file, and if more are wanted then the block is at its end.
LEMMA Delivering ==
  ASSUME NEW image, NEW ino, NEW off, NEW bf, NEW ln, NEW fb, NEW cb, NEW block,
         NEW o, NEW n, NEW new,
         DeliverFrom(image, ino, off, bf, ln, fb, cb, block, o, n, new)
  PROVE  /\ n \in 1 .. ln /\ new \in Seq(AllWords) /\ Len(new) = Len(bf) + n
         /\ \A k \in 1 .. Len(new) : WordOf(image, ino, off + k - 1, new[k])
         /\ n < ln => /\ fb + 1 = (off + Len(new)) \div BlockSize
                      /\ (off + Len(new)) % BlockSize = 0
<1>0. /\ off \in Nat /\ bf \in Seq(AllWords) /\ ln \in Nat \ {0}
      /\ fb = (off + Len(bf)) \div BlockSize
      /\ bf # <<>> => (off + Len(bf)) % BlockSize = 0
      /\ \A k \in 1 .. Len(bf) : WordOf(image, ino, off + k - 1, bf[k])
      /\ cb \in Pointers /\ BlockOf(image, ino, fb, cb)
      /\ \A k \in Indices : block[k] = Entry(image, cb, k) /\ block[k] \in AllWords
      /\ o = IF bf = <<>> THEN off % BlockSize ELSE 0
      /\ n = IF o # 0 THEN IF ln < BlockSize - o THEN ln ELSE BlockSize - o
             ELSE IF ln >= BlockSize THEN BlockSize ELSE ln
      /\ new = bf \o Words(block, o, n)
  BY DEF DeliverFrom
<1> USE <1>0
<1> DEFINE a == EXT2_ADDR_PER_BLOCK
           w == off + Len(bf)
<1>1. a \in Nat \ {0} /\ BlockSize = a /\ Indices = 0 .. a - 1
  BY Ext2Assumption DEF BlockSize, Indices
<1>2. w \in Nat /\ Len(bf) \in Nat
  OBVIOUS
<1>3. o = w % a
  <2>1. CASE bf = <<>>
    BY <2>1, <1>1
  <2>2. CASE bf # <<>>
    BY <2>2, <1>1
  <2> QED BY <2>1, <2>2
<1>b. fb = w \div a
  BY ONLY <1>0 DEF BlockSize
<1> HIDE DEF w, a
<1>4. fb \in Nat /\ o \in 0 .. a - 1 /\ w = fb * a + o
  BY ONLY <1>1, <1>2, <1>3, <1>b, DivMod
<1>5. n \in 1 .. ln /\ n <= a - o /\ (n < ln => n = a - o)
  <2>1. n = IF o # 0 THEN IF ln < a - o THEN ln ELSE a - o ELSE IF ln >= a THEN a ELSE ln
    BY <1>1
  <2>2. ln \in Nat \ {0} /\ a \in Nat \ {0} /\ o \in 0 .. a - 1
    BY <1>1, <1>4
  <2> QED BY ONLY <2>1, <2>2
<1>6. \A k \in 1 .. n : o + k - 1 \in Indices
  <2>1. a \in Nat \ {0} /\ o \in 0 .. a - 1 /\ n \in Nat /\ n <= a - o
    BY <1>1, <1>4, <1>5
  <2>2. \A k \in 1 .. n : o + k - 1 \in 0 .. a - 1
    BY ONLY <2>1
  <2> QED BY <1>1, <2>2
<1>7. /\ Words(block, o, n) \in Seq(AllWords) /\ Len(Words(block, o, n)) = n
      /\ \A k \in 1 .. n : Words(block, o, n)[k] = block[o + k - 1]
  <2>1. Words(block, o, n) \in [1 .. n -> AllWords]
    BY <1>6 DEF Words
  <2>2. n \in Nat
    BY <1>5
  <2>3. Words(block, o, n) \in Seq(AllWords) /\ Len(Words(block, o, n)) = n
    BY <2>1, <2>2, IsSequence
  <2>4. \A k \in 1 .. n : Words(block, o, n)[k] = block[o + k - 1]
    BY DEF Words
  <2> QED BY <2>3, <2>4
<1>8. /\ new \in Seq(AllWords) /\ Len(new) = Len(bf) + n
      /\ \A k \in 1 .. Len(bf) : new[k] = bf[k]
      /\ \A k \in 1 .. n : new[Len(bf) + k] = block[o + k - 1]
  <2>1. PICK ws : ws = Words(block, o, n)
    OBVIOUS
  <2>2. /\ ws \in Seq(AllWords) /\ Len(ws) = n /\ new = bf \o ws
        /\ \A k \in 1 .. n : ws[k] = block[o + k - 1]
    BY <1>7, <2>1
  <2>3. /\ bf \o ws \in Seq(AllWords) /\ Len(bf \o ws) = Len(bf) + Len(ws)
        /\ \A k \in 1 .. Len(bf) : (bf \o ws)[k] = bf[k]
        /\ \A k \in 1 .. Len(ws) : (bf \o ws)[Len(bf) + k] = ws[k]
    <3>1. PICK S : S = AllWords
      OBVIOUS
    <3>2. bf \in Seq(S) /\ ws \in Seq(S)
      BY <2>2, <3>1
    <3>3. /\ bf \o ws \in Seq(S) /\ Len(bf \o ws) = Len(bf) + Len(ws)
          /\ \A k \in 1 .. Len(bf) : (bf \o ws)[k] = bf[k]
      BY ONLY <3>2
    <3>4. \A k \in 1 .. Len(ws) : (bf \o ws)[Len(bf) + k] = ws[k]
      BY ONLY <3>2
    <3> QED BY <3>1, <3>3, <3>4
  <2> QED BY <2>2, <2>3
<1>9. ASSUME NEW k \in 1 .. Len(new) PROVE WordOf(image, ino, off + k - 1, new[k])
  <2>1. CASE k \in 1 .. Len(bf)
    BY <2>1, <1>8
  <2>2. CASE k \notin 1 .. Len(bf)
    <3> DEFINE i == k - Len(bf)
    <3>1. i \in 1 .. n /\ k = Len(bf) + i /\ i \in Int
      <4>1. PICK L \in Nat : L = Len(bf)
        BY <1>2
      <4>2. k \in 1 .. L + n /\ k \notin 1 .. L /\ n \in Nat
        BY <1>5, <1>8, <2>2, <4>1
      <4>3. k - L \in 1 .. n /\ k = L + (k - L) /\ k - L \in Int
        BY ONLY <4>2, L \in Nat
      <4> QED BY <4>1, <4>3
    <3> HIDE DEF i
    <3>2. new[k] = Entry(image, cb, o + i - 1)
      BY <1>6, <1>8, <3>1
    <3>3. off + k - 1 = fb * a + (o + i - 1)
      <4>1. off + k - 1 = w + i - 1
        <5>1. PICK L \in Nat : L = Len(bf)
          BY <1>2
        <5>2. off \in Nat /\ w = off + L /\ k = L + i /\ i \in Int
          BY <3>1, <5>1 DEF w
        <5> QED BY ONLY L \in Nat, <5>2
      <4>2. fb * a \in Nat
        BY <1>1, <1>4
      <4>3. PICK z \in Nat : z = fb * a
        BY <4>2
      <4>4. w = z + o /\ o \in Int /\ i \in Int
        BY <1>4, <3>1, <4>3
      <4>5. off + k - 1 = z + (o + i - 1)
        BY ONLY z \in Nat, <4>1, <4>4
      <4> QED BY <4>3, <4>5
    <3>4. PICK r : r = o + i - 1
      OBVIOUS
    <3>5. r \in 0 .. a - 1
      BY <1>1, <1>6, <3>1, <3>4
    <3>6. (off + k - 1) \div a = fb /\ (off + k - 1) % a = r
      <4>1. (fb * a + r) \div a = fb /\ (fb * a + r) % a = r
        BY <1>1, <1>4, <3>5, DivOfDigits
      <4> QED BY <3>3, <3>4, <4>1
    <3> QED BY <1>1, <3>2, <3>4, <3>6 DEF WordOf
  <2> QED BY <2>1, <2>2
<1>10. ASSUME n < ln
       PROVE  fb + 1 = (off + Len(new)) \div BlockSize /\ (off + Len(new)) % BlockSize = 0
  <2>1. off + Len(new) = w + (a - o)
    <3>1. PICK L \in Nat : L = Len(bf)
      BY <1>2
    <3>2. Len(new) = L + (a - o) /\ w = off + L
      BY <1>5, <1>8, <1>10, <3>1 DEF w
    <3>3. a - o \in Int
      BY <1>1, <1>4
    <3>4. off + (L + (a - o)) = (off + L) + (a - o)
      BY ONLY <3>3, L \in Nat, off \in Nat
    <3> QED BY <3>2, <3>4
  <2>2. w + (a - o) = (fb + 1) * a
    <3>1. (fb + 1) * a = fb * a + a /\ fb * a \in Nat
      BY <1>1, <1>4
    <3> QED BY <1>1, <1>4, <3>1
  <2>3. (fb + 1) * a + 0 = (fb + 1) * a /\ fb + 1 \in Nat /\ 0 \in 0 .. a - 1
    BY <1>1, <1>4
  <2>4. ((fb + 1) * a + 0) \div a = fb + 1 /\ ((fb + 1) * a + 0) % a = 0
    BY <1>1, <2>3, DivOfDigits
  <2> QED BY <1>1, <2>1, <2>2, <2>3, <2>4
<1> QED BY <1>5, <1>8, <1>9, <1>10

-----------------------------------------------------------------------------
(* The inductive invariant of ext2.                                        *)

Frames == [comps : Components, dir : DOMAIN Inodes]

\* The calls of ext2_walk() are about directories and paths.
WalkOK ==
  /\ inum \in DOMAIN Inodes /\ stack \in Seq(Frames)
  /\ request \in [path : Seq(STRING), read : Nat \X Nat]
  /\ pc \in {"lookup", "load", "loaded", "return"} => stack # <<>>

NotReading == {"idle", "lookup", "load", "loaded", "return", "open", "opening", "opened",
               "failed"}
Reading == {"map", "walk", "held", "read"}

\* The walk down the tables is where the positions lead from the inode.
Mapped ==
  LET down(cl) == Down(disk, File.i_block, pos, cl)
  IN  /\ Leads(disk, File, file_block, <<level, pos>>)
      /\ pc = "walk" => current_level \in 0 .. level - 1 /\ current_block = down(current_level)
      /\ pc = "held" => /\ current_level \in 1 .. level /\ current_block \in Blocks
                        /\ current_block = down(current_level - 1)
      /\ pc = "read" => current_block = down(level)

\* What has been delivered, and what is still wanted.
Progress ==
  /\ File.type = "reg" /\ offset = request.read[1]
  /\ len \in Nat \ {0} /\ Len(buf) + len = Available(File, request.read[1], request.read[2])
  /\ buf \in Seq(AllWords)
  /\ \A k \in 1 .. Len(buf) : WordOf(disk, File, offset + k - 1, buf[k])
  /\ file_block = (offset + Len(buf)) \div BlockSize
  /\ buf # <<>> => (offset + Len(buf)) % BlockSize = 0

ReadOK ==
  /\ pc \in NotReading => buf = <<>>
  /\ pc \in Reading => Progress
  /\ pc \in Reading \ {"map"} => Mapped

Ext2Inv == BCInv /\ Clean /\ WalkOK /\ ReadOK /\ ReadsFile

\* The pointers of a regular file on the device.
LEMMA FileHolds ==
  ASSUME Clean, WalkOK, File.type = "reg"
  PROVE  TreesHold(disk, File) /\ File.size \in Nat
BY Ext2WellFormed DEF Clean, WalkOK, File

\* What ext2_read_inode() reads is what there is to be read.
LEMMA TrimIsAvailable ==
  ASSUME File.size \in Nat, NEW o \in Nat, NEW n \in Nat
  PROVE  Trim(o, n) = Available(File, o, n) /\ Trim(o, n) \in Nat
BY DEF Trim, Available

\* A step of the walk that stays away from reading.
LEMMA StillNotReading ==
  ASSUME ReadOK, pc \in NotReading, pc' \in NotReading, buf' = buf
  PROVE  ReadOK' /\ ReadsFile'
<1>1. buf = <<>> /\ pc' \notin Reading \cup {"delivered", "undefined"}
  BY DEF ReadOK, NotReading, Reading
<1>2. ReadOK'
  BY <1>1 DEF ReadOK
<1>3. ReadsFile'
  BY <1>1 DEF ReadsFile
<1> QED BY <1>2, <1>3

\* ext2_read_file() begins.
LEMMA ReadBegins ==
  ASSUME Ext2Inv, NEW o \in Nat, NEW n \in Nat, ext2_read_file(o, n)
  PROVE  Ext2Inv'
<1>1. /\ pc = "opened" /\ request' = [request EXCEPT !.read = <<o, n>>]
      /\ UNCHANGED <<bcVars, walkVars, level, pos, current_level, current_block, buf>>
  BY DEF ext2_read_file
<1>2. BCInv' /\ Clean' /\ disk' = disk
  BY <1>1, QuietIsClean DEF Ext2Inv
<1>3. buf = <<>> /\ buf' = <<>> /\ UNCHANGED <<stack, inum, err>> /\ File' = File
  BY <1>1 DEF Ext2Inv, ReadOK, NotReading, walkVars, File
<1>4. request'.read = <<o, n>> /\ request' \in [path : Seq(STRING), read : Nat \X Nat]
  BY <1>1 DEF Ext2Inv, WalkOK
<1>5. pc' \in {"delivered", "map"}
  BY DEF ext2_read_file
<1>6. WalkOK'
  BY <1>3, <1>4, <1>5 DEF Ext2Inv, WalkOK
<1>7. request'.read[1] = o /\ request'.read[2] = n
  BY <1>4
<1>8. CASE File.type # "reg"
  <2>1. pc' = "delivered"
    BY <1>8 DEF ext2_read_file
  <2>2. ReadOK'
    BY <2>1 DEF ReadOK, NotReading, Reading
  <2>3. ReadsFile'
    BY <1>3, <1>8, <2>1 DEF ReadsFile
  <2> QED BY <1>2, <1>6, <2>2, <2>3 DEF Ext2Inv
<1>9. CASE File.type = "reg"
  <2>1. File.size \in Nat
    BY <1>9, FileHolds DEF Ext2Inv
  <2>2. Trim(o, n) = Available(File, o, n) /\ Trim(o, n) \in Nat
    BY <2>1, TrimIsAvailable
  <2>3. CASE Trim(o, n) = 0
    <3>1. pc' = "delivered"
      BY <2>3 DEF ext2_read_file
    <3>2. ReadOK'
      BY <3>1 DEF ReadOK, NotReading, Reading
    <3>3. Len(buf') = 0 /\ Available(File', o, n) = 0
      BY <1>3, <2>2, <2>3
    <3>4. ReadsFile'
      BY <1>7, <3>1, <3>3 DEF ReadsFile
    <3> QED BY <1>2, <1>6, <3>2, <3>4 DEF Ext2Inv
  <2>4. CASE Trim(o, n) # 0
    <3>1. /\ pc' = "map" /\ offset' = o /\ len' = Trim(o, n)
          /\ file_block' = o \div BlockSize
      BY <1>9, <2>4 DEF ext2_read_file
    <3>2. Len(buf') = 0 /\ buf' \in Seq(AllWords)
      BY <1>3
    <3>3. o + Len(buf') = o
      BY <3>2
    <3>4. Len(buf') + len' = Available(File', o, n) /\ len' \in Nat \ {0}
      BY <1>3, <2>2, <2>4, <3>1, <3>2
    <3>5. \A k \in 1 .. Len(buf') : FALSE
      BY <3>2
    <3>6. Progress'
      BY <1>3, <1>7, <1>9, <3>1, <3>2, <3>3, <3>4, <3>5 DEF Progress
    <3>7. ReadOK'
      BY <3>1, <3>6 DEF ReadOK, NotReading, Reading
    <3>8. ReadsFile'
      BY <3>1 DEF ReadsFile
    <3> QED BY <1>2, <1>6, <3>7, <3>8 DEF Ext2Inv
  <2> QED BY <2>3, <2>4
<1> QED BY <1>8, <1>9

\* Nothing of the walk changes, and nothing is delivered.
StillReading ==
  UNCHANGED <<walkVars, offset, len, file_block, buf, request>> /\ disk' = disk

\* What has been delivered stays, in such a step.
LEMMA ProgressStays ==
  ASSUME WalkOK, Progress, StillReading, pc' \in (Reading \cup {"undefined"})
  PROVE  WalkOK' /\ Progress'
<1>1. UNCHANGED <<stack, inum, err, offset, len, file_block, buf, request, disk>>
  BY DEF StillReading, walkVars
<1>2. File' = File
  BY <1>1 DEF File
<1>3. WalkOK'
  BY <1>1 DEF WalkOK, Reading
<1>4. Progress'
  BY <1>1, <1>2 DEF Progress
<1> QED BY <1>3, <1>4

\* file_block_to_fs_block() computes the positions.
LEMMA MapStep ==
  ASSUME Ext2Inv, file_block_to_fs_block
  PROVE  Ext2Inv'
<1> DEFINE lp == ext2_calculate_block_pointer_pos(file_block)
<1>1. /\ pc = "map" /\ level' = lp[1] /\ pos' = lp[2] /\ current_level' = 0
      /\ IF lp[2][1] \in DOMAIN File.i_block
           THEN /\ current_block' = File.i_block[lp[2][1]]
                /\ pc' = IF lp[1] = 0 THEN "read" ELSE "walk"
           ELSE pc' = "undefined" /\ UNCHANGED current_block
      /\ UNCHANGED <<bcVars, walkVars, offset, len, file_block, buf, request>>
  BY DEF file_block_to_fs_block
<1>2. BCInv' /\ Clean' /\ disk' = disk
  BY <1>1, QuietIsClean DEF Ext2Inv
<1>3. Progress /\ WalkOK /\ Clean
  BY <1>1 DEF Ext2Inv, ReadOK, Reading
<1>4. pc' \in {"read", "walk", "undefined"}
  BY <1>1
<1>5. WalkOK' /\ Progress'
  BY <1>1, <1>2, <1>3, <1>4, ProgressStays DEF StillReading, Reading
<1>6. File' = File /\ file_block' = file_block /\ File.type = "reg"
  BY <1>1, <1>3 DEF File, walkVars, Progress
<1>7. TreesHold(disk, File) /\ DOMAIN File.i_block = 0 .. EXT2_NDIR_BLOCKS + 2
  BY <1>3, <1>6, FileHolds DEF TreesHold
<1>8. file_block \in Nat
  <2>0. offset \in Nat /\ Len(buf) \in Nat
    BY <1>3 DEF Progress, WalkOK
  <2>1. offset + Len(buf) \in Nat /\ BlockSize \in Nat \ {0}
    BY <2>0, Ext2Assumption DEF BlockSize
  <2>2. PICK x \in Nat : x = offset + Len(buf)
    BY <2>1
  <2>3. x \div BlockSize \in Nat
    BY <2>1, DivMod
  <2> QED BY <1>3, <2>2, <2>3 DEF Progress
<1>9. \/ Leads(disk, File, file_block, lp)
      \/ /\ lp = <<0, <<file_block>> >> /\ file_block \notin 0 .. EXT2_NDIR_BLOCKS + 2
         /\ \A b : ~BlockOf(disk, File, file_block, b)
  BY <1>7, <1>8, PositionsLead
<1> HIDE DEF lp
<1>10. CASE Leads(disk, File, file_block, lp)
  <2>1. /\ lp[1] \in 0 .. 3 /\ lp[2][1] \in 0 .. EXT2_NDIR_BLOCKS + 2
    BY <1>10 DEF Leads
  <2>2. /\ current_block' = File.i_block[lp[2][1]]
        /\ pc' = IF lp[1] = 0 THEN "read" ELSE "walk"
    BY <1>1, <1>7, <2>1
  <2>3. Leads(disk', File', file_block', <<level', pos'>>)
    BY <1>1, <1>2, <1>6, <1>10 DEF Leads
  <2>4. current_block' = Down(disk', File'.i_block, pos', 0)
    BY <1>1, <1>6, <2>2 DEF Down
  <2>5. Mapped'
    BY <1>1, <2>1, <2>2, <2>3, <2>4 DEF Mapped
  <2>6. ReadOK'
    BY <1>4, <1>5, <2>2, <2>5 DEF ReadOK, NotReading, Reading
  <2>7. ReadsFile'
    BY <2>2 DEF ReadsFile
  <2> QED BY <1>2, <1>5, <2>6, <2>7 DEF Ext2Inv
<1>11. CASE /\ lp = <<0, <<file_block>> >> /\ file_block \notin 0 .. EXT2_NDIR_BLOCKS + 2
            /\ \A b : ~BlockOf(disk, File, file_block, b)
  <2>1. pc' = "undefined"
    BY <1>1, <1>7, <1>11
  <2>2. ReadOK'
    BY <2>1 DEF ReadOK, NotReading, Reading
  <2>3. ReadsFile'
    BY <1>2, <1>6, <1>11, <2>1 DEF ReadsFile
  <2> QED BY <1>2, <1>5, <2>2, <2>3 DEF Ext2Inv
<1> QED BY <1>9, <1>10, <1>11

\* The next table is got, or the pointer to it is a hole.
LEMMA GetTableStep ==
  ASSUME Ext2Inv, GetTable
  PROVE  Ext2Inv'
<1> DEFINE down(cl) == Down(disk, File.i_block, pos, cl)
<1>1. /\ pc = "walk"
      /\ UNCHANGED <<walkVars, offset, len, file_block, level, pos, current_block, buf, request>>
  BY DEF GetTable
<1>2. Progress /\ Mapped /\ WalkOK /\ BCInv /\ Clean
  BY <1>1 DEF Ext2Inv, ReadOK, Reading
<1>3. /\ current_level \in 0 .. level - 1 /\ current_block = down(current_level)
      /\ Leads(disk, File, file_block, <<level, pos>>)
  BY <1>1, <1>2 DEF Mapped
<1>4. level \in 0 .. 3 /\ \A cl \in 0 .. level : down(cl) \in Pointers
  BY <1>3 DEF Leads
<1>5. current_block \in Pointers
  BY <1>3, <1>4
<1>6. File' = File
  BY <1>1 DEF File, walkVars
<1>7. CASE current_block = 0 /\ pc' = "read" /\ UNCHANGED <<bcVars, current_level>>
  <2>1. BCInv' /\ Clean' /\ disk' = disk
    BY <1>2, <1>7, QuietIsClean
  <2>2. WalkOK' /\ Progress'
    BY <1>1, <1>2, <1>7, <2>1, ProgressStays DEF StillReading, Reading
  <2>3. down(level) = 0
    <3>1. down(current_level) = 0 /\ current_level \in 0 .. level
      BY <1>3, <1>4, <1>7
    <3> QED BY <1>4, <3>1, HoleBelow
  <2>4. Mapped'
    BY <1>1, <1>3, <1>6, <1>7, <2>1, <2>3 DEF Mapped
  <2>5. ReadOK' /\ ReadsFile'
    BY <1>7, <2>2, <2>4 DEF ReadOK, ReadsFile, NotReading, Reading
  <2> QED BY <2>1, <2>2, <2>5 DEF Ext2Inv
<1>8. CASE /\ current_block # 0 /\ bcache_get_block(current_block)
           /\ pc' = "held" /\ current_level' = current_level + 1
  <2>1. current_block \in Blocks
    BY <1>5, <1>8 DEF Pointers
  <2>2. BCInv' /\ Clean' /\ disk' = disk
    BY <1>2, <1>8, <2>1, GetIsClean
  <2>3. WalkOK' /\ Progress'
    BY <1>1, <1>2, <1>8, <2>2, ProgressStays DEF StillReading, Reading
  <2>4. current_level' \in 1 .. level /\ current_level' - 1 = current_level
    BY <1>3, <1>4, <1>8
  <2>5. Mapped'
    BY <1>1, <1>3, <1>6, <1>8, <2>1, <2>2, <2>4 DEF Mapped
  <2>6. ReadOK' /\ ReadsFile'
    BY <1>8, <2>3, <2>5 DEF ReadOK, ReadsFile, NotReading, Reading
  <2> QED BY <2>2, <2>3, <2>6 DEF Ext2Inv
<1> QED BY <1>7, <1>8 DEF GetTable

\* The entry of the table is read, and the table put.
LEMMA PutTableStep ==
  ASSUME Ext2Inv, PutTable
  PROVE  Ext2Inv'
<1> DEFINE down(cl) == Down(disk, File.i_block, pos, cl)
<1>1. /\ pc = "held" /\ bcache_put_block(current_block)
      /\ pc' = IF current_level < level THEN "walk" ELSE "read"
      /\ UNCHANGED <<walkVars, offset, len, file_block, level, pos, current_level, buf, request>>
  BY DEF PutTable
<1>2. Progress /\ Mapped /\ WalkOK /\ BCInv /\ Clean
  BY <1>1 DEF Ext2Inv, ReadOK, Reading
<1>3. /\ current_level \in 1 .. level /\ current_block \in Blocks
      /\ current_block = down(current_level - 1)
      /\ Leads(disk, File, file_block, <<level, pos>>)
  BY <1>1, <1>2 DEF Mapped
<1>4. level \in 0 .. 3 /\ current_level \in 1 .. 3
  BY <1>3 DEF Leads
<1>5. BCInv' /\ Clean' /\ disk' = disk
  BY <1>1, <1>2, <1>3, PutIsClean
<1>6. WalkOK' /\ Progress'
  BY <1>1, <1>2, <1>5, ProgressStays DEF StillReading, Reading
<1>7. File' = File
  BY <1>1 DEF File, walkVars
<1>8. current_block' = down(current_level)
  <2>1. PICK s \in Slots : /\ Found(s, current_block)
                           /\ current_block' = data[s][pos[current_level + 1]]
    BY DEF PutTable
  <2>2. data[s] = disk[current_block]
    BY <1>2, <1>3, <2>1, FoundIsDisk
  <2>3. current_block' = Entry(disk, current_block, pos[current_level + 1])
    <3>1. current_block # 0
      BY <1>3, Ext2WellFormed
    <3> QED BY <2>1, <2>2, <3>1 DEF Entry
  <2>4. PICK cl \in 0 .. 2 : cl = current_level - 1
    BY <1>4
  <2>5. cl + 1 = current_level /\ cl + 2 = current_level + 1
    BY <1>4, <2>4
  <2>6. down(cl + 1) = Entry(disk, down(cl), pos[cl + 2])
    BY <2>4, DownNext
  <2> QED BY <1>3, <2>3, <2>4, <2>5, <2>6
<1>9. Mapped'
  <2>1. Leads(disk', File', file_block', <<level', pos'>>)
    BY <1>1, <1>3, <1>5, <1>7
  <2>2. current_block' = Down(disk', File'.i_block, pos', current_level')
    BY <1>1, <1>5, <1>7, <1>8
  <2>3. CASE current_level < level
    <3>1. pc' = "walk" /\ current_level' \in 0 .. level' - 1
      BY <1>1, <1>3, <1>4, <2>3
    <3> QED BY <2>1, <2>2, <3>1 DEF Mapped
  <2>4. CASE ~(current_level < level)
    <3>1. pc' = "read" /\ current_level' = level'
      BY <1>1, <1>3, <1>4, <2>4
    <3> QED BY <2>1, <2>2, <3>1 DEF Mapped
  <2> QED BY <2>3, <2>4
<1>10. ReadOK' /\ ReadsFile'
  BY <1>1, <1>6, <1>9 DEF ReadOK, ReadsFile, NotReading, Reading
<1> QED BY <1>5, <1>6, <1>10 DEF Ext2Inv

\* The words of a block of the device, and those of a hole.
LEMMA BlockWords ==
  ASSUME BCInv, NEW cb \in Pointers, NEW block, block = IF cb = 0 THEN Hole ELSE disk[cb]
  PROVE  \A k \in Indices : block[k] = Entry(disk, cb, k) /\ block[k] \in AllWords
<1> TAKE k \in Indices
<1>1. CASE cb = 0
  <2>1. Hole[k] = 0
    BY DEF Hole, Indices, BlockSize
  <2> QED BY <1>1, <2>1 DEF Entry, AllWords
<1>2. CASE cb # 0
  <2>1. cb \in Blocks /\ disk[cb] \in Values
    BY <1>2 DEF Pointers, BCInv, BCTypeOK
  <2> QED BY <1>2, <2>1 DEF Entry, AllWords
<1> QED BY <1>1, <1>2

\* A block, or a hole, is delivered.
LEMMA DeliverStep ==
  ASSUME Ext2Inv, ext2_read_inode
  PROVE  Ext2Inv'
<1>1. /\ pc = "read"
      /\ UNCHANGED <<walkVars, offset, level, pos, current_level, current_block, request>>
  BY DEF ext2_read_inode
<1>2. Progress /\ Mapped /\ WalkOK /\ BCInv /\ Clean
  BY <1>1 DEF Ext2Inv, ReadOK, Reading
<1>3. /\ current_block = Down(disk, File.i_block, pos, level)
      /\ Leads(disk, File, file_block, <<level, pos>>)
  BY <1>1, <1>2 DEF Mapped
<1>4. current_block \in Pointers /\ BlockOf(disk, File, file_block, current_block)
  BY <1>3 DEF Leads
<1>5. PICK block : /\ Deliver(block) /\ block = IF current_block = 0 THEN Hole ELSE disk[current_block]
                   /\ BCInv' /\ Clean' /\ disk' = disk
  <2>1. CASE current_block = 0 /\ Deliver(Hole) /\ UNCHANGED bcVars
    BY <1>2, <2>1, QuietIsClean
  <2>2. CASE current_block # 0 /\ bcache_read_block(current_block) /\ Deliver(access'.value)
    <3>1. current_block \in Blocks
      BY <1>4, <2>2 DEF Pointers
    <3>2. BCInv' /\ Clean' /\ disk' = disk /\ access'.value = disk[current_block]
      BY <1>2, <2>2, <3>1, ReadIsClean
    <3>3. PICK v : v = access'.value
      OBVIOUS
    <3>4. Deliver(v)
      BY <2>2, <3>3
    <3> QED BY <2>2, <3>2, <3>3, <3>4
  <2> QED BY <2>1, <2>2 DEF ext2_read_inode
<1>6. \A k \in Indices : block[k] = Entry(disk, current_block, k) /\ block[k] \in AllWords
  BY <1>2, <1>4, <1>5, BlockWords
<1>7. PICK o : o = IF buf = <<>> THEN offset % BlockSize ELSE 0
  OBVIOUS
<1>8. PICK n : n = IF o # 0 THEN IF len < BlockSize - o THEN len ELSE BlockSize - o
                   ELSE IF len >= BlockSize THEN BlockSize ELSE len
  OBVIOUS
<1>9. /\ buf' = buf \o Words(block, o, n)
      /\ len' = len - n /\ file_block' = file_block + 1
      /\ pc' = IF len - n > 0 THEN "map" ELSE "delivered"
  BY <1>5, <1>7, <1>8 DEF Deliver
<1>10. /\ offset \in Nat /\ buf \in Seq(AllWords) /\ len \in Nat \ {0}
       /\ file_block = (offset + Len(buf)) \div BlockSize
       /\ buf # <<>> => (offset + Len(buf)) % BlockSize = 0
       /\ \A k \in 1 .. Len(buf) : WordOf(disk, File, offset + k - 1, buf[k])
       /\ Len(buf) + len = Available(File, request.read[1], request.read[2])
       /\ offset = request.read[1] /\ File.type = "reg"
  BY <1>2 DEF Progress, WalkOK
<1>11. /\ n \in 1 .. len /\ buf' \in Seq(AllWords) /\ Len(buf') = Len(buf) + n
       /\ \A k \in 1 .. Len(buf') : WordOf(disk, File, offset + k - 1, buf'[k])
       /\ n < len => /\ file_block + 1 = (offset + Len(buf')) \div BlockSize
                     /\ (offset + Len(buf')) % BlockSize = 0
  <2>1. DeliverFrom(disk, File, offset, buf, len, file_block, current_block, block, o, n, buf')
    BY <1>4, <1>6, <1>7, <1>8, <1>9, <1>10 DEF DeliverFrom
  <2> QED BY <2>1, Delivering
<1>12. UNCHANGED <<stack, inum, err, offset, request>> /\ File' = File
  BY <1>1 DEF walkVars, File
<1>13. WalkOK'
  BY <1>2, <1>9, <1>12 DEF WalkOK
<1>14. Len(buf) \in Nat /\ n \in Nat
  BY <1>10, <1>11
<1>15. CASE n < len
  <2>a. PICK L \in Nat, m \in Nat : L = Len(buf) /\ m = len
    BY <1>10, <1>14
  <2>b. n < m => m - n > 0 /\ m - n \in Nat \ {0} /\ (L + n) + (m - n) = L + m
    BY ONLY <1>14, m \in Nat, L \in Nat
  <2>1. pc' = "map" /\ len' \in Nat \ {0} /\ Len(buf') + len' = Len(buf) + len
    BY <1>9, <1>11, <1>15, <2>a, <2>b
  <2>2. Progress'
    BY <1>5, <1>9, <1>10, <1>11, <1>12, <1>15, <2>1 DEF Progress
  <2>3. ReadOK' /\ ReadsFile'
    BY <2>1, <2>2 DEF ReadOK, ReadsFile, NotReading, Reading
  <2> QED BY <1>5, <1>13, <2>3 DEF Ext2Inv
<1>16. CASE ~(n < len)
  <2>a. n = len /\ ~(len - n > 0)
    BY <1>10, <1>11, <1>16
  <2>1. pc' = "delivered" /\ Len(buf') = Len(buf) + len
    BY <1>9, <1>11, <2>a
  <2>2. ReadOK'
    BY <2>1 DEF ReadOK, NotReading, Reading
  <2>3. ReadsFile'
    BY <1>5, <1>10, <1>11, <1>12, <2>1 DEF ReadsFile
  <2> QED BY <1>5, <1>13, <2>2, <2>3 DEF Ext2Inv
<1> QED BY <1>15, <1>16

\* The last frame, and what is left of the stack without it.
LEMMA StackFacts ==
  ASSUME stack \in Seq(Frames), stack # <<>>
  PROVE  /\ Len(stack) \in Nat \ {0} /\ Top \in Frames
         /\ Top.comps \in Components /\ Top.dir \in DOMAIN Inodes
         /\ SubSeq(stack, 1, Len(stack) - 1) \in Seq(Frames)
<1>1. Len(stack) \in Nat \ {0} /\ Top \in Frames
  BY DEF Top
<1>2. Top.comps \in Components /\ Top.dir \in DOMAIN Inodes
  BY <1>1 DEF Frames
<1>3. SubSeq(stack, 1, Len(stack) - 1) \in Seq(Frames)
  BY <1>1
<1> QED BY <1>1, <1>2, <1>3

\* What follows the first component of a path that has more.
LEMMA TailIsPath ==
  ASSUME NEW p \in Components, Len(p) # 1
  PROVE  Tail(p) \in Components
<1>0. p \in Seq(STRING) /\ p # <<>>
  BY DEF Components
<1>1. p \in Seq(STRING) /\ p # <<>> /\ Len(p) \in Nat /\ Len(p) # 0 /\ Len(p) # 1
  BY <1>0
<1>2. Tail(p) \in Seq(STRING) /\ Len(Tail(p)) = Len(p) - 1
  BY <1>1
<1>3. Tail(p) # <<>>
  <2>0. PICK q \in Seq(STRING) : q = Tail(p)
    BY <1>2
  <2>1. q = Tail(p) /\ Len(q) # 0
    <3>1. PICK n \in Nat : n = Len(p) /\ n # 0 /\ n # 1
      BY <1>1
    <3>2. n - 1 # 0
      BY <3>1
    <3> QED BY <1>2, <2>0, <3>1, <3>2
  <2>2. q # <<>>
    BY <2>1
  <2> QED BY <2>1, <2>2
<1> QED BY <1>2, <1>3 DEF Components

\* ext2_walk() keeps the stack in order.
LEMMA WalkKeepsStack ==
  ASSUME WalkOK, ext2_walk
  PROVE  inum' = inum /\ stack' \in Seq(Frames) /\ stack' # <<>>
<1> DEFINE ino == Inodes[inum]
<1>1. stack \in Seq(Frames) /\ stack # <<>> /\ inum \in DOMAIN Inodes
  BY DEF WalkOK, ext2_walk
<1>2. Len(stack) \in Nat \ {0} /\ Top.comps \in Components /\ Top.dir \in DOMAIN Inodes
  BY <1>1, StackFacts
<1>3. ASSUME NEW e, Fail(e) PROVE inum' = inum /\ stack' \in Seq(Frames) /\ stack' # <<>>
  BY <1>1, <1>3 DEF Fail
<1>4. ASSUME NEW dir \in DOMAIN Inodes, NextComponent(dir)
      PROVE  inum' = inum /\ stack' \in Seq(Frames) /\ stack' # <<>>
  <2>1. CASE Last
    BY <1>1, <1>4, <2>1 DEF NextComponent
  <2>2. CASE ~Last
    <3>1. Tail(Top.comps) \in Components
      BY <1>2, <2>2, TailIsPath DEF Last
    <3>2. PICK f \in Frames : f = [comps |-> Tail(Top.comps), dir |-> dir]
      BY <3>1 DEF Frames
    <3>3. stack' = [stack EXCEPT ![Len(stack)] = f] /\ inum' = inum
      BY <1>4, <2>2, <3>2 DEF NextComponent, Top
    <3>4. stack' \in Seq(Frames) /\ Len(stack') = Len(stack)
      BY <1>1, <3>3
    <3> QED BY <1>2, <3>3, <3>4
  <2> QED BY <2>1, <2>2
<1>5. CASE ino.type = "lnk"
  <2>1. FollowLink(ino.link)
    BY <1>5 DEF ext2_walk
  <2>2. CASE Len(stack) + 1 > MAX_RECURSE
    BY <1>3, <2>1, <2>2 DEF FollowLink
  <2>3. CASE ~(Len(stack) + 1 > MAX_RECURSE)
    <3>1. ino.link.comps \in Components
      BY <1>1, <1>5, Ext2WellFormed
    <3>2. PICK d \in DOMAIN Inodes : d = IF ino.link.absolute THEN EXT2_ROOT_INO ELSE Top.dir
      BY <1>2, Ext2Assumption
    <3>3. PICK f \in Frames : f = [comps |-> ino.link.comps, dir |-> d]
      BY <3>1 DEF Frames
    <3>4. stack' = Append(stack, f) /\ inum' = inum
      BY <2>1, <2>3, <3>2, <3>3 DEF FollowLink
    <3>5. stack' \in Seq(Frames) /\ Len(stack') = Len(stack) + 1
      BY <1>1, <3>4
    <3> QED BY <1>2, <3>4, <3>5
  <2> QED BY <2>2, <2>3
<1>6. CASE ino.type = "dir"
  <2>1. NextComponent(inum)
    BY <1>6 DEF ext2_walk
  <2> QED BY <1>1, <1>4, <2>1
<1>7. CASE ino.type \notin {"lnk", "dir"}
  <2>1. IF Last THEN NextComponent(Top.dir) ELSE Fail("not found")
    BY <1>7 DEF ext2_walk
  <2> QED BY <1>2, <1>3, <1>4, <2>1
<1> QED BY <1>5, <1>6, <1>7

\* Nothing is walked and nothing is asked for.
LEMMA NoRequest ==
  /\ <<>> \in Seq(Frames) /\ EXT2_ROOT_INO \in DOMAIN Inodes
  /\ [path |-> <<>>, read |-> <<0, 0>>] \in [path : Seq(STRING), read : Nat \X Nat]
<1>1. <<>> \in Seq(STRING) /\ <<0, 0>> \in Nat \X Nat
  OBVIOUS
<1>2. PICK r \in Nat \X Nat : r = <<0, 0>>
  BY <1>1
<1>3. PICK p \in Seq(STRING) : p = <<>>
  BY <1>1
<1>4. [path |-> p, read |-> r] \in [path : Seq(STRING), read : Nat \X Nat]
  OBVIOUS
<1> QED BY <1>2, <1>3, <1>4, Ext2Assumption

\* Every step of ext2 keeps the invariant.
LEMMA Ext2KeepsInv ==
  ASSUME Ext2Inv, [Ext2Next]_ext2Vars
  PROVE  Ext2Inv'
<1>0. BCInv /\ Clean /\ WalkOK /\ ReadOK /\ ReadsFile
  BY DEF Ext2Inv
<1>b. Inodes[inum].block \in Blocks
  BY <1>0, Ext2WellFormed DEF WalkOK
<1>1. ASSUME NEW path \in Paths, ext2_open_file(path) PROVE Ext2Inv'
  <2>1. BCInv' /\ Clean'
    BY <1>0, <1>1, QuietIsClean DEF ext2_open_file
  <2>2. path \in Components /\ path \in Seq(STRING) /\ EXT2_ROOT_INO \in DOMAIN Inodes
    BY Ext2Assumption DEF Components
  <2>3. [comps |-> path, dir |-> EXT2_ROOT_INO] \in Frames
    BY <2>2 DEF Frames
  <2>4. stack' \in Seq(Frames) /\ stack' # <<>> /\ inum' = inum
    BY <1>1, <2>3 DEF ext2_open_file
  <2>5. request' \in [path : Seq(STRING), read : Nat \X Nat]
    BY <1>1, <2>2 DEF ext2_open_file
  <2>6. WalkOK'
    BY <1>0, <2>4, <2>5 DEF WalkOK
  <2>7. ReadOK' /\ ReadsFile'
    BY <1>0, <1>1, StillNotReading DEF ext2_open_file, NotReading, readVars
  <2> QED BY <2>1, <2>6, <2>7 DEF Ext2Inv
<1>2. CASE ext2_dir_lookup
  <2>1. BCInv' /\ Clean'
    BY <1>0, <1>2, QuietIsClean DEF ext2_dir_lookup
  <2>2. stack \in Seq(Frames) /\ stack # <<>>
    BY <1>0, <1>2 DEF WalkOK, ext2_dir_lookup
  <2>3. Top.dir \in DOMAIN Inodes
    BY <2>2, StackFacts
  <2>4. inum' \in DOMAIN Inodes /\ stack' = stack /\ request' = request
    <3>1. \A n \in DOMAIN Inodes[Top.dir].names : Inodes[Top.dir].names[n] \in DOMAIN Inodes
      BY <2>3, Ext2WellFormed
    <3> QED BY <1>0, <1>2, <3>1 DEF WalkOK, ext2_dir_lookup, Fail
  <2>5. WalkOK'
    BY <1>0, <2>2, <2>4 DEF WalkOK
  <2>6. ReadOK' /\ ReadsFile'
    BY <1>0, <1>2, StillNotReading DEF ext2_dir_lookup, Fail, NotReading, readVars
  <2> QED BY <2>1, <2>5, <2>6 DEF Ext2Inv
<1>3. CASE ext2_load_inode("load", "loaded") \/ ext2_load_inode("open", "opening")
  <2>1. BCInv' /\ Clean'
    BY <1>0, <1>b, <1>3, GetIsClean DEF ext2_load_inode
  <2>2. WalkOK'
    BY <1>0, <1>3 DEF WalkOK, ext2_load_inode, walkVars
  <2>3. ReadOK' /\ ReadsFile'
    BY <1>0, <1>3, StillNotReading DEF ext2_load_inode, NotReading, readVars
  <2> QED BY <2>1, <2>2, <2>3 DEF Ext2Inv
<1>4. CASE ext2_walk
  <2>1. BCInv' /\ Clean'
    BY <1>0, <1>b, <1>4, PutIsClean DEF ext2_walk
  <2>2. inum' = inum /\ stack' \in Seq(Frames) /\ stack' # <<>>
    BY <1>0, <1>4, WalkKeepsStack
  <2>3. WalkOK'
    BY <1>0, <1>4, <2>2 DEF WalkOK, ext2_walk
  <2>4. pc' \in {"lookup", "return", "failed"}
    BY <1>4, WalkGoesOn
  <2>5. ReadOK' /\ ReadsFile'
    BY <1>0, <1>4, <2>4, StillNotReading DEF ext2_walk, NotReading, readVars
  <2> QED BY <2>1, <2>3, <2>5 DEF Ext2Inv
<1>5. CASE Return
  <2> DEFINE rest == SubSeq(stack, 1, Len(stack) - 1)
  <2>1. BCInv' /\ Clean'
    BY <1>0, <1>5, QuietIsClean DEF Return
  <2>2. rest \in Seq(Frames) /\ stack' = rest /\ UNCHANGED <<inum, request, buf>>
    BY <1>0, <1>5, StackFacts DEF WalkOK, Return, readVars
  <2>3. /\ pc = "return" /\ pc' \in {"open", "return", "load"}
        /\ rest = <<>> => pc' = "open"
    BY <1>5 DEF Return
  <2>4. WalkOK'
    BY <1>0, <2>2, <2>3 DEF WalkOK
  <2>5. ReadOK' /\ ReadsFile'
    BY <1>0, <2>2, <2>3, StillNotReading DEF NotReading
  <2> QED BY <2>1, <2>4, <2>5 DEF Ext2Inv
<1>6. CASE Opened
  <2>1. BCInv' /\ Clean'
    BY <1>0, <1>b, <1>6, PutIsClean DEF Opened
  <2>2. WalkOK'
    BY <1>0, <1>6 DEF WalkOK, Opened, walkVars
  <2>3. ReadOK' /\ ReadsFile'
    BY <1>0, <1>6, StillNotReading DEF Opened, NotReading, readVars
  <2> QED BY <2>1, <2>2, <2>3 DEF Ext2Inv
<1>7. ASSUME NEW r \in Reads, ext2_read_file(r[1], r[2]) PROVE Ext2Inv'
  <2>1. r[1] \in Nat /\ r[2] \in Nat
    BY Ext2Assumption
  <2> QED BY <1>7, <2>1, ReadBegins
<1>8. CASE ext2_close_file
  <2>1. BCInv' /\ Clean'
    BY <1>0, <1>8, QuietIsClean DEF ext2_close_file
  <2>2. WalkOK'
    BY <1>8, NoRequest DEF WalkOK, ext2_close_file
  <2>3. pc' = "idle" /\ buf' = <<>>
    BY <1>8 DEF ext2_close_file
  <2>4. ReadOK' /\ ReadsFile'
    BY <2>3 DEF ReadOK, ReadsFile, Reading
  <2> QED BY <2>1, <2>2, <2>4 DEF Ext2Inv
<1>9. CASE UNCHANGED ext2Vars
  <2>1. UNCHANGED bcVars
    BY <1>9 DEF ext2Vars
  <2>2. UNCHANGED <<pc, stack, inum, err, offset, len, file_block, level, pos, current_level,
                    current_block, buf, request>>
    BY <1>9 DEF ext2Vars, walkVars, readVars
  <2>3. BCInv' /\ Clean' /\ disk' = disk
    BY <1>0, <2>1, QuietIsClean
  <2>4. WalkOK'
    BY <1>0, <2>2 DEF WalkOK
  <2>5. File' = File
    BY <2>2 DEF File
  <2>6. ReadsFile'
    BY <1>0, <2>2, <2>3, <2>5 DEF ReadsFile
  <2>7. (Progress <=> Progress') /\ (Mapped <=> Mapped')
    BY <2>2, <2>3, <2>5 DEF Progress, Mapped
  <2>8. ReadOK'
    BY <1>0, <2>2, <2>7 DEF ReadOK
  <2> QED BY <2>3, <2>4, <2>6, <2>8 DEF Ext2Inv
<1> QED BY <1>1, <1>2, <1>3, <1>4, <1>5, <1>6, <1>7, <1>8, <1>9, MapStep, GetTableStep,
           PutTableStep, DeliverStep DEF Ext2Next, Ext2Step

\* A mounted file system with nothing open satisfies the invariant.
LEMMA Ext2InitInv == Ext2Init => Ext2Inv
<1> SUFFICES ASSUME Ext2Init PROVE Ext2Inv
  OBVIOUS
<1>1. BCInv
  BY BCInitInv DEF Ext2Init
<1>2. Clean
  BY DEF Ext2Init, BCInit, Clean
<1>3. WalkOK
  BY NoRequest DEF Ext2Init, WalkOK
<1>4. pc = "idle" /\ buf = <<>>
  BY DEF Ext2Init
<1>5. ReadOK /\ ReadsFile
  BY <1>4 DEF ReadOK, ReadsFile, Reading
<1> QED BY <1>1, <1>2, <1>3, <1>5 DEF Ext2Inv

\* ext2_read_file() delivers the words of the file from the offset on, up to its end, for every
\* file system whose pointers lead to blocks, whatever the cache has to fetch or evict on the
\* way; and i_block is indexed out of bounds only for a block that no pointer leads to.
THEOREM Ext2ReadsTheFile == Ext2Spec => []ReadsFile
<1>1. Ext2Inv => ReadsFile
  BY DEF Ext2Inv
<1>2. Ext2Inv /\ [Ext2Next]_ext2Vars => Ext2Inv'
  BY Ext2KeepsInv
<1> QED BY <1>1, <1>2, Ext2InitInv, PTL DEF Ext2Spec

-----------------------------------------------------------------------------
(* Walking: the definition of Resolve unfolds.                             *)

\* The definition of Resolve in parts, with the function that it refers to as a parameter:
\* where the first component leads, with a link followed, and what follows from there.
Target(q) ==
  IF Head(q.path) \in DOMAIN Inodes[q.dir].names THEN Inodes[q.dir].names[Head(q.path)] ELSE 0
Inside(q, link) ==
  [fuel |-> q.fuel - 1, path |-> link.comps,
   dir |-> IF link.absolute THEN EXT2_ROOT_INO ELSE q.dir]
Behind(q, r) == [fuel |-> q.fuel, path |-> Tail(q.path), dir |-> r]
Through(f, q, t) ==
  IF t = 0 THEN 0
  ELSE IF Inodes[t].type # "lnk" THEN t
  ELSE IF q.fuel = 0 THEN 0
  ELSE f[Inside(q, Inodes[t].link)]
From(f, q, r) ==
  IF Len(q.path) = 1 \/ r = 0 THEN r
  ELSE IF Inodes[r].type # "dir" THEN 0
  ELSE f[Behind(q, r)]
ResolveBy(f, q) == From(f, q, Through(f, q, Target(q)))

Results == DOMAIN Inodes \cup {0}

\* Both recursive calls are below the call: less fuel, or a shorter path.
BelowQuery ==
  [q \in Queries |-> {p \in Queries : \/ p.fuel < q.fuel
                                      \/ p.fuel = q.fuel /\ Len(p.path) < Len(q.path)}]

\* What a query is made of.
LEMMA QueryFacts ==
  ASSUME NEW q \in Queries
  PROVE  /\ q.fuel \in 0 .. MAX_RECURSE /\ q.dir \in DOMAIN Inodes /\ q.path \in Components
         /\ q.fuel \in Nat /\ Len(q.path) \in Nat /\ MAX_RECURSE \in Nat
<1>1. q.fuel \in 0 .. MAX_RECURSE /\ q.dir \in DOMAIN Inodes /\ q.path \in Components
  BY DEF Queries
<1>2. q.path \in Seq(STRING)
  BY <1>1 DEF Components
<1> QED BY <1>1, <1>2, Ext2Assumption

\* The call for a link is below.
LEMMA InsideFacts ==
  ASSUME NEW q \in Queries, q.fuel # 0, NEW t \in DOMAIN Inodes, Inodes[t].type = "lnk"
  PROVE  LET p == Inside(q, Inodes[t].link)
         IN  p \in Queries /\ p \in BelowQuery[q]
<1> DEFINE link == Inodes[t].link
           p == Inside(q, link)
<1>1. link.comps \in Components
  BY Ext2WellFormed
<1>2. PICK f \in 0 .. MAX_RECURSE : f = q.fuel - 1 /\ f < q.fuel
  BY QueryFacts
<1>3. PICK d \in DOMAIN Inodes : d = IF link.absolute THEN EXT2_ROOT_INO ELSE q.dir
  BY QueryFacts, Ext2Assumption
<1>4. p = [fuel |-> f, path |-> link.comps, dir |-> d]
  BY <1>2, <1>3 DEF Inside
<1>5. p \in Queries /\ p.fuel = f
  BY <1>1, <1>4 DEF Queries
<1> QED BY <1>2, <1>5 DEF BelowQuery

\* The call for the rest of the path is below.
LEMMA BehindFacts ==
  ASSUME NEW q \in Queries, Len(q.path) # 1, NEW r \in DOMAIN Inodes
  PROVE  Behind(q, r) \in Queries /\ Behind(q, r) \in BelowQuery[q]
<1> DEFINE p == Behind(q, r)
<1>1. q.path \in Components /\ q.fuel \in 0 .. MAX_RECURSE
  BY QueryFacts
<1>2. Tail(q.path) \in Components
  BY <1>1, TailIsPath
<1>3. p \in Queries /\ p.fuel = q.fuel /\ p.path = Tail(q.path)
  BY <1>1, <1>2 DEF Behind, Queries
<1>4. Len(Tail(q.path)) < Len(q.path)
  <2>1. q.path \in Seq(STRING) /\ q.path # <<>>
    BY <1>1 DEF Components
  <2>2. Len(Tail(q.path)) = Len(q.path) - 1 /\ Len(q.path) \in Nat
    BY <2>1
  <2> QED BY <2>2
<1> QED BY <1>3, <1>4 DEF BelowQuery

\* Some queries have one with none below it: of those with the least fuel, one with the
\* shortest path.
LEMMA LeastQuery ==
  ASSUME NEW S \in SUBSET Queries, S # {}
  PROVE  \E x \in S : \A y \in S : y \notin BelowQuery[x]
<1> DEFINE F == {q.fuel : q \in S}
<1>1. F \subseteq Nat /\ F # {}
  BY QueryFacts
<1>2. PICK f \in F : \A y \in F : ~(y < f)
  BY <1>1, LeastNat
<1> DEFINE L == {Len(q.path) : q \in {p \in S : p.fuel = f}}
<1>3. L \subseteq Nat /\ L # {}
  BY <1>2, QueryFacts
<1>4. PICK l \in L : \A y \in L : ~(y < l)
  BY <1>3, LeastNat
<1>5. PICK x \in S : x.fuel = f /\ Len(x.path) = l
  BY <1>4
<1>6. ASSUME NEW y \in S, y \in BelowQuery[x] PROVE FALSE
  <2>1. y.fuel < x.fuel \/ (y.fuel = x.fuel /\ Len(y.path) < Len(x.path))
    BY <1>6 DEF BelowQuery
  <2>2. y.fuel \in F
    OBVIOUS
  <2>3. ~(y.fuel < f)
    BY <1>2, <2>2
  <2>4. y.fuel = f => Len(y.path) \in L
    OBVIOUS
  <2> QED BY <1>4, <1>5, <2>1, <2>3, <2>4
<1> QED BY <1>5, <1>6

\* Resolve satisfies its definition.
LEMMA ResolveUnfolds ==
  ASSUME NEW q \in Queries
  PROVE  Resolve[q] = From(Resolve, q, Through(Resolve, q, Target(q)))
<1> DEFINE T == [g \in [Queries -> Results] |-> [x \in Queries |-> ResolveBy(g, x)]]
<1>1. Results # {} /\ 0 \in Results
  BY DEF Results
<1>2. ASSUME NEW x \in Queries PROVE Target(x) \in Results
  <2>1. \A n \in DOMAIN Inodes[x.dir].names : Inodes[x.dir].names[n] \in DOMAIN Inodes
    BY QueryFacts, Ext2WellFormed
  <2> QED BY <2>1 DEF Target, Results
<1>3. ASSUME NEW g \in [Queries -> Results], NEW x \in Queries, NEW t \in Results
      PROVE  Through(g, x, t) \in Results
  <2>1. CASE t = 0 \/ Inodes[t].type # "lnk" \/ x.fuel = 0
    BY <2>1, <1>1 DEF Through
  <2>2. CASE ~(t = 0 \/ Inodes[t].type # "lnk" \/ x.fuel = 0)
    <3>1. t \in DOMAIN Inodes
      BY <2>2 DEF Results
    <3>2. Inside(x, Inodes[t].link) \in Queries
      BY <2>2, <3>1, InsideFacts
    <3> QED BY <2>2, <3>2 DEF Through
  <2> QED BY <2>1, <2>2
<1>4. ASSUME NEW g \in [Queries -> Results], NEW x \in Queries, NEW r \in Results
      PROVE  From(g, x, r) \in Results
  <2>1. CASE Len(x.path) = 1 \/ r = 0 \/ Inodes[r].type # "dir"
    BY <2>1, <1>1 DEF From
  <2>2. CASE ~(Len(x.path) = 1 \/ r = 0 \/ Inodes[r].type # "dir")
    <3>1. r \in DOMAIN Inodes
      BY <2>2 DEF Results
    <3>2. Behind(x, r) \in Queries
      BY <2>2, <3>1, BehindFacts
    <3> QED BY <2>2, <3>2 DEF From
  <2> QED BY <2>1, <2>2
<1>5. \A g \in [Queries -> Results] : T[g] \in [Queries -> Results]
  <2> TAKE g \in [Queries -> Results]
  <2>1. \A x \in Queries : ResolveBy(g, x) \in Results
    BY <1>2, <1>3, <1>4 DEF ResolveBy
  <2> QED BY <2>1
<1>6. T \in [[Queries -> Results] -> [Queries -> Results]]
  BY <1>5
<1>7. ASSUME NEW g \in [Queries -> Results], NEW h \in [Queries -> Results], NEW x \in Queries,
             \A y \in Queries : y \in BelowQuery[x] => g[y] = h[y]
      PROVE  T[g][x] = T[h][x]
  <2>1. PICK t \in Results : t = Target(x)
    BY <1>2
  <2>2. Through(g, x, t) = Through(h, x, t)
    <3>1. CASE t = 0 \/ Inodes[t].type # "lnk" \/ x.fuel = 0
      BY <3>1 DEF Through
    <3>2. CASE ~(t = 0 \/ Inodes[t].type # "lnk" \/ x.fuel = 0)
      <4>1. t \in DOMAIN Inodes
        BY <3>2 DEF Results
      <4>2. g[Inside(x, Inodes[t].link)] = h[Inside(x, Inodes[t].link)]
        BY <1>7, <3>2, <4>1, InsideFacts
      <4> QED BY <3>2, <4>2 DEF Through
    <3> QED BY <3>1, <3>2
  <2>3. PICK r \in Results : r = Through(g, x, t)
    BY <1>3
  <2>4. From(g, x, r) = From(h, x, r)
    <3>1. CASE Len(x.path) = 1 \/ r = 0 \/ Inodes[r].type # "dir"
      BY <3>1 DEF From
    <3>2. CASE ~(Len(x.path) = 1 \/ r = 0 \/ Inodes[r].type # "dir")
      <4>1. r \in DOMAIN Inodes
        BY <3>2 DEF Results
      <4>2. g[Behind(x, r)] = h[Behind(x, r)]
        BY <1>7, <3>2, <4>1, BehindFacts
      <4> QED BY <3>2, <4>2 DEF From
    <3> QED BY <3>1, <3>2
  <2> QED BY <2>1, <2>2, <2>3, <2>4 DEF ResolveBy
<1>8. PICK f \in [Queries -> Results] : f = T[f]
  <2> HIDE DEF T
  <2>1. WellFounded(Queries, Results, BelowQuery, T)
    BY <1>1, <1>6, <1>7, LeastQuery DEF WellFounded
  <2> QED BY <2>1, RecursionHasSolution
<1>9. f = [x \in Queries |-> ResolveBy(f, x)]
  BY <1>8
<1>10. Resolve = CHOOSE g : g = [x \in Queries |-> ResolveBy(g, x)]
  BY DEF Resolve, ResolveBy, From, Through, Target, Inside, Behind
<1> HIDE DEF Resolve
<1>11. Resolve = [x \in Queries |-> ResolveBy(Resolve, x)]
  BY <1>9, <1>10
<1>12. Resolve[q] = ResolveBy(Resolve, q)
  BY <1>11
<1> QED BY <1>12 DEF ResolveBy

-----------------------------------------------------------------------------
(* The calls of ext2_walk() on the stack compute Resolve.                  *)

\* The query that the i-th call has left to answer.
Query(st, i) == [fuel |-> MAX_RECURSE - i, path |-> st[i].comps, dir |-> st[i].dir]

Goal(path) == Resolve[[fuel |-> MAX_RECURSE - 1, path |-> path, dir |-> EXT2_ROOT_INO]]

\* v[i] is what the i-th call is to return: each goes on with what the one it made returns, and
\* a call that finds nothing makes all of them find nothing.
Chain(st, goal, v) ==
  /\ v[1] = goal
  /\ \A i \in 1 .. Len(st) - 1 : v[i] = From(Resolve, Query(st, i), v[i + 1])
  /\ \A i \in 1 .. Len(st) : v[i] = 0 => goal = 0

\* What the last call is to return, seen from where it is.
Now(p, st, n, x) ==
  LET q == Query(st, Len(st))
  IN  /\ p = "lookup" => x = Resolve[q]
      /\ p \in {"load", "loaded"} => x = From(Resolve, q, Through(Resolve, q, n))
      /\ p = "return" => x = n /\ Inodes[n].type # "lnk"

OnTheWay(p, st, n, goal) ==
  Len(st) \in 1 .. MAX_RECURSE /\ \E v : Chain(st, goal, v) /\ Now(p, st, n, v[Len(st)])

Walking == {"lookup", "load", "loaded", "return"}

WalkRef(p, st, n, goal) ==
  /\ p \in Walking => OnTheWay(p, st, n, goal)
  /\ p \in {"open", "opening", "opened"} => n = goal
  /\ p = "failed" => goal = 0

\* The query of a call that is not deeper than is allowed.
LEMMA QueryIsQuery ==
  ASSUME NEW st \in Seq(Frames), NEW i \in 1 .. Len(st), i <= MAX_RECURSE
  PROVE  /\ Query(st, i) \in Queries /\ Query(st, i).fuel = MAX_RECURSE - i
         /\ Query(st, i).path = st[i].comps /\ Query(st, i).dir = st[i].dir
<1>1. st[i] \in Frames
  OBVIOUS
<1>2. PICK fr \in Frames : fr = st[i]
  BY <1>1
<1>3. fr.comps \in Components /\ fr.dir \in DOMAIN Inodes
  BY DEF Frames
<1>4. MAX_RECURSE - i \in 0 .. MAX_RECURSE
  BY Ext2Assumption
<1>5. PICK k \in 0 .. MAX_RECURSE : k = MAX_RECURSE - i
  BY <1>4
<1>6. [fuel |-> k, path |-> fr.comps, dir |-> fr.dir] \in Queries
  BY <1>3 DEF Queries
<1> QED BY <1>2, <1>5, <1>6 DEF Query

\* Nothing found is nothing found further up.
LEMMA FailsWhole ==
  ASSUME NEW st, NEW goal, NEW v, Chain(st, goal, v), Len(st) \in Nat \ {0}, v[Len(st)] = 0
  PROVE  goal = 0
BY DEF Chain

\* A call is made: its answer is appended.
LEMMA ChainPush ==
  ASSUME NEW st \in Seq(Frames), Len(st) \in Nat \ {0}, NEW fr \in Frames, NEW goal, NEW v, NEW x,
         Chain(st, goal, v), v[Len(st)] = From(Resolve, Query(st, Len(st)), x)
  PROVE  \E u : Chain(Append(st, fr), goal, u) /\ u[Len(st) + 1] = x
<1> DEFINE m == Len(st)
           new == Append(st, fr)
           u == [i \in 1 .. m + 1 |-> IF i <= m THEN v[i] ELSE x]
<1>1. Len(new) = m + 1 /\ \A i \in 1 .. m : new[i] = st[i]
  OBVIOUS
<1>2. \A i \in 1 .. m : Query(new, i) = Query(st, i)
  BY <1>1 DEF Query
<1>3. u[m + 1] = x /\ \A i \in 1 .. m : u[i] = v[i]
  OBVIOUS
<1> HIDE DEF new, u
<1>4. u[1] = goal
  BY <1>3 DEF Chain
<1>5. ASSUME NEW i \in 1 .. m PROVE u[i] = From(Resolve, Query(new, i), u[i + 1])
  <2>1. CASE i = m
    BY <1>2, <1>3, <2>1
  <2>2. CASE i # m
    <3>1. i \in 1 .. m - 1 /\ i + 1 \in 1 .. m
      BY <2>2
    <3>2. v[i] = From(Resolve, Query(st, i), v[i + 1])
      BY <3>1 DEF Chain
    <3> QED BY <1>2, <1>3, <3>1, <3>2
  <2> QED BY <2>1, <2>2
<1>6. \A i \in 1 .. m : u[i] = 0 => goal = 0
  BY <1>3 DEF Chain
<1>7. u[m + 1] = 0 => goal = 0
  <2>1. u[m] = From(Resolve, Query(new, m), u[m + 1])
    BY <1>5
  <2>2. u[m + 1] = 0 => u[m] = 0
    BY <2>1 DEF From
  <2> QED BY <1>6, <2>2
<1>8. (m + 1) - 1 = m /\ \A i \in 1 .. m + 1 : i \in 1 .. m \/ i = m + 1
  OBVIOUS
<1>9. Chain(new, goal, u)
  BY <1>1, <1>4, <1>5, <1>6, <1>7, <1>8 DEF Chain
<1> QED BY <1>3, <1>9 DEF new

\* A call returns.
LEMMA ChainPop ==
  ASSUME NEW st \in Seq(Frames), Len(st) \in Nat, Len(st) > 1, NEW goal, NEW v,
         Chain(st, goal, v), NEW rest, rest = SubSeq(st, 1, Len(st) - 1)
  PROVE  /\ Chain(rest, goal, v) /\ Len(rest) = Len(st) - 1
         /\ v[Len(rest)] = From(Resolve, Query(rest, Len(rest)), v[Len(st)])
<1> DEFINE m == Len(st)
<1>1. Len(rest) = m - 1 /\ \A i \in 1 .. m - 1 : rest[i] = st[i]
  OBVIOUS
<1>2. \A i \in 1 .. m - 1 : Query(rest, i) = Query(st, i)
  BY <1>1 DEF Query
<1>3. \A i \in 1 .. m - 1 : v[i] = From(Resolve, Query(rest, i), v[i + 1])
  BY <1>2 DEF Chain
<1>4. Chain(rest, goal, v)
  <2>1. \A i \in 1 .. Len(rest) - 1 : i \in 1 .. m - 1
    BY <1>1
  <2>2. \A i \in 1 .. Len(rest) : i \in 1 .. m
    BY <1>1
  <2> QED BY <1>3, <2>1, <2>2 DEF Chain
<1>5. m - 1 \in 1 .. m - 1 /\ (m - 1) + 1 = m
  OBVIOUS
<1> QED BY <1>1, <1>3, <1>4, <1>5

\* The last call goes on to another query.
LEMMA ChainReplace ==
  ASSUME NEW st \in Seq(Frames), Len(st) \in Nat \ {0}, NEW fr \in Frames, NEW goal, NEW v,
         Chain(st, goal, v), NEW new, new = [st EXCEPT ![Len(st)] = fr]
  PROVE  Chain(new, goal, v) /\ Len(new) = Len(st) /\ new[Len(st)] = fr
<1>1. Len(new) = Len(st) /\ new[Len(st)] = fr /\ \A i \in 1 .. Len(st) - 1 : new[i] = st[i]
  OBVIOUS
<1>2. \A i \in 1 .. Len(st) - 1 : Query(new, i) = Query(st, i)
  BY <1>1 DEF Query
<1> QED BY <1>1, <1>2 DEF Chain

WalkInv == WalkRef(pc, stack, inum, Goal(request.path))

\* The state of the last call.
LEMMA OnTheWayFacts ==
  ASSUME WalkOK, WalkInv, pc \in Walking
  PROVE  /\ stack \in Seq(Frames) /\ Len(stack) \in 1 .. MAX_RECURSE /\ Len(stack) \in Nat \ {0}
         /\ Query(stack, Len(stack)) \in Queries
         /\ Query(stack, Len(stack)).fuel = MAX_RECURSE - Len(stack)
         /\ Query(stack, Len(stack)).path = Top.comps
         /\ Query(stack, Len(stack)).dir = Top.dir
         /\ \E v : /\ Chain(stack, Goal(request.path), v)
                   /\ Now(pc, stack, inum, v[Len(stack)])
<1>1. stack \in Seq(Frames) /\ Len(stack) \in 1 .. MAX_RECURSE
  BY DEF WalkOK, WalkInv, WalkRef, OnTheWay
<1>2. Len(stack) \in 1 .. Len(stack) /\ Len(stack) <= MAX_RECURSE /\ Len(stack) \in Nat \ {0}
  BY <1>1, Ext2Assumption
<1>3. /\ Query(stack, Len(stack)) \in Queries
      /\ Query(stack, Len(stack)).fuel = MAX_RECURSE - Len(stack)
      /\ Query(stack, Len(stack)).path = stack[Len(stack)].comps
      /\ Query(stack, Len(stack)).dir = stack[Len(stack)].dir
  BY <1>1, <1>2, QueryIsQuery
<1> QED BY <1>1, <1>2, <1>3 DEF WalkInv, WalkRef, OnTheWay, Top

\* A new walk.
LEMMA OpenRef ==
  ASSUME NEW path \in Paths, ext2_open_file(path)
  PROVE  WalkInv'
<1> DEFINE fr == [comps |-> path, dir |-> EXT2_ROOT_INO]
           goal == Goal(path)
<1>1. pc' = "lookup" /\ stack' = <<fr>> /\ request'.path = path
  BY DEF ext2_open_file
<1>2. Len(<<fr>>) = 1 /\ <<fr>>[1] = fr /\ 1 \in 1 .. MAX_RECURSE
  BY Ext2Assumption
<1>3. Query(<<fr>>, 1) = [fuel |-> MAX_RECURSE - 1, path |-> path, dir |-> EXT2_ROOT_INO]
  BY <1>2 DEF Query
<1> DEFINE v == [i \in {1} |-> goal]
<1>4. v[1] = goal
  OBVIOUS
<1> HIDE DEF v
<1>5. Chain(<<fr>>, goal, v)
  <2>1. \A i \in 1 .. 1 - 1 : FALSE
    OBVIOUS
  <2>2. \A i \in 1 .. 1 : i = 1
    OBVIOUS
  <2> QED BY <1>2, <1>4, <2>1, <2>2 DEF Chain
<1>6. Now("lookup", <<fr>>, inum', v[1])
  BY <1>2, <1>3, <1>4 DEF Now, Goal
<1>7. OnTheWay("lookup", <<fr>>, inum', goal)
  BY <1>2, <1>5, <1>6 DEF OnTheWay
<1> QED BY <1>1, <1>7 DEF WalkInv, WalkRef

\* ext2_dir_lookup() finds the target of the query, or there is none.
LEMMA LookupRef ==
  ASSUME WalkOK, WalkInv, ext2_dir_lookup
  PROVE  WalkInv'
<1> DEFINE m == Len(stack)
           q == Query(stack, m)
           goal == Goal(request.path)
<1>1. pc = "lookup" /\ request' = request
  BY DEF ext2_dir_lookup
<1>2. /\ m \in 1 .. MAX_RECURSE /\ m \in Nat \ {0} /\ q \in Queries
      /\ q.path = Top.comps /\ q.dir = Top.dir
      /\ \E v : Chain(stack, goal, v) /\ Now(pc, stack, inum, v[m])
  BY <1>1, OnTheWayFacts DEF Walking
<1>3. PICK v : Chain(stack, goal, v) /\ Now(pc, stack, inum, v[m])
  BY <1>2
<1>4. v[m] = From(Resolve, q, Through(Resolve, q, Target(q)))
  <2>1. v[m] = Resolve[q]
    BY <1>1, <1>3 DEF Now
  <2> QED BY <1>2, <2>1, ResolveUnfolds
<1>5. CASE Head(Top.comps) \in DOMAIN Inodes[Top.dir].names
  <2>1. pc' = "load" /\ inum' = Inodes[Top.dir].names[Head(Top.comps)] /\ stack' = stack
    BY <1>5 DEF ext2_dir_lookup
  <2>2. inum' = Target(q)
    BY <1>2, <1>5, <2>1 DEF Target
  <2>3. Now("load", stack, inum', v[m])
    BY <1>4, <2>2 DEF Now
  <2>4. OnTheWay("load", stack, inum', goal)
    BY <1>2, <1>3, <2>3 DEF OnTheWay
  <2> QED BY <1>1, <2>1, <2>4 DEF WalkInv, WalkRef
<1>6. CASE Head(Top.comps) \notin DOMAIN Inodes[Top.dir].names
  <2>1. pc' = "failed"
    BY <1>6 DEF ext2_dir_lookup, Fail
  <2>2. Target(q) = 0
    BY <1>2, <1>6 DEF Target
  <2>3. v[m] = 0
    BY <1>4, <2>2 DEF Through, From
  <2>4. goal = 0
    BY <1>2, <1>3, <2>3, FailsWhole
  <2> QED BY <1>1, <2>1, <2>4 DEF WalkInv, WalkRef, Walking
<1> QED BY <1>5, <1>6

\* ext2_walk() with the inode in hand.
LEMMA WalkStepRef ==
  ASSUME WalkOK, WalkInv, ext2_walk
  PROVE  WalkInv'
<1> DEFINE m == Len(stack)
           q == Query(stack, m)
           goal == Goal(request.path)
           ino == Inodes[inum]
<1>1. pc = "loaded" /\ request' = request
  BY DEF ext2_walk
<1>2. /\ stack \in Seq(Frames) /\ m \in 1 .. MAX_RECURSE /\ m \in Nat \ {0} /\ q \in Queries
      /\ q.fuel = MAX_RECURSE - m /\ q.path = Top.comps /\ q.dir = Top.dir
      /\ \E v : Chain(stack, goal, v) /\ Now(pc, stack, inum, v[m])
  BY <1>1, OnTheWayFacts DEF Walking
<1>3. PICK v : Chain(stack, goal, v) /\ Now(pc, stack, inum, v[m])
  BY <1>2
<1>4. v[m] = From(Resolve, q, Through(Resolve, q, inum))
  BY <1>1, <1>3 DEF Now
<1>5. inum \in DOMAIN Inodes /\ inum # 0 /\ stack # <<>>
  BY <1>1, Ext2WellFormed DEF WalkOK
<1>6. Top.comps \in Components /\ Top.dir \in DOMAIN Inodes
  BY <1>2, <1>5, StackFacts
<1> HIDE DEF goal
<1>7. ASSUME NEW e, Fail(e), v[m] = 0 PROVE WalkInv'
  <2>1. pc' = "failed"
    BY <1>7 DEF Fail
  <2>2. goal = 0
    BY <1>2, <1>3, <1>7, FailsWhole
  <2> QED BY <1>1, <2>1, <2>2 DEF WalkInv, WalkRef, Walking, goal
<1>8. ASSUME NEW dir, NextComponent(dir), Last, ino.type # "lnk" PROVE WalkInv'
  <2>1. pc' = "return" /\ stack' = stack /\ inum' = inum
    BY <1>8 DEF NextComponent
  <2>2. Through(Resolve, q, inum) = inum
    BY <1>5, <1>8 DEF Through
  <2>3. v[m] = inum
    BY <1>2, <1>4, <1>8, <2>2 DEF From, Last
  <2>4. Now("return", stack, inum, v[m])
    BY <1>8, <2>3 DEF Now
  <2>5. OnTheWay("return", stack, inum, goal)
    BY <1>2, <1>3, <2>4 DEF OnTheWay
  <2> QED BY <1>1, <2>1, <2>5 DEF WalkInv, WalkRef, goal
<1>9. CASE ino.type = "lnk"
  <2>1. FollowLink(ino.link)
    BY <1>9 DEF ext2_walk
  <2>2. CASE m + 1 > MAX_RECURSE
    <3>1. q.fuel = 0
      BY <1>2, <2>2, Ext2Assumption
    <3>2. v[m] = 0
      BY <1>4, <1>5, <1>9, <3>1 DEF Through, From
    <3> QED BY <1>7, <2>1, <2>2, <3>2 DEF FollowLink
  <2>3. CASE ~(m + 1 > MAX_RECURSE)
    <3>1. q.fuel # 0 /\ m + 1 \in 1 .. MAX_RECURSE /\ MAX_RECURSE \in Nat
      BY <1>2, <2>3, Ext2Assumption
    <3>2. v[m] = From(Resolve, q, Resolve[Inside(q, ino.link)])
      BY <1>4, <1>5, <1>9, <3>1 DEF Through
    <3> DEFINE fr == [comps |-> ino.link.comps,
                      dir |-> IF ino.link.absolute THEN EXT2_ROOT_INO ELSE Top.dir]
    <3>3. fr \in Frames
      <4>1. ino.link.comps \in Components
        BY <1>5, <1>9, Ext2WellFormed
      <4>2. PICK d \in DOMAIN Inodes : d = IF ino.link.absolute THEN EXT2_ROOT_INO ELSE Top.dir
        BY <1>6, Ext2Assumption
      <4>3. fr = [comps |-> ino.link.comps, dir |-> d]
        BY <4>2
      <4> QED BY <4>1, <4>3 DEF Frames
    <3>4. pc' = "lookup" /\ stack' = Append(stack, fr)
      BY <2>1, <2>3 DEF FollowLink
    <3>5. Query(stack', m + 1) = Inside(q, ino.link)
      <4>1. stack'[m + 1] = fr
        BY <1>2, <3>4
      <4>2. MAX_RECURSE - (m + 1) = q.fuel - 1
        BY <1>2, <3>1
      <4> QED BY <1>2, <4>1, <4>2 DEF Query, Inside
    <3> HIDE DEF fr
    <3>6. PICK u : /\ Chain(Append(stack, fr), goal, u)
                   /\ u[m + 1] = Resolve[Inside(q, ino.link)]
      BY <1>2, <1>3, <3>2, <3>3, ChainPush
    <3>7. Len(stack') = m + 1
      BY <1>2, <3>4
    <3>8. Now("lookup", stack', inum', u[m + 1])
      BY <3>5, <3>6, <3>7 DEF Now
    <3>9. OnTheWay("lookup", stack', inum', goal)
      BY <3>1, <3>4, <3>6, <3>7, <3>8 DEF OnTheWay
    <3> QED BY <1>1, <3>4, <3>9 DEF WalkInv, WalkRef, goal
  <2> QED BY <2>2, <2>3
<1>10. CASE ino.type = "dir"
  <2>1. NextComponent(inum)
    BY <1>10 DEF ext2_walk
  <2>2. CASE Last
    BY <1>8, <1>10, <2>1, <2>2
  <2>3. CASE ~Last
    <3> DEFINE fr == [comps |-> Tail(Top.comps), dir |-> inum]
    <3>1. pc' = "lookup" /\ stack' = [stack EXCEPT ![m] = fr] /\ inum' = inum
      BY <2>1, <2>3 DEF NextComponent, Top
    <3>2. Tail(Top.comps) \in Components
      BY <1>6, <2>3, TailIsPath DEF Last
    <3>3. fr \in Frames
      BY <1>5, <3>2 DEF Frames
    <3>4. Through(Resolve, q, inum) = inum
      BY <1>5, <1>10 DEF Through
    <3>5. v[m] = Resolve[Behind(q, inum)]
      BY <1>2, <1>4, <1>5, <1>10, <2>3, <3>4 DEF From, Last
    <3>6. PICK f \in Frames : f = fr
      BY <3>3
    <3>7. PICK new : new = stack' /\ new = [stack EXCEPT ![m] = f]
      BY <3>1, <3>6
    <3>8. Chain(new, goal, v) /\ Len(new) = m /\ new[m] = f
      BY <1>2, <1>3, <3>7, ChainReplace
    <3>9. Query(new, m) = Behind(q, inum)
      <4>1. f.comps = Tail(q.path) /\ f.dir = inum
        BY <1>2, <3>6
      <4> QED BY <1>2, <3>8, <4>1 DEF Query, Behind
    <3>10. Now("lookup", new, inum', v[m])
      BY <3>5, <3>8, <3>9 DEF Now
    <3>11. OnTheWay("lookup", new, inum', goal)
      BY <1>2, <3>8, <3>10 DEF OnTheWay
    <3> QED BY <1>1, <3>1, <3>7, <3>11 DEF WalkInv, WalkRef, goal
  <2> QED BY <2>2, <2>3
<1>11. CASE ino.type \notin {"lnk", "dir"}
  <2>1. IF Last THEN NextComponent(Top.dir) ELSE Fail("not found")
    BY <1>11 DEF ext2_walk
  <2>2. CASE Last
    BY <1>8, <1>11, <2>1, <2>2
  <2>3. CASE ~Last
    <3>1. Through(Resolve, q, inum) = inum
      BY <1>5, <1>11 DEF Through
    <3>2. v[m] = 0
      BY <1>2, <1>4, <1>5, <1>11, <2>3, <3>1 DEF From, Last
    <3> QED BY <1>7, <2>1, <2>3, <3>2
  <2> QED BY <2>2, <2>3
<1> QED BY <1>9, <1>10, <1>11

\* A call of ext2_walk() returns.
LEMMA ReturnRef ==
  ASSUME WalkOK, WalkInv, Return
  PROVE  WalkInv'
<1> DEFINE m == Len(stack)
           goal == Goal(request.path)
           rest == SubSeq(stack, 1, m - 1)
<1>1. /\ pc = "return" /\ stack' = rest /\ UNCHANGED <<inum, request>>
      /\ pc' = IF rest = <<>> THEN "open"
               ELSE IF Len(rest[Len(rest)].comps) = 1 THEN "return" ELSE "load"
  BY DEF Return
<1>2. /\ stack \in Seq(Frames) /\ m \in 1 .. MAX_RECURSE /\ m \in Nat \ {0}
      /\ \E v : Chain(stack, goal, v) /\ Now(pc, stack, inum, v[m])
  BY <1>1, OnTheWayFacts DEF Walking
<1>3. PICK v : Chain(stack, goal, v) /\ Now(pc, stack, inum, v[m])
  BY <1>2
<1>4. v[m] = inum /\ Inodes[inum].type # "lnk"
  BY <1>1, <1>3 DEF Now
<1>5. rest \in Seq(Frames) /\ Len(rest) = m - 1
  <2>1. PICK k \in Nat \ {0} : k = m
    BY <1>2
  <2>2. stack \in Seq(Frames) /\ Len(stack) = k
    BY <1>2, <2>1
  <2>3. SubSeq(stack, 1, k - 1) \in Seq(Frames) /\ Len(SubSeq(stack, 1, k - 1)) = k - 1
    BY ONLY k \in Nat \ {0}, <2>2
  <2> QED BY <2>1, <2>3
<1>6. CASE m = 1
  <2>1. rest = <<>>
    BY <1>5, <1>6
  <2>2. inum = goal
    BY <1>3, <1>4, <1>6 DEF Chain
  <2> QED BY <1>1, <2>1, <2>2 DEF WalkInv, WalkRef, Walking
<1>7. CASE m # 1
  <2>1. m \in Nat /\ m > 1 /\ rest # <<>>
    <3>1. m \in Nat /\ m > 1
      <4>1. PICK k \in Nat \ {0} : k = m
        BY <1>2
      <4>2. k > 1
        BY ONLY k \in Nat \ {0}, <4>1, <1>7
      <4> QED BY <4>1, <4>2
    <3> HIDE DEF rest
    <3>2. Len(rest) > 0
      BY <1>5, <3>1
    <3> QED BY <1>5, <3>1, <3>2
  <2>2. PICK r : r = rest
    OBVIOUS
  <2> HIDE DEF goal
  <2> DEFINE q == Query(r, Len(r))
  <2>3. /\ Chain(r, goal, v) /\ Len(r) = m - 1
        /\ v[Len(r)] = From(Resolve, q, inum)
    <3>1. \A w : Chain(stack, goal, w) =>
              /\ Chain(r, goal, w) /\ Len(r) = m - 1
              /\ w[Len(r)] = From(Resolve, Query(r, Len(r)), w[m])
      BY <1>2, <2>1, <2>2, ChainPop
    <3> QED BY <1>3, <1>4, <3>1
  <2>4. Len(r) \in 1 .. MAX_RECURSE /\ Len(r) \in 1 .. Len(r)
    BY <1>2, <2>1, <2>3, Ext2Assumption
  <2>5. q.path = r[Len(r)].comps
    <3>1. r \in Seq(Frames) /\ Len(r) <= MAX_RECURSE
      BY <1>5, <2>2, <2>4, Ext2Assumption
    <3> QED BY <2>4, <3>1, QueryIsQuery
  <2>6. inum # 0
    BY Ext2WellFormed DEF WalkOK
  <2>7. CASE Len(r[Len(r)].comps) = 1
    <3>1. pc' = "return"
      BY <1>1, <2>1, <2>2, <2>7
    <3>2. v[Len(r)] = inum
      BY <2>3, <2>5, <2>7 DEF From
    <3>3. Now("return", r, inum, v[Len(r)])
      BY <1>4, <3>2 DEF Now
    <3>4. OnTheWay("return", r, inum, goal)
      BY <2>3, <2>4, <3>3 DEF OnTheWay
    <3> QED BY <1>1, <2>2, <3>1, <3>4 DEF WalkInv, WalkRef, goal
  <2>8. CASE Len(r[Len(r)].comps) # 1
    <3>1. pc' = "load"
      BY <1>1, <2>1, <2>2, <2>8
    <3>2. Through(Resolve, q, inum) = inum
      BY <1>4, <2>6 DEF Through
    <3>3. Now("load", r, inum, v[Len(r)])
      BY <2>3, <3>2 DEF Now
    <3>4. OnTheWay("load", r, inum, goal)
      BY <2>3, <2>4, <3>3 DEF OnTheWay
    <3> QED BY <1>1, <2>2, <3>1, <3>4 DEF WalkInv, WalkRef, goal
  <2> QED BY <2>7, <2>8
<1> QED BY <1>6, <1>7

\* Every step keeps the stack on its way to what Resolve gives.
LEMMA Ext2KeepsWalk ==
  ASSUME WalkOK, WalkInv, [Ext2Next]_ext2Vars
  PROVE  WalkInv'
<1>1. CASE ext2_load_inode("load", "loaded")
  <2>1. pc = "load" /\ pc' = "loaded" /\ UNCHANGED <<stack, inum, request>>
    BY <1>1 DEF ext2_load_inode, walkVars
  <2>2. OnTheWay("load", stack, inum, Goal(request.path))
    BY <2>1 DEF WalkInv, WalkRef, Walking
  <2>3. OnTheWay("loaded", stack, inum, Goal(request.path))
    BY <2>2 DEF OnTheWay, Now
  <2> QED BY <2>1, <2>3 DEF WalkInv, WalkRef
<1>2. CASE ext2_load_inode("open", "opening") \/ Opened
  <2>1. /\ pc \in {"open", "opening"} /\ pc' \in {"opening", "opened"}
        /\ UNCHANGED <<stack, inum, request>>
    BY <1>2 DEF ext2_load_inode, Opened, walkVars
  <2> QED BY <2>1 DEF WalkInv, WalkRef, Walking
<1>3. CASE \/ \E r \in Reads : ext2_read_file(r[1], r[2])
           \/ file_block_to_fs_block \/ GetTable \/ PutTable \/ ext2_read_inode
           \/ ext2_close_file
  <2>1. pc' \notin Walking \cup {"open", "opening", "opened", "failed"}
    BY <1>3 DEF ext2_read_file, file_block_to_fs_block, GetTable, PutTable, ext2_read_inode,
                Deliver, ext2_close_file, Walking
  <2> QED BY <2>1 DEF WalkInv, WalkRef
<1>4. CASE UNCHANGED ext2Vars
  <2>1. UNCHANGED <<pc, stack, inum, request>>
    BY <1>4 DEF ext2Vars, walkVars
  <2> QED BY <2>1 DEF WalkInv
<1> QED BY <1>1, <1>2, <1>3, <1>4, OpenRef, LookupRef, WalkStepRef, ReturnRef
        DEF Ext2Next, Ext2Step

\* Opening a path gives the inode that Resolve gives, and fails exactly when there is none: for
\* every file system, every path and every bound on the depth of links.
THEOREM Ext2WalkResolves == Ext2Spec => []WalkIsReference
<1>1. WalkInv => WalkIsReference
  BY DEF WalkInv, WalkRef, WalkIsReference, Goal
<1>2. Ext2Init => WalkInv
  BY DEF Ext2Init, WalkInv, WalkRef, Walking
<1>3. Ext2Inv => WalkOK
  BY DEF Ext2Inv
<1>4. Ext2Inv /\ [Ext2Next]_ext2Vars => Ext2Inv'
  BY Ext2KeepsInv
<1>5. Ext2Inv /\ WalkInv /\ [Ext2Next]_ext2Vars => WalkInv'
  BY <1>3, Ext2KeepsWalk
<1> QED BY <1>1, <1>2, <1>4, <1>5, Ext2InitInv, PTL DEF Ext2Spec
=============================================================================
