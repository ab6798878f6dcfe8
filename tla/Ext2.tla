-------------------------------- MODULE Ext2 --------------------------------
(***************************************************************************)
(* The ext2 file system, read only: opening a file by path and reading it  *)
(* (src/lib/fs/ext2: dir.c, file.c, io.c, ext2.c).  All it reads goes      *)
(* through the block cache of BCache, in which it pins a block while it    *)
(* looks into it; every call of the cache is a step.  The device does not  *)
(* fail here (BCache has what happens then).                               *)
(*                                                                         *)
(* Lengths are in words of a block pointer's size.  What a directory or a  *)
(* symbolic link holds is given by Inodes, not by blocks.                  *)
(***************************************************************************)
EXTENDS BCache

CONSTANTS
  EXT2_NDIR_BLOCKS,     \* 12
  EXT2_ADDR_PER_BLOCK,  \* pointers in a block, and so its size in words
  EXT2_ROOT_INO,
  MAX_RECURSE,          \* 4 in ext2_walk()
  Inodes,               \* inode number -> [type, size, i_block, names, link, block]
  Images,               \* the contents of the device that are considered
  Paths,                \* paths to open, as sequences of components
  Reads                 \* pairs of an offset and a length to read

Components == Seq(STRING) \ {<<>>}

ASSUME Ext2Assumption ==
  /\ EXT2_NDIR_BLOCKS \in Nat /\ EXT2_ADDR_PER_BLOCK \in Nat \ {0}
  /\ MAX_RECURSE \in Nat \ {0} /\ EXT2_ROOT_INO \in DOMAIN Inodes
  /\ Paths \subseteq Components /\ Reads \subseteq Nat \X Nat
  /\ MaxPins = 1 /\ MaxRefs = 1

Pointers == Blocks \cup {0}   \* 0 is a hole
Indices == 0 .. EXT2_ADDR_PER_BLOCK - 1

\* The k-th pointer of table b on a device; below a hole there are only holes.
Entry(image, b, k) == IF b = 0 THEN 0 ELSE image[b][k]

\* The trees of a file hold pointers down to its data.  (ext2 does not look at a
\* pointer before it gives it to the cache.)
TreesHold(image, ino) ==
  LET N == EXT2_NDIR_BLOCKS
      E(b, k) == Entry(image, b, k)
  IN  /\ ino.i_block \in [0 .. N + 2 -> Pointers]
      /\ \A i, j, k \in Indices :
           /\ E(ino.i_block[N], i) \in Pointers
           /\ E(ino.i_block[N + 1], i) \in Pointers
           /\ E(E(ino.i_block[N + 1], i), j) \in Pointers
           /\ E(ino.i_block[N + 2], i) \in Pointers
           /\ E(E(ino.i_block[N + 2], i), j) \in Pointers
           /\ E(E(E(ino.i_block[N + 2], i), j), k) \in Pointers

\* The file system is one: numbers of inodes and blocks lead to inodes and blocks.
ASSUME Ext2WellFormed ==
  /\ 0 \notin Blocks /\ 0 \notin DOMAIN Inodes
  /\ \A i \in DOMAIN Inodes :
       LET ino == Inodes[i]
       IN  /\ ino.block \in Blocks
           /\ \A n \in DOMAIN ino.names : ino.names[n] \in DOMAIN Inodes
           /\ ino.type = "lnk" => ino.link.absolute \in BOOLEAN /\ ino.link.comps \in Components
           /\ ino.type = "reg" => /\ ino.size \in Nat
                                  /\ \A image \in Images : TreesHold(image, ino)

VARIABLES
  pc,
  stack,        \* the calls of ext2_walk(): components left, and dir_inode
  inum, err,
  offset, len, file_block,
  level, pos,   \* of ext2_calculate_block_pointer_pos()
  current_level, current_block,
  buf,          \* the words delivered
  request       \* the path, and the offset and length asked for

walkVars == <<stack, inum, err>>
readVars == <<offset, len, file_block, level, pos, current_level, current_block, buf>>
ext2Vars == <<bcVars, pc, walkVars, readVars, request>>

-----------------------------------------------------------------------------
(* dir.c and file.c: opening.                                              *)

Top == stack[Len(stack)]
Last == Len(Top.comps) = 1   \* done

ext2_open_file(path) ==
  /\ pc = "idle"
  /\ pc' = "lookup" /\ stack' = << [comps |-> path, dir |-> EXT2_ROOT_INO] >>
  /\ request' = [path |-> path, read |-> <<0, 0>>]
  /\ UNCHANGED <<bcVars, inum, err, readVars>>

Fail(e) == pc' = "failed" /\ err' = e /\ UNCHANGED <<stack, inum>>

\* ext2_dir_lookup() of the next component.
ext2_dir_lookup ==
  LET names == Inodes[Top.dir].names
      c == Head(Top.comps)
  IN  /\ pc = "lookup"
      /\ IF c \in DOMAIN names
           THEN pc' = "load" /\ inum' = names[c] /\ UNCHANGED <<stack, err>>
           ELSE Fail("not found")
      /\ UNCHANGED <<bcVars, readVars, request>>

\* ext2_load_inode(): bcache_get_block(), then the inode is copied and
\* bcache_put_block() follows.
ext2_load_inode(from, to) ==
  /\ pc = from /\ bcache_get_block(Inodes[inum].block)
  /\ pc' = to /\ UNCHANGED <<walkVars, readVars, request>>

\* As below, but a relative link starts at the root too.
FollowLink_Faulty(link) ==
  IF Len(stack) + 1 > MAX_RECURSE THEN Fail("too deep")
  ELSE /\ pc' = "lookup"
       /\ stack' = Append(stack, [comps |-> link.comps, dir |-> EXT2_ROOT_INO])
       /\ UNCHANGED <<inum, err>>

\* As below, but the link replaces the path and the depth is not counted.
FollowLink_Loop_Faulty(link) ==
  /\ pc' = "lookup"
  /\ stack' = [stack EXCEPT ![Len(stack)] = [comps |-> link.comps, dir |-> @.dir]]
  /\ UNCHANGED <<inum, err>>

\* The recursive call of ext2_walk() for a symbolic link.
FollowLink(link) ==
  IF Len(stack) + 1 > MAX_RECURSE THEN Fail("too deep")
  ELSE /\ pc' = "lookup"
       /\ stack' = Append(stack, [comps |-> link.comps,
                                  dir |-> IF link.absolute THEN EXT2_ROOT_INO ELSE Top.dir])
       /\ UNCHANGED <<inum, err>>

\* The component is dealt with; dir is where the next one is looked up.
NextComponent(dir) ==
  /\ IF Last THEN pc' = "return" /\ UNCHANGED stack
     ELSE /\ pc' = "lookup"
          /\ stack' = [stack EXCEPT ![Len(stack)] = [comps |-> Tail(@.comps), dir |-> dir]]
  /\ UNCHANGED <<inum, err>>

\* ext2_walk() with the inode of a component.
ext2_walk ==
  LET ino == Inodes[inum]
  IN  /\ pc = "loaded" /\ bcache_put_block(ino.block)
      /\ CASE ino.type = "lnk" -> FollowLink(ino.link)
           [] ino.type = "dir" -> NextComponent(inum)
           [] OTHER -> IF Last THEN NextComponent(Top.dir) ELSE Fail("not found")
      /\ UNCHANGED <<readVars, request>>

\* ext2_walk() returns, to itself or to ext2_lookup().
Return ==
  LET rest == SubSeq(stack, 1, Len(stack) - 1)
  IN  /\ pc = "return"
      /\ stack' = rest
      /\ pc' = IF rest = <<>> THEN "open"
               ELSE IF Len(rest[Len(rest)].comps) = 1 THEN "return" ELSE "load"
      /\ UNCHANGED <<bcVars, inum, err, readVars, request>>

\* ext2_open_file() has the inode of the file.
Opened ==
  /\ pc = "opening" /\ bcache_put_block(Inodes[inum].block)
  /\ pc' = "opened" /\ UNCHANGED <<walkVars, readVars, request>>

-----------------------------------------------------------------------------
(* io.c: reading.                                                          *)

BlockSize == EXT2_ADDR_PER_BLOCK
File == Inodes[inum]

\* As below, but the blocks behind the first indirect block are not counted.
ext2_calculate_block_pointer_pos_Faulty(n) ==
  LET a == EXT2_ADDR_PER_BLOCK
      n1 == n - EXT2_NDIR_BLOCKS
  IN  CASE n < EXT2_NDIR_BLOCKS -> <<0, <<n>> >>
        [] n1 >= 0 /\ n1 < a -> <<1, <<EXT2_NDIR_BLOCKS, n1>> >>
        [] n1 >= a /\ n1 < a * a -> <<2, <<EXT2_NDIR_BLOCKS + 1, n1 \div a, n1 % a>> >>
        [] OTHER -> <<0, <<n>> >>

\* The level and the positions; a block behind the last one leaves level at 0.
ext2_calculate_block_pointer_pos(n) ==
  LET a == EXT2_ADDR_PER_BLOCK
      n1 == n - EXT2_NDIR_BLOCKS
      n2 == n1 - a
      n3 == n2 - a * a
  IN  CASE n1 < 0 -> <<0, <<n>> >>
        [] n1 >= 0 /\ n1 < a -> <<1, <<EXT2_NDIR_BLOCKS, n1>> >>
        [] n2 >= 0 /\ n2 < a * a -> <<2, <<EXT2_NDIR_BLOCKS + 1, n2 \div a, n2 % a>> >>
        [] n3 >= 0 /\ n3 < a * a * a ->
             <<3, <<EXT2_NDIR_BLOCKS + 2, n3 \div (a * a), (n3 % (a * a)) \div a,
                    (n3 % (a * a)) % a>> >>
        [] OTHER -> <<0, <<n>> >>

\* As below, without trimming to the file's size.
Trim_Faulty(o, n) == n

\* What ext2_read_inode() reads of a length n at o.
Trim(o, n) == IF o > File.size THEN 0 ELSE IF o + n >= File.size THEN File.size - o ELSE n

\* ext2_read_file(): the start of ext2_read_inode().
ext2_read_file(o, n) ==
  /\ pc = "opened"
  /\ request' = [request EXCEPT !.read = <<o, n>>]
  /\ IF File.type # "reg" \/ Trim(o, n) = 0
       THEN pc' = "delivered" /\ UNCHANGED <<offset, len, file_block>>
       ELSE /\ pc' = "map" /\ offset' = o /\ len' = Trim(o, n)
            /\ file_block' = o \div BlockSize
  /\ UNCHANGED <<bcVars, walkVars, level, pos, current_level, current_block, buf>>

\* file_block_to_fs_block(): i_block is an array of EXT2_NDIR_BLOCKS + 3; an
\* index behind it is undefined behaviour, with which the model ends.
file_block_to_fs_block ==
  LET lp == ext2_calculate_block_pointer_pos(file_block)
  IN  /\ pc = "map"
      /\ level' = lp[1] /\ pos' = lp[2] /\ current_level' = 0
      /\ IF lp[2][1] \in DOMAIN File.i_block
           THEN /\ current_block' = File.i_block[lp[2][1]]
                /\ pc' = IF lp[1] = 0 THEN "read" ELSE "walk"
           ELSE pc' = "undefined" /\ UNCHANGED current_block
      /\ UNCHANGED <<bcVars, walkVars, offset, len, file_block, buf, request>>

\* ext2_get_indirect_block_pointer_cache_block(): one level down, or a hole.
GetTable ==
  /\ pc = "walk"
  /\ \/ /\ current_block = 0
        /\ pc' = "read"
        /\ UNCHANGED <<bcVars, current_level>>
     \/ /\ current_block # 0
        /\ bcache_get_block(current_block)
        /\ pc' = "held" /\ current_level' = current_level + 1
  /\ UNCHANGED <<walkVars, offset, len, file_block, level, pos, current_block, buf, request>>

\* As below, but the last table stays pinned.
PutTable_Faulty ==
  /\ pc = "held"
  /\ \E s \in Slots : Found(s, current_block) /\ current_block' = data[s][pos[current_level + 1]]
  /\ IF current_level < level THEN bcache_put_block(current_block) /\ pc' = "walk"
                              ELSE UNCHANGED bcVars /\ pc' = "read"
  /\ UNCHANGED <<walkVars, offset, len, file_block, level, pos, current_level, buf, request>>

\* The entry is read through the pointer into the cache, then the table is put:
\* by the loop, or at the end by file_block_to_fs_block().
PutTable ==
  /\ pc = "held"
  /\ \E s \in Slots : Found(s, current_block) /\ current_block' = data[s][pos[current_level + 1]]
  /\ bcache_put_block(current_block)
  /\ pc' = IF current_level < level THEN "walk" ELSE "read"
  /\ UNCHANGED <<walkVars, offset, len, file_block, level, pos, current_level, buf, request>>

\* The words of a block from o on, n of them.
Words(block, o, n) == [k \in 1 .. n |-> block[o + k - 1]]
Hole == [k \in 0 .. BlockSize - 1 |-> 0]

\* ext2_read_inode() with the block found: part of a first block, a whole block,
\* or part of a last block; then the next one.
Deliver(block) ==
  LET o == IF buf = <<>> THEN offset % BlockSize ELSE 0
      n == IF o # 0 THEN IF len < BlockSize - o THEN len ELSE BlockSize - o
           ELSE IF len >= BlockSize THEN BlockSize ELSE len
  IN  /\ buf' = buf \o Words(block, o, n)
      /\ len' = len - n /\ file_block' = file_block + 1
      /\ pc' = IF len - n > 0 THEN "map" ELSE "delivered"

ext2_read_inode ==
  /\ pc = "read"
  /\ \/ current_block = 0 /\ Deliver(Hole) /\ UNCHANGED bcVars
     \/ current_block # 0 /\ bcache_read_block(current_block) /\ Deliver(access'.value)
  /\ UNCHANGED <<walkVars, offset, level, pos, current_level, current_block, request>>

\* ext2_close_file(), or the caller has seen the error.
ext2_close_file ==
  /\ pc \in {"delivered", "failed"}
  /\ pc' = "idle" /\ stack' = <<>> /\ inum' = EXT2_ROOT_INO /\ err' = ""
  /\ offset' = 0 /\ len' = 0 /\ file_block' = 0 /\ level' = 0 /\ pos' = <<>>
  /\ current_level' = 0 /\ current_block' = 0 /\ buf' = <<>>
  /\ request' = [path |-> <<>>, read |-> <<0, 0>>]
  /\ UNCHANGED bcVars

-----------------------------------------------------------------------------
\* A mounted file system with nothing open.
Ext2Init ==
  /\ disk \in Images
  /\ data = [s \in Slots |-> Zero] /\ blocknum = [s \in Slots |-> Inodes[EXT2_ROOT_INO].block]
  /\ access = [kind |-> "read", block |-> Inodes[EXT2_ROOT_INO].block,
               value |-> disk[Inodes[EXT2_ROOT_INO].block]]
  /\ BCInit
  /\ pc = "idle" /\ stack = <<>> /\ inum = EXT2_ROOT_INO /\ err = ""
  /\ offset = 0 /\ len = 0 /\ file_block = 0 /\ level = 0 /\ pos = <<>>
  /\ current_level = 0 /\ current_block = 0 /\ buf = <<>>
  /\ request = [path |-> <<>>, read |-> <<0, 0>>]

Ext2Step ==
  \/ ext2_dir_lookup
  \/ ext2_load_inode("load", "loaded") \/ ext2_walk \/ Return
  \/ ext2_load_inode("open", "opening") \/ Opened
  \/ \E r \in Reads : ext2_read_file(r[1], r[2])
  \/ file_block_to_fs_block \/ GetTable \/ PutTable \/ ext2_read_inode

Ext2Next ==
  \/ \E path \in Paths : ext2_open_file(path)
  \/ Ext2Step
  \/ ext2_close_file

\* A call that has begun runs to its end.
Ext2Spec == Ext2Init /\ [][Ext2Next]_ext2Vars /\ WF_ext2Vars(Ext2Step)

-----------------------------------------------------------------------------
(* Properties.                                                             *)

\* ext2 holds at most one block of the cache at a time: while it looks into an
\* inode table or an indirect block, and then exactly that one.  So a cache of
\* two blocks is enough, on every path through the code.
PinsBalanced ==
  \A b \in Blocks :
    pins[b] = IF \/ pc \in {"loaded", "opening"} /\ b = Inodes[inum].block
                 \/ pc = "held" /\ b = current_block THEN 1 ELSE 0

\* Reference: b is block n of a file, the n-th leaf if those that the pointers of
\* the inode lead to are counted in their order.
BlockOf(image, ino, n, b) ==
  LET N == EXT2_NDIR_BLOCKS
      a == EXT2_ADDR_PER_BLOCK
      E(t, k) == Entry(image, t, k)
  IN  \/ n \in 0 .. N - 1 /\ b = ino.i_block[n]
      \/ \E i \in Indices : n = N + i /\ b = E(ino.i_block[N], i)
      \/ \E i, j \in Indices :
           n = N + a + i * a + j /\ b = E(E(ino.i_block[N + 1], i), j)
      \/ \E i, j, k \in Indices :
           /\ n = N + a + a * a + (i * a + j) * a + k
           /\ b = E(E(E(ino.i_block[N + 2], i), j), k)

\* Reference: v is word w of a file, a 0 in a hole.
WordOf(image, ino, w, v) ==
  \E b \in Pointers : /\ BlockOf(image, ino, w \div BlockSize, b)
                      /\ v = Entry(image, b, w % BlockSize)

\* Reference: how many of n words from o on a file has.
Available(ino, o, n) ==
  IF o + n <= ino.size THEN n ELSE IF o <= ino.size THEN ino.size - o ELSE 0

\* A read delivers the bytes of the file from the offset on, up to its end, holes
\* as zeros, whatever has to be fetched or evicted on the way.  The index into
\* i_block leaves the array only for a file that claims to be larger than its
\* pointers can reach.
ReadsFile ==
  /\ pc = "delivered" /\ File.type = "reg" =>
       LET o == request.read[1]
           n == request.read[2]
       IN  /\ Len(buf) = Available(File, o, n)
           /\ \A k \in 1 .. Len(buf) : WordOf(disk, File, o + k - 1, buf[k])
  /\ pc = "undefined" => \A b \in Pointers : ~BlockOf(disk, File, file_block, b)

Queries == [fuel : 0 .. MAX_RECURSE, dir : DOMAIN Inodes, path : Components]

\* Reference: the inode a path leads to from a directory, following at most fuel
\* links inside links; 0 if there is none.
Resolve[q \in Queries] ==
  LET names == Inodes[q.dir].names
      first == Head(q.path)
      target == IF first \in DOMAIN names THEN names[first] ELSE 0
      link == Inodes[target].link
      reached == IF target = 0 THEN 0
                 ELSE IF Inodes[target].type # "lnk" THEN target
                 ELSE IF q.fuel = 0 THEN 0
                 ELSE Resolve[[fuel |-> q.fuel - 1, path |-> link.comps,
                               dir |-> IF link.absolute THEN EXT2_ROOT_INO ELSE q.dir]]
  IN  IF Len(q.path) = 1 \/ reached = 0 THEN reached
      ELSE IF Inodes[reached].type # "dir" THEN 0
      ELSE Resolve[[fuel |-> q.fuel, path |-> Tail(q.path), dir |-> reached]]

\* Opening a path succeeds exactly when it leads to an inode with no more than
\* MAX_RECURSE levels of links, and opens that inode.
WalkIsReference ==
  LET target == Resolve[[fuel |-> MAX_RECURSE - 1, path |-> request.path, dir |-> EXT2_ROOT_INO]]
  IN  (pc = "opened" => inum = target) /\ (pc = "failed" => target = 0)

\* No path makes ext2_walk() run forever, nor does any read: not a link to
\* itself, not links to each other, not a cache with everything in use.
CallsReturn == (pc # "idle") ~> (pc \in {"delivered", "failed", "undefined"})
=============================================================================
