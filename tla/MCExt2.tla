------------------------------- MODULE MCExt2 -------------------------------
(* Ext2 on a small file system: one direct pointer and two pointers to a    *)
(* block, so that short files reach every level of indirection.             *)
EXTENDS Ext2, TLC

Block(x, y) == (0 :> x) @@ (1 :> y)

MCImage ==
  [b \in Blocks |->
    CASE b = 3 -> Block(31, 32) [] b = 5 -> Block(51, 52) [] b = 8 -> Block(81, 82)
      [] b = 4 -> Block(5, 0)
      [] b = 6 -> Block(7, 0) [] b = 7 -> Block(8, 5)
      [] b = 9 -> Block(10, 0) [] b = 10 -> Block(7, 11) [] b = 11 -> Block(0, 3)
      [] OTHER -> Block(0, 0)]

MCImages == {MCImage}
MCValues == {MCImage[b] : b \in Blocks}
MCZero == Block(0, 0)

NoBlocks == [k \in 0 .. 3 |-> 0]
NoNames == [n \in {} |-> 0]
Dir(names, b) == [type |-> "dir", size |-> 2, i_block |-> NoBlocks, names |-> names, block |-> b]
Lnk(abs, comps, b) == [type |-> "lnk", size |-> 2, i_block |-> NoBlocks, names |-> NoNames,
                       link |-> [absolute |-> abs, comps |-> comps], block |-> b]
Reg(size, ptrs, b) == [type |-> "reg", size |-> size, names |-> NoNames, block |-> b,
                       i_block |-> [k \in 0 .. 3 |-> ptrs[k + 1]]]

\* /f, /d/g, and links: two through d, a loop, a chain as long as can be
\* followed and one that is longer.  /d/g claims one block too many.
MCInodes ==
  2 :> Dir("f" :> 3 @@ "d" :> 4 @@ "l" :> 5 @@ "a" :> 6 @@ "loop" :> 7 @@ "c1" :> 11
           @@ "c2" :> 12 @@ "c3" :> 13 @@ "c4" :> 14, 1)
  @@ 3 :> Reg(5, <<3, 4, 0, 0>>, 1)
  @@ 4 :> Dir("g" :> 8 @@ "r" :> 9 @@ "u" :> 10 @@ ".." :> 2, 1)
  @@ 5 :> Lnk(FALSE, <<"d", "g">>, 1)
  @@ 6 :> Lnk(TRUE, <<"d">>, 1)
  @@ 7 :> Lnk(FALSE, <<"loop">>, 1)
  @@ 8 :> Reg(32, <<0, 0, 6, 9>>, 2)
  @@ 9 :> Lnk(FALSE, <<"g">>, 2)
  @@ 10 :> Lnk(FALSE, <<"..", "f">>, 2)
  @@ 11 :> Lnk(FALSE, <<"c2">>, 2)
  @@ 12 :> Lnk(TRUE, <<"c3">>, 2)
  @@ 13 :> Lnk(FALSE, <<"c4">>, 2)
  @@ 14 :> Lnk(FALSE, <<"f">>, 2)

MCPaths == {<<"f">>, <<"d", "g">>, <<"l">>, <<"a", "g">>, <<"a", "r">>, <<"d", "u">>,
            <<"loop", "f">>, <<"c1">>, <<"c2">>, <<"f", "g">>, <<"">>, <<"a">>}

MCReads == {0, 1, 4, 5, 6, 9, 15, 19, 21, 29, 31, 33} \X {1, 3, 4}
=============================================================================
