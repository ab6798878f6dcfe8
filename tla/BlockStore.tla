----------------------------- MODULE BlockStore -----------------------------
(***************************************************************************)
(* What a block cache promises its client: a read returns what was last    *)
(* written to the block, and nothing but a write of the client changes     *)
(* what is stored.  Every step is an access of the client, so that what an *)
(* implementation does on its own account has to be a stuttering step.     *)
(***************************************************************************)
CONSTANTS Blocks, Values

VARIABLES
  contents,  \* contents[b]
  access     \* the client's last access: what was read or written

Accesses == [kind : {"read", "write"}, block : Blocks, value : Values]

Read(b) ==
  /\ access' = [kind |-> "read", block |-> b, value |-> contents[b]]
  /\ UNCHANGED contents

Write(b, v) ==
  /\ access' = [kind |-> "write", block |-> b, value |-> v]
  /\ contents' = [contents EXCEPT ![b] = v]

\* The first access returns what the device held.
Init ==
  /\ contents \in [Blocks -> Values]
  /\ access \in Accesses /\ access.value = contents[access.block]

Next == \E b \in Blocks : Read(b) \/ \E v \in Values : Write(b, v)

Spec == Init /\ [][Next]_<<contents, access>>
=============================================================================
