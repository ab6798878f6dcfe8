------------------------------ MODULE FifoLock ------------------------------
(***************************************************************************)
(* What a mutex promises: at most one client has the lock, and those who   *)
(* find it taken get it in the order in which they asked.                  *)
(***************************************************************************)
EXTENDS Sequences, Naturals

CONSTANTS Locks, Clients, Nobody

VARIABLES
  turn,  \* the client that has, or has been handed, each lock
  line   \* the clients that wait for each lock, in order

Free(l) == turn[l] = Nobody

Ask(l, c) ==
  /\ turn[l] # c /\ \A i \in 1 .. Len(line[l]) : line[l][i] # c
  /\ IF Free(l) THEN /\ turn' = [turn EXCEPT ![l] = c]
                     /\ UNCHANGED line
                ELSE /\ line' = [line EXCEPT ![l] = Append(@, c)]
                     /\ UNCHANGED turn

Release(l) ==
  /\ ~Free(l)
  /\ IF line[l] = <<>>
       THEN /\ turn' = [turn EXCEPT ![l] = Nobody]
            /\ UNCHANGED line
       ELSE /\ turn' = [turn EXCEPT ![l] = Head(line[l])]
            /\ line' = [line EXCEPT ![l] = Tail(@)]

\* The lock is destroyed: nobody has it and nobody waits for it any more.
Abolish(l) ==
  /\ turn' = [turn EXCEPT ![l] = Nobody]
  /\ line' = [line EXCEPT ![l] = <<>>]

Init == turn = [l \in Locks |-> Nobody] /\ line = [l \in Locks |-> <<>>]

Next == \E l \in Locks : (\E c \in Clients : Ask(l, c)) \/ Release(l) \/ Abolish(l)

Spec == Init /\ [][Next]_<<turn, line>>
=============================================================================
