------------------------------- MODULE Lists -------------------------------
(***************************************************************************)
(* The doubly linked lists of src/include/list.h as sequences, head first. *)
(* A list_node has one pair of links, so an element is in a list at most   *)
(* once; list_add_head() and list_add_tail() are <<t>> \o s and Append.    *)
(***************************************************************************)
EXTENDS Integers, Sequences

OccursIn(t, s) == \E i \in 1 .. Len(s) : s[i] = t
Distinct(s) == \A i, j \in 1 .. Len(s) : s[i] = s[j] => i = j

RemoveIndex(s, n) ==
  [i \in 1 .. Len(s) - 1 |-> IF i < n THEN s[i] ELSE s[i + 1]]

\* list_delete() of the node of t, if it is in the list.
Without(s, t) ==
  IF OccursIn(t, s)
    THEN RemoveIndex(s, CHOOSE i \in 1 .. Len(s) : s[i] = t)
    ELSE s

\* list_add_before() the n-th element, or at the end if n is Len(s) + 1.
InsertAt(s, n, t) ==
  [i \in 1 .. Len(s) + 1 |-> IF i < n THEN s[i] ELSE IF i = n THEN t ELSE s[i - 1]]

=============================================================================
