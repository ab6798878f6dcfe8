--------------------------------- MODULE Bio ---------------------------------
(***************************************************************************)
(* Block devices and their reference counts: src/lib/bio/bio.c, with the   *)
(* sub-devices of src/lib/bio/subdev.c.  A device is referred to by the    *)
(* list of devices, by everybody who opened it, and by its sub-devices;    *)
(* the last reference to go frees it.  bio_open(), the registration and    *)
(* the counting are protected by a mutex or atomic: each call is one step. *)
(* Reading and writing do not change this state; devices that drivers      *)
(* register are static or never unregistered.                              *)
(***************************************************************************)
EXTENDS Integers, FiniteSets, Lists

CONSTANTS
  Addrs,            \* the bdev_t objects
  Roots,            \* those that a driver or create_membdev() registers
  Parts,            \* the n of sub-device names "<device>p<n>"
  Holders,          \* variables outside this module that keep a bdev_t *
  NULL,
  RootBlocks,       \* block_count of the roots
  BlockSize,        \* 512
  Word,             \* 2^32
  MaxLost           \* bound: references to one device that error paths lose

ASSUME BioAssumption ==
  /\ Roots \subseteq Addrs /\ IsFiniteSet(Addrs) /\ IsFiniteSet(Holders)
  /\ NULL \notin Addrs \cup Holders /\ Holders \cap Addrs = {}
  /\ Parts \subseteq Nat
  /\ RootBlocks \in Nat /\ BlockSize \in Nat \ {0} /\ Word \in Nat /\ RootBlocks < Word
  /\ MaxLost \in Nat

Whole == -1
Names == Roots \X (Parts \cup {Whole})
Users == Addrs \cup Holders

Info == [name : Names, offset : Nat, block_count : Nat]
NoInfo == [name |-> <<NULL, Whole>>, offset |-> 0, block_count |-> 0]

VARIABLES
  bdevs,                     \* bdevs->list
  alive,                     \* the objects that have not been freed
  info,                      \* their name, offset in the parent, and block_count
  ref,
  ptr,                       \* the pointer a holder keeps, and a sub-device's parent
  lost                       \* references that no variable stands for any more

bioVars == <<bdevs, alive, info, ref, ptr, lost>>

-----------------------------------------------------------------------------
\* The device that the walk of bio_open() stops at.
Opens(a, n) ==
  \E i \in 1 .. Len(bdevs) :
    /\ a = bdevs[i] /\ info[a].name = n
    /\ \A j \in 1 .. i - 1 : info[bdevs[j]].name # n

Exists(n) == \E a \in Addrs : Opens(a, n)

\* bio_open() for the variable h.
bio_open(h, n) ==
  \E a \in Addrs :
    /\ Opens(a, n)
    /\ ref' = [ref EXCEPT ![a] = @ + 1]
    /\ ptr' = [ptr EXCEPT ![h] = a]
    /\ UNCHANGED <<bdevs, alive, info, lost>>

\* Who loses a reference when a loses one: the close hook of a sub-device
\* closes its parent.
Released(a) == {a} \cup (IF ref[a] = 1 THEN {ptr[a]} \ {NULL} ELSE {})

\* As below, but the last but one reference frees it.
Gone_Faulty(a) == {x \in Released(a) : ref[x] <= 2}

Gone(a) == {x \in Released(a) : ref[x] = 1}

\* As below, but the close hook is not called.
bdev_dec_ref_Faulty(a, h) ==
  /\ ref' = [ref EXCEPT ![a] = @ - 1]
  /\ alive' = IF ref[a] = 1 THEN alive \ {a} ELSE alive
  /\ info' = IF ref[a] = 1 THEN [info EXCEPT ![a] = NoInfo] ELSE info
  /\ ptr' = [x \in Users |-> IF x = h \/ (x = a /\ ref[a] = 1) THEN NULL ELSE ptr[x]]

\* bdev_dec_ref(), after which the variable h is not used any more.
bdev_dec_ref(a, h) ==
  /\ ref' = [x \in Addrs |-> IF x \in Released(a) THEN ref[x] - 1 ELSE ref[x]]
  /\ alive' = alive \ Gone(a)
  /\ info' = [x \in Addrs |-> IF x \in Gone(a) THEN NoInfo ELSE info[x]]
  /\ ptr' = [x \in Users |-> IF x = h \/ x \in Gone(a) THEN NULL ELSE ptr[x]]

bio_close(h) ==
  /\ bdev_dec_ref(ptr[h], h)
  /\ UNCHANGED <<bdevs, lost>>

\* The pointer of h goes out of scope without bio_close().
Forget(h) ==
  /\ lost[ptr[h]] < MaxLost
  /\ lost' = [lost EXCEPT ![ptr[h]] = @ + 1]
  /\ ptr' = [ptr EXCEPT ![h] = NULL]
  /\ UNCHANGED <<bdevs, alive, info, ref>>

\* bio_unregister_device(dev), for a variable h that keeps dev and goes on
\* keeping it.
bio_unregister_device(h) ==
  /\ bdevs' = Without(bdevs, ptr[h])
  /\ bdev_dec_ref(ptr[h], NULL)
  /\ UNCHANGED lost

\* The bounds check of bio_publish_subdevice().
FitsParent(p, start, len) == (start + len \div BlockSize) % Word <= info[p].block_count

\* bio_publish_subdevice(): the parent is opened first; the reference goes to
\* the sub-device, or is lost when the bounds check fails.  A parent that is not
\* found changes nothing.
bio_publish_subdevice(parent, sub, start, len) ==
  \E p \in Addrs :
    /\ Opens(p, parent)
    /\ \/ /\ ~FitsParent(p, start, len) /\ lost[p] < MaxLost
          /\ ref' = [ref EXCEPT ![p] = @ + 1]
          /\ lost' = [lost EXCEPT ![p] = @ + 1]
          /\ UNCHANGED <<bdevs, alive, info, ptr>>
       \/ /\ FitsParent(p, start, len)
          /\ \E a \in Addrs \ (alive \cup Roots) :
               /\ bdevs' = <<a>> \o bdevs
               /\ alive' = alive \cup {a}
               /\ info' = [info EXCEPT ![a] =
                    [name |-> sub, offset |-> start, block_count |-> len]]
               /\ ref' = [ref EXCEPT ![a] = 1, ![p] = @ + 1]
               /\ ptr' = [ptr EXCEPT ![a] = p]
               /\ UNCHANGED lost

-----------------------------------------------------------------------------
\* bio_init(), and the drivers' bio_initialize_bdev() and bio_register_device().
BioInit ==
  /\ bdevs \in {s \in [1 .. Cardinality(Roots) -> Roots] : Distinct(s)}
  /\ alive = Roots
  /\ info = [a \in Addrs |->
               IF a \in Roots
                 THEN [name |-> <<a, Whole>>, offset |-> 0, block_count |-> RootBlocks]
                 ELSE NoInfo]
  /\ ref = [a \in Addrs |-> IF a \in Roots THEN 1 ELSE 0]
  /\ ptr = [x \in Users |-> NULL]
  /\ lost = [a \in Addrs |-> 0]
=============================================================================
