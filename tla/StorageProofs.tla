---------------------------- MODULE StorageProofs ----------------------------
(***************************************************************************)
(* Proofs about Storage: devices are counted exactly and found by one      *)
(* name, whoever has one open keeps it, and open files keep their mounts,  *)
(* for any devices, partition tables, mounts, files and paths.             *)
(*                                                                         *)
(* The counts are right only because a device is never freed by way of its *)
(* sub-device: roots stay listed, so the parent that a close hook closes   *)
(* has a reference left.  Names are unique only because of where the       *)
(* partition thread is: VacantAt says which of the names of its device are *)
(* not listed at each point of its loops.                                  *)
(***************************************************************************)
EXTENDS Storage, ListProofs, FiniteSetTheorems, TLAPS

Listed == {a \in Addrs : OccursIn(a, bdevs)}
Preimage(U, p, a) == {u \in U : p[u] = a}
PointTo(p, a) == Preimage(Users, p, a)

BioType ==
  /\ bdevs \in Seq(Addrs) /\ Distinct(bdevs) /\ alive \subseteq Addrs
  /\ info \in [Addrs -> Info \cup {NoInfo}] /\ ref \in [Addrs -> Nat]
  /\ ptr \in [Users -> Addrs \cup {NULL}] /\ lost \in [Addrs -> Nat]

\* Roots are listed and have no parent; every other device has a root for its
\* parent and the name of a partition; nothing points to a device that is freed.
DevicesOK ==
  /\ Roots \subseteq Listed /\ Listed \subseteq alive
  /\ \A a \in Roots : info[a].name = <<a, Whole>> /\ ptr[a] = NULL
  /\ \A a \in alive \ Roots : ptr[a] \in Roots /\ info[a] \in Info
                              /\ info[a].name \in Roots \X Parts
  /\ \A a \in Addrs \ alive : ptr[a] = NULL
  /\ \A u \in Users : ptr[u] # NULL => ptr[u] \in alive
  /\ \A a, b \in Listed : info[a].name = info[b].name => a = b

RefsCounted ==
  \A a \in Addrs :
    /\ ref[a] = Cardinality(PointTo(ptr, a)) + (IF a \in Listed THEN 1 ELSE 0) + lost[a]
    /\ a \in alive <=> ref[a] > 0

BioInv == BioType /\ DevicesOK /\ RefsCounted

\* The numbers n for which no device is listed by the name <<root, n>>.
VacantAt(at, e) ==
  CASE at = "mmc"                         -> {n \in Parts : n > e}
    [] at \in {"unpublish", "unregister"} -> 0 .. e - 1
    [] at = "close"                       -> 0 .. e
    [] at \in {"open", "read"}            -> 0 .. Unpublished - 1
    [] at = "entry"                       -> e .. MbrEntries - 1
    [] at \in {"idle", "done"}            -> {}

\* Where the partition thread is, what its variable dev points to, and how far
\* its loop has come.
ScanOK ==
  /\ pc \in {"mmc", "idle", "unpublish", "unregister", "close", "open", "read", "entry", "done"}
  /\ root \in Roots /\ entry \in Nat /\ again \in BOOLEAN
  /\ pc \in {"mmc", "idle", "unpublish", "open"} => ptr[Scan] = NULL
  /\ pc = "unregister" => ptr[Scan] \in Listed /\ info[ptr[Scan]].name = <<root, entry>>
  /\ pc = "close" => ptr[Scan] # NULL
  /\ pc \in {"read", "entry", "done"} => ptr[Scan] = root
  /\ pc = "mmc" => entry < MmcEntries
  /\ pc \in {"unpublish", "unregister", "close"} => entry < Unpublished
  /\ pc \in {"open", "read"} => entry = 0
  /\ pc = "entry" => entry < MbrEntries

NamesVacant == \A n \in VacantAt(pc, entry) : \A a \in Listed : info[a].name # <<root, n>>

\* A mount is listed while it is allocated and counted.
MountsOK ==
  /\ mounts \in Seq(Mounts) /\ Distinct(mounts)
  /\ mpath \in [Mounts -> MountPaths \cup {NULL}] /\ refs \in [Mounts -> Nat]
  /\ fmount \in [Files -> Mounts \cup {NULL}] /\ wanted \subseteq MountPaths
  /\ aliased \in BOOLEAN
  /\ \A m \in Mounts : /\ m \in Allocated <=> OccursIn(m, mounts)
                       /\ m \in Allocated <=> refs[m] > 0
                       /\ m \in Allocated => mpath[m] \in MountPaths

MountCounted(m) ==
  refs[m] = Cardinality(Preimage(Files, fmount, m))
            + (IF m \in Allocated /\ mpath[m] \in wanted THEN 1 ELSE 0)

\* Without aliases, no mount's path begins with another's, so that a caller's
\* unmount finds the mount it made.
PathsOK ==
  ~aliased =>
    /\ \A m, n \in Allocated : StartsWith(mpath[m], mpath[n]) => m = n
    /\ \A p \in wanted : \E m \in Allocated : mpath[m] = p
    /\ \A f \in Files : fmount[f] # NULL => fmount[f] \in Allocated
    /\ \A m \in Mounts : MountCounted(m)

StorageInv == BioInv /\ ScanOK /\ NamesVacant /\ MountsOK /\ PathsOK

-----------------------------------------------------------------------------
(* Devices.                                                                *)

\* Users are finitely many, and so are the pointers to a device.
LEMMA UsersFinite == IsFiniteSet(Users)
  BY BioAssumption, FS_Union DEF Users

\* Finitely many users have finitely many pointers to a device.
LEMMA PreimageFinite ==
  ASSUME NEW U, IsFiniteSet(U), NEW p, NEW a
  PROVE  IsFiniteSet(Preimage(U, p, a)) /\ Cardinality(Preimage(U, p, a)) \in Nat
<1>1. Preimage(U, p, a) \in SUBSET U
  BY DEF Preimage
<1> QED
  BY <1>1, FS_Subset, FS_CardinalityType

\* The pointers to a device can be counted.
LEMMA PointersFinite ==
  ASSUME NEW p, NEW a
  PROVE  IsFiniteSet(PointTo(p, a)) /\ Cardinality(PointTo(p, a)) \in Nat
  BY UsersFinite, PreimageFinite DEF PointTo

\* One variable points elsewhere: the counts of the old and the new object.
LEMMA CountMoves ==
  ASSUME NEW U, IsFiniteSet(U), NEW p, NEW q, NEW h \in U,
         \A u \in U \ {h} : q[u] = p[u], q[h] # p[h], NEW a
  PROVE  Cardinality(Preimage(U, q, a)) =
           Cardinality(Preimage(U, p, a))
           + (IF a = q[h] THEN 1 ELSE 0) - (IF a = p[h] THEN 1 ELSE 0)
<1> DEFINE P == Preimage(U, p, a)
           Q == Preimage(U, q, a)
<1>0. IsFiniteSet(P) /\ Cardinality(P) \in Nat
  BY PreimageFinite
<1>1. CASE a = q[h]
  <2>1. Q = P \cup {h} /\ h \notin P
    BY <1>1 DEF Preimage
  <2>2. Cardinality(Q) = Cardinality(P) + 1
    BY <1>0, <2>1, FS_AddElement
  <2> QED
    BY <1>0, <1>1, <2>2
<1>2. CASE a = p[h]
  <2>1. Q = P \ {h} /\ h \in P
    BY <1>2 DEF Preimage
  <2>2. Cardinality(Q) = Cardinality(P) - 1
    BY <1>0, <2>1, FS_RemoveElement
  <2> QED
    BY <1>0, <1>2, <2>2
<1>3. CASE a # q[h] /\ a # p[h]
  <2>1. Q = P
    BY <1>3 DEF Preimage
  <2> QED
    BY <1>0, <1>3, <2>1
<1> QED
  BY <1>1, <1>2, <1>3

\* When one user changes its pointer, one device loses a pointer and one gets it.
LEMMA Repoint ==
  ASSUME NEW p \in [Users -> Addrs \cup {NULL}],
         NEW q \in [Users -> Addrs \cup {NULL}], NEW h \in Users,
         \A u \in Users \ {h} : q[u] = p[u], q[h] # p[h], NEW a \in Addrs
  PROVE  Cardinality(PointTo(q, a)) =
           Cardinality(PointTo(p, a)) + (IF a = q[h] THEN 1 ELSE 0) - (IF a = p[h] THEN 1 ELSE 0)
<1>1. Cardinality(Preimage(Users, q, a)) =
        Cardinality(Preimage(Users, p, a))
        + (IF a = q[h] THEN 1 ELSE 0) - (IF a = p[h] THEN 1 ELSE 0)
  BY UsersFinite, CountMoves
<1> QED
  BY <1>1 DEF PointTo

\* bio_open() finds a listed device with the name.
LEMMA OpensListed ==
  ASSUME BioType, NEW a, NEW n, Opens(a, n)
  PROVE  a \in Listed /\ info[a].name = n
<1>1. PICK i \in 1 .. Len(bdevs) : a = bdevs[i] /\ info[a].name = n
  BY DEF Opens
<1>2. bdevs[i] \in Addrs
  BY DEF BioType
<1> QED
  BY <1>1, <1>2 DEF Listed, OccursIn

\* The name of a whole device is the name of its root only.
LEMMA OpensRoot ==
  ASSUME BioInv, NEW r \in Roots, NEW p, Opens(p, <<r, Whole>>)
  PROVE  p = r
<1>1. p \in Listed /\ info[p].name = <<r, Whole>>
  BY OpensListed DEF BioInv
<1>2. r \in Listed /\ info[r].name = <<r, Whole>>
  BY DEF BioInv, DevicesOK
<1> QED
  BY <1>1, <1>2 DEF BioInv, DevicesOK

\* bio_open() into a variable that was empty.
LEMMA OpenKeeps ==
  ASSUME BioInv, NEW h \in Holders, ptr[h] = NULL, NEW n, bio_open(h, n)
  PROVE  /\ BioInv'
         /\ UNCHANGED <<bdevs, alive, info, lost>>
         /\ \E a \in Listed : info[a].name = n /\ ptr' = [ptr EXCEPT ![h] = a]
<1>1. PICK a \in Addrs :
        /\ Opens(a, n) /\ ref' = [ref EXCEPT ![a] = @ + 1]
        /\ ptr' = [ptr EXCEPT ![h] = a]
  BY DEF bio_open
<1>2. UNCHANGED <<bdevs, alive, info, lost>>
  BY DEF bio_open
<1>3. a \in Listed /\ info[a].name = n
  BY <1>1, OpensListed DEF BioInv
<1>4. a \in alive /\ h \in Users /\ h \notin Addrs /\ Listed' = Listed /\ NULL \notin Addrs
  BY <1>2, <1>3, BioAssumption DEF BioInv, DevicesOK, Listed, Users
<1>5. BioType'
  BY <1>1, <1>2, <1>4 DEF BioInv, BioType
<1>6. DevicesOK'
  BY <1>1, <1>2, <1>4, BioAssumption DEF BioInv, BioType, DevicesOK, Users
<1>7. RefsCounted'
  <2> SUFFICES ASSUME NEW b \in Addrs
      PROVE  /\ ref'[b] = Cardinality(PointTo(ptr', b)) + (IF b \in Listed' THEN 1 ELSE 0) + lost'[b]
             /\ b \in alive' <=> ref'[b] > 0
    BY DEF RefsCounted, PointTo
  <2>1. b # ptr[h] /\ a # ptr[h] /\ ptr \in [Users -> Addrs \cup {NULL}]
    BY <1>4 DEF BioInv, BioType
  <2>2. Cardinality(PointTo(ptr', b)) =
          Cardinality(PointTo(ptr, b)) + (IF b = a THEN 1 ELSE 0) - (IF b = ptr[h] THEN 1 ELSE 0)
    <3>1. /\ ptr' \in [Users -> Addrs \cup {NULL}] /\ ptr'[h] = a
          /\ \A u \in Users \ {h} : ptr'[u] = ptr[u]
      BY <1>1, <1>4, <2>1
    <3> QED
      BY <1>4, <2>1, <3>1, Repoint
  <2>3. Cardinality(PointTo(ptr, b)) \in Nat /\ ref[b] \in Nat /\ lost[b] \in Nat
    BY PointersFinite DEF BioInv, BioType
  <2>4. ref[b] = Cardinality(PointTo(ptr, b)) + (IF b \in Listed THEN 1 ELSE 0) + lost[b]
        /\ (b \in alive <=> ref[b] > 0)
    BY DEF BioInv, RefsCounted
  <2>5. ref'[b] = ref[b] + (IF b = a THEN 1 ELSE 0)
    BY <1>1, <2>3 DEF BioInv, BioType
  <2> QED
    BY <1>2, <1>4, <2>1, <2>2, <2>3, <2>4, <2>5
<1> QED
  BY <1>1, <1>2, <1>3, <1>5, <1>6, <1>7 DEF BioInv

\* Whoever is pointed to has a pointer.
LEMMA PointedTo ==
  ASSUME NEW p, NEW u \in Users
  PROVE  Cardinality(PointTo(p, p[u])) >= 1
<1>1. IsFiniteSet(PointTo(p, p[u])) /\ u \in PointTo(p, p[u])
  BY PointersFinite DEF PointTo, Preimage
<1>2. Cardinality(PointTo(p, p[u])) # 0 /\ Cardinality(PointTo(p, p[u])) \in Nat
  BY <1>1, FS_EmptySet, PointersFinite
<1> QED
  BY <1>2

\* The assertion of bdev_dec_ref(): a device that loses its last reference is not
\* listed, and its parent, which is, keeps one.
LEMMA GoneAlone ==
  ASSUME BioInv, NEW a \in alive
  PROVE  /\ ref[a] = 1 => /\ (\E u \in Users : ptr[u] = a) => a \notin Listed /\ a \notin Roots
                          /\ ptr[a] # NULL => ptr[a] # a /\ ptr[a] \in Roots
         /\ Gone(a) = IF ref[a] = 1 THEN {a} ELSE {}
<1>1. a \in Addrs /\ a \in Users /\ ref[a] \in Nat /\ ref[a] > 0
  BY DEF BioInv, BioType, RefsCounted, Users
<1>2. ASSUME NEW u \in Users, ptr[u] # NULL, ptr[u] \in Listed
      PROVE  ref[ptr[u]] >= 2
  <2>1. ptr[u] \in Addrs
    BY <1>2 DEF BioInv, BioType
  <2>2. ref[ptr[u]] = Cardinality(PointTo(ptr, ptr[u])) + 1 + lost[ptr[u]]
    BY <1>2, <2>1 DEF BioInv, RefsCounted
  <2> QED
    BY <2>1, <2>2, PointedTo, PointersFinite DEF BioInv, BioType
<1>3. ref[a] = 1 /\ (\E u \in Users : ptr[u] = a) => a \notin Listed /\ a \notin Roots
  BY <1>1, <1>2, BioAssumption DEF BioInv, DevicesOK
<1>4. ptr[a] # NULL => ptr[a] # a /\ ptr[a] \in Roots /\ ptr[a] \in Listed
  BY <1>1 DEF BioInv, DevicesOK
<1>5. ptr[a] # NULL => ref[ptr[a]] >= 2
  BY <1>1, <1>2, <1>4
<1>6. Gone(a) = IF ref[a] = 1 THEN {a} ELSE {}
  BY <1>1, <1>5 DEF Gone, Released
<1> QED
  BY <1>3, <1>4, <1>6

\* bio_close() of what a variable points to.
LEMMA CloseKeeps ==
  ASSUME BioInv, NEW h \in Holders, ptr[h] # NULL, bio_close(h)
  PROVE  /\ BioInv'
         /\ UNCHANGED bdevs /\ alive' \subseteq alive
         /\ \A b \in Listed : info'[b] = info[b]
         /\ ptr'[h] = NULL /\ \A u \in Holders \ {h} : ptr'[u] = ptr[u]
<1> DEFINE a == ptr[h]
           p == ptr[a]
<1>1. /\ ref' = [x \in Addrs |-> IF x \in Released(a) THEN ref[x] - 1 ELSE ref[x]]
      /\ alive' = alive \ Gone(a)
      /\ info' = [x \in Addrs |-> IF x \in Gone(a) THEN NoInfo ELSE info[x]]
      /\ ptr' = [x \in Users |-> IF x = h \/ x \in Gone(a) THEN NULL ELSE ptr[x]]
      /\ bdevs' = bdevs /\ lost' = lost
  BY DEF bio_close, bdev_dec_ref
<1>2. /\ h \in Users /\ h \notin Addrs /\ NULL \notin Addrs /\ Listed' = Listed
      /\ a \in alive /\ a \in Addrs /\ a \in Users
  BY <1>1, BioAssumption DEF BioInv, BioType, DevicesOK, Users, Listed
<1>3. /\ Gone(a) = IF ref[a] = 1 THEN {a} ELSE {}
      /\ ref[a] = 1 => a \notin Listed /\ a \notin Roots
      /\ ref[a] = 1 => p \in Roots /\ p # a /\ p # NULL /\ p \in Addrs
  <2>1. /\ Gone(a) = IF ref[a] = 1 THEN {a} ELSE {}
        /\ ref[a] = 1 => a \notin Listed /\ a \notin Roots
    BY <1>2, GoneAlone
  <2> QED
    BY <1>2, <2>1, BioAssumption DEF BioInv, DevicesOK
<1> HIDE DEF a, p
<1>4. Released(a) = IF ref[a] = 1 THEN {a, p} ELSE {a}
  BY <1>3 DEF Released, p
<1>5. BioType'
  <2>1. ASSUME NEW x \in Addrs, x \in Released(a) PROVE ref[x] > 0 /\ ref[x] \in Nat
    BY <1>2, <1>3, <1>4, <2>1, BioAssumption DEF BioInv, BioType, RefsCounted, DevicesOK
  <2> QED
    BY <1>1, <2>1 DEF BioInv, BioType
<1>6. DevicesOK'
  <2>1. ASSUME NEW u \in Users, ptr'[u] # NULL PROVE ptr'[u] \in alive'
    <3>1. ptr'[u] = ptr[u] /\ u # h /\ ptr[u] \in alive
      BY <1>1, <2>1 DEF BioInv, DevicesOK
    <3>2. CASE ref[a] = 1 /\ ptr[u] = a
      <4> DEFINE q == [ptr EXCEPT ![u] = NULL]
      <4>1. ptr \in [Users -> Addrs \cup {NULL}] /\ q \in [Users -> Addrs \cup {NULL}]
            /\ q[u] = NULL /\ (\A v \in Users \ {u} : q[v] = ptr[v]) /\ q[h] = a
        BY <3>1, <1>2 DEF BioInv, BioType, a
      <4>2. Cardinality(PointTo(q, a)) = Cardinality(PointTo(ptr, a)) - 1
        <5> HIDE DEF q
        <5>1. Cardinality(PointTo(q, a)) =
                Cardinality(PointTo(ptr, a)) + (IF a = q[u] THEN 1 ELSE 0) - (IF a = ptr[u] THEN 1 ELSE 0)
          BY <1>2, <3>2, <4>1, Repoint
        <5> QED
          BY <5>1, <4>1, <1>2, <3>2, PointersFinite
      <4>3. Cardinality(PointTo(q, a)) >= 1
        <5> HIDE DEF q
        <5> QED
          BY <4>1, <1>2, PointedTo
      <4>4. ref[a] >= Cardinality(PointTo(ptr, a))
        <5>1. ref[a] = Cardinality(PointTo(ptr, a)) + (IF a \in Listed THEN 1 ELSE 0) + lost[a]
          BY <1>2 DEF BioInv, RefsCounted
        <5>2. Cardinality(PointTo(ptr, a)) \in Nat /\ lost[a] \in Nat
          BY <1>2, PointersFinite DEF BioInv, BioType
        <5> QED
          BY <5>1, <5>2
      <4> QED
        BY <4>2, <4>3, <4>4, <3>2, PointersFinite
    <3> QED
      BY <1>1, <1>3, <3>1, <3>2
  <2>2. Roots \subseteq Listed' /\ Listed' \subseteq alive'
    BY <1>1, <1>2, <1>3 DEF BioInv, DevicesOK
  <2>3. \A b \in Roots : info'[b].name = <<b, Whole>> /\ ptr'[b] = NULL
    BY <1>1, <1>2, <1>3, BioAssumption DEF BioInv, DevicesOK, Users
  <2>4. \A b \in alive' \ Roots : b \in alive \ Roots /\ ptr'[b] = ptr[b] /\ info'[b] = info[b]
    BY <1>1, <1>2, <1>3 DEF BioInv, BioType, Users
  <2>5. \A b \in alive' \ Roots : ptr'[b] \in Roots /\ info'[b] \in Info
                                  /\ info'[b].name \in Roots \X Parts
    BY <2>4 DEF BioInv, DevicesOK
  <2>6. \A b \in Addrs \ alive' : ptr'[b] = NULL
    BY <1>1, <1>2, <1>3 DEF BioInv, DevicesOK, Users
  <2>7. \A b, c \in Listed' : info'[b].name = info'[c].name => b = c
    <3>1. \A b \in Listed : info'[b] = info[b]
      BY <1>1, <1>3 DEF Listed
    <3> QED
      BY <1>2, <3>1 DEF BioInv, DevicesOK
  <2> QED
    BY <2>1, <2>2, <2>3, <2>5, <2>6, <2>7 DEF DevicesOK
<1>7. RefsCounted'
  <2> SUFFICES ASSUME NEW b \in Addrs
      PROVE  /\ ref'[b] = Cardinality(PointTo(ptr', b)) + (IF b \in Listed' THEN 1 ELSE 0) + lost'[b]
             /\ b \in alive' <=> ref'[b] > 0
    BY DEF RefsCounted, PointTo
  <2>0. ptr \in [Users -> Addrs \cup {NULL}] /\ ptr' \in [Users -> Addrs \cup {NULL}]
    BY <1>5 DEF BioInv, BioType
  <2>1. Cardinality(PointTo(ptr', b)) = Cardinality(PointTo(ptr, b))
                                        - (IF b \in Released(a) THEN 1 ELSE 0)
    <3>1. CASE ref[a] # 1
      <4>1. ptr'[h] = NULL /\ \A u \in Users \ {h} : ptr'[u] = ptr[u]
        BY <1>1, <1>2, <1>3, <3>1
      <4>2. Cardinality(PointTo(ptr', b)) =
              Cardinality(PointTo(ptr, b)) + (IF b = ptr'[h] THEN 1 ELSE 0) - (IF b = ptr[h] THEN 1 ELSE 0)
        BY <1>2, <2>0, <4>1, Repoint
      <4> QED
        BY <1>2, <1>4, <3>1, <4>1, <4>2, PointersFinite DEF a
    <3>2. CASE ref[a] = 1
      <4> DEFINE q == [ptr EXCEPT ![h] = NULL]
      <4>1. /\ q \in [Users -> Addrs \cup {NULL}] /\ q[h] = NULL
            /\ \A u \in Users \ {h} : q[u] = ptr[u]
        BY <1>2, <2>0
      <4>2. ptr'[a] = NULL /\ q[a] = p /\ \A u \in Users \ {a} : ptr'[u] = q[u]
        BY <1>1, <1>2, <1>3, <3>2, <4>1 DEF p
      <4> HIDE DEF q
      <4>3. Cardinality(PointTo(q, b)) =
              Cardinality(PointTo(ptr, b)) + (IF b = q[h] THEN 1 ELSE 0) - (IF b = ptr[h] THEN 1 ELSE 0)
        BY <1>2, <2>0, <4>1, Repoint
      <4>4. Cardinality(PointTo(ptr', b)) =
              Cardinality(PointTo(q, b)) + (IF b = ptr'[a] THEN 1 ELSE 0) - (IF b = q[a] THEN 1 ELSE 0)
        BY <1>2, <1>3, <2>0, <3>2, <4>1, <4>2, Repoint
      <4>5. Cardinality(PointTo(q, b)) \in Nat /\ Cardinality(PointTo(ptr, b)) \in Nat
        BY PointersFinite
      <4> QED
        BY <1>2, <1>3, <1>4, <3>2, <4>1, <4>2, <4>3, <4>4, <4>5 DEF a
    <3> QED
      BY <3>1, <3>2
  <2>2. Cardinality(PointTo(ptr, b)) \in Nat /\ ref[b] \in Nat /\ lost[b] \in Nat
        /\ Cardinality(PointTo(ptr', b)) \in Nat
    BY PointersFinite DEF BioInv, BioType
  <2>3. ref[b] = Cardinality(PointTo(ptr, b)) + (IF b \in Listed THEN 1 ELSE 0) + lost[b]
        /\ (b \in alive <=> ref[b] > 0)
    BY DEF BioInv, RefsCounted
  <2>4. ref'[b] = ref[b] - (IF b \in Released(a) THEN 1 ELSE 0)
    BY <1>1, <2>2
  <2>5. ref'[b] = Cardinality(PointTo(ptr', b)) + (IF b \in Listed' THEN 1 ELSE 0) + lost'[b]
    BY <1>1, <1>2, <2>1, <2>2, <2>3, <2>4
  <2>6. b \in alive' <=> ref'[b] > 0
    <3>1. CASE b \in Listed
      <4>1. b \in alive /\ b \notin Gone(a)
        BY <1>3, <3>1 DEF BioInv, DevicesOK
      <4>2. ref'[b] > 0
        BY <2>5, <2>2, <3>1, <1>2, <1>1
      <4> QED
        BY <4>1, <4>2, <1>1
    <3>2. CASE b \notin Listed
      <4>1. b # p \/ ref[a] # 1
        BY <1>3, <3>2 DEF BioInv, DevicesOK
      <4>2. b \in Released(a) <=> b = a
        BY <1>4, <4>1
      <4> QED
        BY <1>1, <1>2, <1>3, <2>2, <2>3, <2>4, <4>2
    <3> QED
      BY <3>1, <3>2
  <2> QED
    BY <2>5, <2>6
<1>8. (\A b \in Listed : info'[b] = info[b]) /\ ptr'[h] = NULL
      /\ \A u \in Holders \ {h} : ptr'[u] = ptr[u]
  BY <1>1, <1>2, <1>3, BioAssumption DEF Listed, Users
<1> QED
  BY <1>1, <1>5, <1>6, <1>7, <1>8 DEF BioInv

\* The error path of partition_publish(): the reference is not given up with the
\* pointer.
LEMMA ForgetKeeps ==
  ASSUME BioInv, NEW h \in Holders, ptr[h] # NULL, Forget(h)
  PROVE  /\ BioInv'
         /\ UNCHANGED <<bdevs, alive, info>>
         /\ ptr'[h] = NULL /\ \A u \in Holders \ {h} : ptr'[u] = ptr[u]
<1> DEFINE a == ptr[h]
<1>1. /\ lost' = [lost EXCEPT ![a] = @ + 1] /\ ptr' = [ptr EXCEPT ![h] = NULL]
      /\ UNCHANGED <<bdevs, alive, info, ref>>
  BY DEF Forget
<1>2. /\ h \in Users /\ h \notin Addrs /\ NULL \notin Addrs /\ Listed' = Listed
      /\ a \in alive /\ a \in Addrs
  BY <1>1, BioAssumption DEF BioInv, BioType, DevicesOK, Users, Listed
<1> HIDE DEF a
<1>3. BioType'
  BY <1>1, <1>2 DEF BioInv, BioType
<1>4. DevicesOK'
  BY <1>1, <1>2, BioAssumption DEF BioInv, BioType, DevicesOK, Users
<1>5. RefsCounted'
  <2> SUFFICES ASSUME NEW b \in Addrs
      PROVE  /\ ref'[b] = Cardinality(PointTo(ptr', b)) + (IF b \in Listed' THEN 1 ELSE 0) + lost'[b]
             /\ b \in alive' <=> ref'[b] > 0
    BY DEF RefsCounted, PointTo
  <2>1. /\ ptr \in [Users -> Addrs \cup {NULL}] /\ ptr' \in [Users -> Addrs \cup {NULL}]
        /\ ptr'[h] = NULL /\ ptr[h] = a /\ \A u \in Users \ {h} : ptr'[u] = ptr[u]
    BY <1>1, <1>2, <1>3 DEF BioInv, BioType, a
  <2>2. Cardinality(PointTo(ptr', b)) =
          Cardinality(PointTo(ptr, b)) + (IF b = ptr'[h] THEN 1 ELSE 0) - (IF b = ptr[h] THEN 1 ELSE 0)
    BY <1>2, <2>1, Repoint
  <2>3. Cardinality(PointTo(ptr, b)) \in Nat /\ ref[b] \in Nat /\ lost[b] \in Nat
    BY PointersFinite DEF BioInv, BioType
  <2>4. ref[b] = Cardinality(PointTo(ptr, b)) + (IF b \in Listed THEN 1 ELSE 0) + lost[b]
        /\ (b \in alive <=> ref[b] > 0)
    BY DEF BioInv, RefsCounted
  <2>5. lost'[b] = lost[b] + (IF b = a THEN 1 ELSE 0)
    BY <1>1, <2>3 DEF BioInv, BioType
  <2> QED
    BY <1>1, <1>2, <2>1, <2>2, <2>3, <2>4, <2>5
<1> QED
  BY <1>1, <1>2, <1>3, <1>4, <1>5, BioAssumption DEF BioInv, BioType, Users

\* bio_unregister_device() of a sub-device that is still listed: the variable
\* keeps a reference, and so does everybody else.
LEMMA UnregisterKeeps ==
  ASSUME BioInv, NEW h \in Holders, ptr[h] \in Listed, ptr[h] \notin Roots,
         bio_unregister_device(h)
  PROVE  /\ BioInv'
         /\ UNCHANGED <<alive, info, ptr>>
         /\ Listed' = Listed \ {ptr[h]}
<1> DEFINE a == ptr[h]
<1>1. /\ bdevs' = Without(bdevs, a)
      /\ ref' = [x \in Addrs |-> IF x \in Released(a) THEN ref[x] - 1 ELSE ref[x]]
      /\ alive' = alive \ Gone(a)
      /\ info' = [x \in Addrs |-> IF x \in Gone(a) THEN NoInfo ELSE info[x]]
      /\ ptr' = [x \in Users |-> IF x = NULL \/ x \in Gone(a) THEN NULL ELSE ptr[x]]
      /\ lost' = lost
  BY DEF bio_unregister_device, bdev_dec_ref
<1>2. h \in Users /\ NULL \notin Users /\ a \in alive /\ a \in Addrs /\ a \in Listed
  BY BioAssumption DEF BioInv, DevicesOK, Users, Listed
<1>3. ref[a] # 1 /\ ref[a] > 0 /\ ref[a] \in Nat
  BY <1>2, GoneAlone DEF BioInv, RefsCounted, BioType
<1>4. Gone(a) = {} /\ Released(a) = {a}
  BY <1>2, <1>3, GoneAlone DEF Released
<1> HIDE DEF a
<1>5. UNCHANGED <<alive, info, ptr>>
  BY <1>1, <1>2, <1>4 DEF BioInv, BioType
<1>6. bdevs' \in Seq(Addrs) /\ Distinct(bdevs') /\ Listed' = Listed \ {a}
  <2>1. /\ Without(bdevs, a) \in Seq(Addrs) /\ Distinct(Without(bdevs, a))
        /\ \A u : OccursIn(u, Without(bdevs, a)) <=> OccursIn(u, bdevs) /\ u # a
    BY WithoutFacts DEF BioInv, BioType
  <2> QED
    BY <1>1, <2>1 DEF Listed
<1>7. BioType'
  BY <1>1, <1>2, <1>3, <1>4, <1>5, <1>6 DEF BioInv, BioType
<1>8. DevicesOK'
  BY <1>2, <1>5, <1>6 DEF BioInv, DevicesOK, a
<1>9. RefsCounted'
  <2> SUFFICES ASSUME NEW b \in Addrs
      PROVE  /\ ref'[b] = Cardinality(PointTo(ptr, b)) + (IF b \in Listed' THEN 1 ELSE 0) + lost[b]
             /\ b \in alive <=> ref'[b] > 0
    BY <1>1, <1>5 DEF RefsCounted, PointTo
  <2>1. Cardinality(PointTo(ptr, b)) \in Nat /\ ref[b] \in Nat /\ lost[b] \in Nat
    BY PointersFinite DEF BioInv, BioType
  <2>2. ref[b] = Cardinality(PointTo(ptr, b)) + (IF b \in Listed THEN 1 ELSE 0) + lost[b]
        /\ (b \in alive <=> ref[b] > 0)
    BY DEF BioInv, RefsCounted
  <2>3. ref'[b] = ref[b] - (IF b = a THEN 1 ELSE 0)
    BY <1>1, <1>4, <2>1
  <2> QED
    BY <1>2, <1>3, <1>6, <2>1, <2>2, <2>3
<1> QED
  BY <1>5, <1>6, <1>7, <1>8, <1>9 DEF BioInv, a

\* What bio_publish_subdevice() does for a root and a number that is free.
Published(r, n, a, start, len) ==
  /\ a \in Addrs \ (alive \cup Roots)
  /\ Listed' = Listed \cup {a} /\ alive' = alive \cup {a}
  /\ info' = [info EXCEPT ![a] = [name |-> <<r, n>>, offset |-> start, block_count |-> len]]
  /\ ptr' = [ptr EXCEPT ![a] = r]

\* bio_publish_subdevice() under a name that no listed device has.
LEMMA PublishKeeps ==
  ASSUME BioInv, NEW r \in Roots, NEW n \in Parts, NEW start \in Nat, NEW len \in Nat,
         \A b \in Listed : info[b].name # <<r, n>>,
         bio_publish_subdevice(<<r, Whole>>, <<r, n>>, start, len)
  PROVE  /\ BioInv'
         /\ \/ UNCHANGED <<bdevs, alive, info, ptr>>
            \/ \E a \in Addrs : Published(r, n, a, start, len)
<1>0. r \in Addrs /\ r \in Listed /\ r \in alive /\ r \in Users
  BY BioAssumption DEF BioInv, DevicesOK, Listed, Users
<1>1. \/ /\ ref' = [ref EXCEPT ![r] = @ + 1] /\ lost' = [lost EXCEPT ![r] = @ + 1]
         /\ UNCHANGED <<bdevs, alive, info, ptr>>
      \/ \E a \in Addrs \ (alive \cup Roots) :
           /\ bdevs' = <<a>> \o bdevs /\ alive' = alive \cup {a}
           /\ info' = [info EXCEPT ![a] = [name |-> <<r, n>>, offset |-> start, block_count |-> len]]
           /\ ref' = [ref EXCEPT ![a] = 1, ![r] = @ + 1]
           /\ ptr' = [ptr EXCEPT ![a] = r] /\ lost' = lost
  BY OpensRoot DEF bio_publish_subdevice
<1>2. CASE /\ ref' = [ref EXCEPT ![r] = @ + 1] /\ lost' = [lost EXCEPT ![r] = @ + 1]
           /\ UNCHANGED <<bdevs, alive, info, ptr>>
  <2>1. BioType'
    BY <1>2, <1>0 DEF BioInv, BioType
  <2>2. Listed' = Listed
    BY <1>2 DEF Listed
  <2>3. DevicesOK'
    BY <1>2, <2>2 DEF BioInv, DevicesOK
  <2>4. RefsCounted'
    <3> SUFFICES ASSUME NEW b \in Addrs
        PROVE  /\ ref'[b] = Cardinality(PointTo(ptr, b)) + (IF b \in Listed THEN 1 ELSE 0) + lost'[b]
               /\ b \in alive <=> ref'[b] > 0
      BY <1>2, <2>2 DEF RefsCounted, PointTo
    <3>1. Cardinality(PointTo(ptr, b)) \in Nat /\ ref[b] \in Nat /\ lost[b] \in Nat
      BY PointersFinite DEF BioInv, BioType
    <3>2. ref[b] = Cardinality(PointTo(ptr, b)) + (IF b \in Listed THEN 1 ELSE 0) + lost[b]
          /\ (b \in alive <=> ref[b] > 0)
      BY DEF BioInv, RefsCounted
    <3>3. /\ ref'[b] = ref[b] + (IF b = r THEN 1 ELSE 0)
          /\ lost'[b] = lost[b] + (IF b = r THEN 1 ELSE 0)
      BY <1>2, <3>1 DEF BioInv, BioType
    <3> QED
      BY <1>0, <3>1, <3>2, <3>3
  <2> QED
    BY <1>2, <2>1, <2>3, <2>4 DEF BioInv
<1>3. ASSUME NEW a \in Addrs \ (alive \cup Roots),
             bdevs' = <<a>> \o bdevs, alive' = alive \cup {a},
             info' = [info EXCEPT ![a] = [name |-> <<r, n>>, offset |-> start, block_count |-> len]],
             ref' = [ref EXCEPT ![a] = 1, ![r] = @ + 1],
             ptr' = [ptr EXCEPT ![a] = r], lost' = lost
      PROVE  BioInv' /\ Published(r, n, a, start, len)
  <2>1. /\ a \in Users /\ a # r /\ a \notin Listed /\ ~OccursIn(a, bdevs) /\ NULL \notin Addrs
        /\ ptr[a] = NULL
    BY <1>0, BioAssumption DEF BioInv, DevicesOK, Listed, Users
  <2>2. bdevs' \in Seq(Addrs) /\ Distinct(bdevs') /\ Listed' = Listed \cup {a}
    <3>1. /\ <<a>> \o bdevs \in Seq(Addrs) /\ Distinct(<<a>> \o bdevs)
          /\ \A u : OccursIn(u, <<a>> \o bdevs) <=> OccursIn(u, bdevs) \/ u = a
      BY <2>1, PushFacts DEF BioInv, BioType
    <3> QED
      BY <1>3, <3>1 DEF Listed
  <2>3. <<r, n>> \in Roots \X Parts
        /\ [name |-> <<r, n>>, offset |-> start, block_count |-> len] \in Info
    BY DEF Info, Names
  <2>4. BioType'
    <3>1. info' \in [Addrs -> Info \cup {NoInfo}]
      <4> DEFINE new == [name |-> <<r, n>>, offset |-> start, block_count |-> len]
      <4>1. new \in Info /\ info' = [info EXCEPT ![a] = new]
        BY <1>3, <2>3
      <4> HIDE DEF new
      <4> QED
        BY <4>1 DEF BioInv, BioType
    <3>2. ptr' \in [Users -> Addrs \cup {NULL}] /\ alive' \subseteq Addrs /\ lost' \in [Addrs -> Nat]
      BY <1>0, <1>3 DEF BioInv, BioType
    <3>3. ref' \in [Addrs -> Nat]
      <4>1. ref \in [Addrs -> Nat] /\ ref[r] + 1 \in Nat
        BY <1>0 DEF BioInv, BioType
      <4>2. ref' = [[ref EXCEPT ![a] = 1] EXCEPT ![r] = [ref EXCEPT ![a] = 1][r] + 1]
        BY <1>3
      <4>3. [ref EXCEPT ![a] = 1][r] = ref[r]
        BY <1>0, <2>1, <4>1
      <4> QED
        BY <1>0, <2>1, <4>1, <4>2, <4>3
    <3> QED
      BY <2>2, <3>1, <3>2, <3>3 DEF BioType
  <2>5. /\ info'[a] = [name |-> <<r, n>>, offset |-> start, block_count |-> len]
        /\ info'[a].name = <<r, n>> /\ ptr'[a] = r
        /\ \A b \in Addrs \ {a} : info'[b] = info[b]
        /\ \A u \in Users \ {a} : ptr'[u] = ptr[u]
    BY <1>3, <2>1 DEF BioInv, BioType
  <2>6. DevicesOK'
    <3>1. Roots \subseteq Listed' /\ Listed' \subseteq alive'
      BY <1>3, <2>2 DEF BioInv, DevicesOK
    <3>2. \A b \in Roots : info'[b].name = <<b, Whole>> /\ ptr'[b] = NULL
      <4>1. \A b \in Roots : info'[b] = info[b] /\ ptr'[b] = ptr[b]
        BY <2>5, BioAssumption DEF Users
      <4> QED
        BY <4>1 DEF BioInv, DevicesOK
    <3>3. \A b \in alive' \ Roots : ptr'[b] \in Roots /\ info'[b] \in Info
                                    /\ info'[b].name \in Roots \X Parts
      BY <1>3, <2>3, <2>5 DEF BioInv, BioType, DevicesOK, Users
    <3>4. \A b \in Addrs \ alive' : ptr'[b] = NULL
      BY <1>3, <2>5 DEF BioInv, DevicesOK, Users
    <3>5. \A u \in Users : ptr'[u] # NULL => ptr'[u] \in alive'
      BY <1>0, <1>3, <2>5 DEF BioInv, DevicesOK
    <3>6. \A b, c \in Listed' : info'[b].name = info'[c].name => b = c
      BY <2>2, <2>5 DEF BioInv, DevicesOK, Listed
    <3> QED
      BY <3>1, <3>2, <3>3, <3>4, <3>5, <3>6 DEF DevicesOK
  <2>7. RefsCounted'
    <3> SUFFICES ASSUME NEW b \in Addrs
        PROVE  /\ ref'[b] = Cardinality(PointTo(ptr', b)) + (IF b \in Listed' THEN 1 ELSE 0) + lost[b]
               /\ b \in alive' <=> ref'[b] > 0
      BY <1>3 DEF RefsCounted, PointTo
    <3>1. ptr \in [Users -> Addrs \cup {NULL}] /\ ptr' \in [Users -> Addrs \cup {NULL}]
      BY <2>4 DEF BioInv, BioType
    <3>2. Cardinality(PointTo(ptr', b)) =
            Cardinality(PointTo(ptr, b)) + (IF b = ptr'[a] THEN 1 ELSE 0) - (IF b = ptr[a] THEN 1 ELSE 0)
      BY <1>0, <2>1, <2>5, <3>1, Repoint
    <3>3. Cardinality(PointTo(ptr, b)) \in Nat /\ ref[b] \in Nat /\ lost[b] \in Nat
      BY PointersFinite DEF BioInv, BioType
    <3>4. ref[b] = Cardinality(PointTo(ptr, b)) + (IF b \in Listed THEN 1 ELSE 0) + lost[b]
          /\ (b \in alive <=> ref[b] > 0)
      BY DEF BioInv, RefsCounted
    <3>5. ref'[b] = IF b = a THEN 1 ELSE ref[b] + (IF b = r THEN 1 ELSE 0)
      BY <1>3, <2>1, <3>3 DEF BioInv, BioType
    <3>6. Cardinality(PointTo(ptr', b)) = Cardinality(PointTo(ptr, b)) + (IF b = r THEN 1 ELSE 0)
      BY <2>1, <2>5, <3>2, <3>3
    <3>7. alive' = alive \cup {a} /\ a \notin alive
      BY <1>3
    <3>8. CASE b = a
      <4>1. b # r /\ b \in Listed' /\ b \notin Listed /\ b \notin alive /\ b \in alive' /\ ref'[b] = 1
        BY <2>1, <2>2, <3>5, <3>7, <3>8
      <4> QED
        BY <3>3, <3>4, <3>6, <4>1
    <3>9. CASE b # a
      <4>1. (b \in Listed' <=> b \in Listed) /\ (b \in alive' <=> b \in alive)
        BY <2>2, <3>7, <3>9
      <4> QED
        BY <1>0, <3>3, <3>4, <3>5, <3>6, <3>9, <4>1
    <3> QED
      BY <3>8, <3>9
  <2> QED
    BY <1>3, <2>2, <2>4, <2>6, <2>7 DEF BioInv, Published
<1> QED
  BY <1>1, <1>2, <1>3

-----------------------------------------------------------------------------
(* The partition thread.                                                   *)

\* VacantAt at each place.
LEMMA VacantCases ==
  ASSUME NEW e
  PROVE  /\ VacantAt("mmc", e) = {n \in Parts : n > e}
         /\ VacantAt("unpublish", e) = 0 .. e - 1 /\ VacantAt("unregister", e) = 0 .. e - 1
         /\ VacantAt("close", e) = 0 .. e
         /\ VacantAt("open", e) = 0 .. Unpublished - 1
         /\ VacantAt("read", e) = 0 .. Unpublished - 1
         /\ VacantAt("entry", e) = e .. MbrEntries - 1
         /\ VacantAt("idle", e) = {} /\ VacantAt("done", e) = {}
  BY DEF VacantAt

\* Who else opens and closes devices leaves the partition thread alone.
LEMMA ScanFrame ==
  ASSUME ScanOK, NamesVacant, UNCHANGED partVars, UNCHANGED bdevs,
         \A b \in Listed : info'[b] = info[b], ptr'[Scan] = ptr[Scan]
  PROVE  ScanOK' /\ NamesVacant'
<1>1. Listed' = Listed
  BY DEF Listed
<1>2. pc' = pc /\ root' = root /\ entry' = entry /\ again' = again
  BY DEF partVars
<1>3. ScanOK'
  BY <1>1, <1>2 DEF ScanOK
<1>4. NamesVacant'
  BY <1>1, <1>2 DEF NamesVacant, VacantAt
<1> QED
  BY <1>3, <1>4

ScanStep ==
  /\ BioInv' /\ ScanOK' /\ NamesVacant'
  /\ \A u \in Holders \ {Scan} : ptr'[u] = ptr[u]

\* A loop that publishes <<root, k>> and goes on: what it lists is that name only.
LEMMA PublishNames ==
  ASSUME BioInv, NEW k \in Parts, root \in Roots, NEW start \in Nat, NEW len \in Nat,
         \A b \in Listed : info[b].name # <<root, k>>,
         bio_publish_subdevice(<<root, Whole>>, <<root, k>>, start, len)
  PROVE  /\ BioInv'
         /\ \A u \in Holders : ptr'[u] = ptr[u]
         /\ \A b \in Listed' : info'[b].name = <<root, k>> \/ (b \in Listed /\ info'[b] = info[b])
<1>1. /\ BioInv'
      /\ \/ UNCHANGED <<bdevs, alive, info, ptr>>
         \/ \E a \in Addrs : Published(root, k, a, start, len)
  BY PublishKeeps
<1>2. CASE UNCHANGED <<bdevs, alive, info, ptr>>
  BY <1>1, <1>2 DEF Listed
<1>3. ASSUME NEW a \in Addrs, Published(root, k, a, start, len)
      PROVE  /\ \A u \in Holders : ptr'[u] = ptr[u]
             /\ \A b \in Listed' : info'[b].name = <<root, k>> \/ (b \in Listed /\ info'[b] = info[b])
  <2>1. ptr' = [ptr EXCEPT ![a] = root] /\ Listed' = Listed \cup {a}
        /\ info' = [info EXCEPT ![a] = [name |-> <<root, k>>, offset |-> start, block_count |-> len]]
    BY <1>3 DEF Published
  <2>2. \A u \in Holders : ptr'[u] = ptr[u]
    BY <2>1, BioAssumption DEF BioInv, BioType, Users
  <2>3. info'[a].name = <<root, k>> /\ \A b \in Addrs \ {a} : info'[b] = info[b]
    BY <2>1 DEF BioInv, BioType
  <2>4. Listed \subseteq Addrs
    BY DEF Listed
  <2> QED
    BY <2>1, <2>2, <2>3, <2>4
<1> QED
  BY <1>1, <1>2, <1>3

\* What mmc_boot_main() publishes at start-up keeps the invariant.
LEMMA MmcStep ==
  ASSUME BioInv, ScanOK, NamesVacant, mmc_boot_main
  PROVE  ScanStep
<1>0. /\ pc = "mmc" /\ root' = root /\ again' = again /\ root \in Roots /\ entry \in Nat
      /\ entry < MmcEntries /\ ptr[Scan] = NULL /\ again \in BOOLEAN /\ MmcEntries \in Nat
      /\ Scan \in Holders
  BY PartitionAssumption DEF mmc_boot_main, ScanOK
<1>1. CASE /\ \E e \in Entries :
                bio_publish_subdevice(<<root, Whole>>, <<root, entry + 1>>, e.lba_start,
                                      (e.lba_length * BlockSize) % Word)
           /\ Step(MmcEntries, "mmc", "idle")
  <2>1. PICK e \in Entries :
          bio_publish_subdevice(<<root, Whole>>, <<root, entry + 1>>, e.lba_start,
                                (e.lba_length * BlockSize) % Word)
    BY <1>1
  <2>2. e.lba_start \in Nat /\ (e.lba_length * BlockSize) % Word \in Nat
    <3>1. e.lba_start \in Nat /\ e.lba_length \in Nat /\ BlockSize \in Nat /\ Word \in Nat /\ Word > 0
      BY BioAssumption, PartitionAssumption
    <3>2. e.lba_length * BlockSize \in Nat
      BY <3>1
    <3> QED
      BY <3>1, <3>2
  <2>3. entry + 1 \in Parts
    BY <1>0, PartitionAssumption
  <2>4. \A n \in Parts : n > entry => \A b \in Listed : info[b].name # <<root, n>>
    BY <1>0, VacantCases DEF NamesVacant
  <2>5. \A b \in Listed : info[b].name # <<root, entry + 1>>
    BY <1>0, <2>3, <2>4
  <2>6. /\ BioInv'
        /\ \A u \in Holders : ptr'[u] = ptr[u]
        /\ \A b \in Listed' : info'[b].name = <<root, entry + 1>> \/ (b \in Listed /\ info'[b] = info[b])
    BY <1>0, <2>1, <2>2, <2>3, <2>5, PublishNames
  <2>7. \/ entry + 1 < MmcEntries /\ entry' = entry + 1 /\ pc' = "mmc"
        \/ entry' = 0 /\ pc' = "idle"
    BY <1>1 DEF Step
  <2>8. ScanOK'
    BY <1>0, <2>6, <2>7 DEF ScanOK
  <2>9. NamesVacant'
    <3>1. CASE pc' = "idle"
      BY <3>1, VacantCases DEF NamesVacant
    <3>2. CASE entry' = entry + 1 /\ pc' = "mmc"
      <4>1. VacantAt(pc', entry') = {n \in Parts : n > entry + 1}
        BY <3>2, VacantCases
      <4>2. Parts \subseteq Nat
        BY BioAssumption
      <4>3. ASSUME NEW n \in Parts, n > entry + 1, NEW b \in Listed'
            PROVE  info'[b].name # <<root, n>>
        <5>1. n > entry /\ n # entry + 1
          BY <1>0, <4>2, <4>3
        <5>2. <<root, entry + 1>> # <<root, n>>
          BY <5>1
        <5>3. b \in Listed => info[b].name # <<root, n>>
          BY <2>4, <5>1
        <5> QED
          BY <2>6, <5>2, <5>3
      <4> QED
        BY <1>0, <4>1, <4>3 DEF NamesVacant
    <3> QED
      BY <2>7, <3>1, <3>2
  <2> QED
    BY <2>6, <2>8, <2>9 DEF ScanStep
<1>2. CASE pc' = "idle" /\ entry' = 0 /\ UNCHANGED bioVars
  <2>1. BioInv' /\ ptr' = ptr
    BY <1>2 DEF bioVars, BioInv, BioType, DevicesOK, RefsCounted, Listed, PointTo
  <2>2. ScanOK'
    BY <1>0, <1>2, <2>1 DEF ScanOK
  <2>3. NamesVacant'
    BY <1>2, VacantCases DEF NamesVacant
  <2> QED
    BY <2>1, <2>2, <2>3 DEF ScanStep
<1> QED
  BY <1>1, <1>2 DEF mmc_boot_main

\* A step that does not touch the devices.
LEMMA BioStutter ==
  ASSUME BioInv, UNCHANGED bioVars
  PROVE  BioInv' /\ Listed' = Listed /\ info' = info /\ ptr' = ptr
  BY DEF bioVars, BioInv, BioType, DevicesOK, RefsCounted, Listed, PointTo

\* Beginning partition_unpublish() or partition_publish() on a root.
LEMMA CallStep ==
  ASSUME BioInv, ScanOK, NamesVacant, NEW r \in Roots, Call(r)
  PROVE  ScanStep
<1>1. /\ pc = "idle" /\ pc' = "unpublish" /\ root' = r /\ entry' = 0 /\ again' \in BOOLEAN
      /\ UNCHANGED bioVars
  BY DEF Call
<1>2. BioInv' /\ Listed' = Listed /\ info' = info /\ ptr' = ptr
  BY <1>1, BioStutter
<1>3. ScanOK'
  BY <1>1, <1>2, PartitionAssumption DEF ScanOK
<1>4. VacantAt(pc', entry') = 0 .. 0 - 1
  BY <1>1, VacantCases
<1>5. NamesVacant'
  BY <1>4 DEF NamesVacant
<1> QED
  BY <1>2, <1>3, <1>5 DEF ScanStep

\* Names are unique, so bio_open() finds what is listed by a name.
LEMMA ListedOpens ==
  ASSUME BioInv, NEW b \in Listed
  PROVE  Exists(info[b].name)
<1>1. PICK i \in 1 .. Len(bdevs) : bdevs[i] = b
  BY DEF Listed, OccursIn
<1>2. bdevs \in Seq(Addrs) /\ Distinct(bdevs) /\ b \in Addrs
  BY DEF BioInv, BioType, Listed
<1>3. ASSUME NEW j \in 1 .. i - 1, info[bdevs[j]].name = info[b].name PROVE FALSE
  <2>1. j \in 1 .. Len(bdevs) /\ j # i /\ bdevs[j] \in Addrs
    BY <1>2
  <2>2. bdevs[j] \in Listed
    BY <2>1 DEF Listed, OccursIn
  <2>3. bdevs[j] = b
    BY <1>3, <2>2 DEF BioInv, DevicesOK
  <2> QED
    BY <1>1, <1>2, <2>1, <2>3 DEF Distinct
<1> QED
  BY <1>1, <1>2, <1>3 DEF Exists, Opens

\* The loop of partition_unpublish() goes on behind a name that nobody has.
LEMMA UnpublishAdvances ==
  ASSUME ScanOK, entry < Unpublished, BioInv', ptr'[Scan] = NULL,
         Step(Unpublished, "unpublish", AfterUnpublish), UNCHANGED <<root, again>>,
         \A n \in 0 .. entry : \A b \in Listed' : info'[b].name # <<root, n>>,
         \A u \in Holders \ {Scan} : ptr'[u] = ptr[u]
  PROVE  ScanStep
<1>0. entry \in Nat /\ Unpublished \in Nat \ {0} /\ root' = root /\ again' = again
  BY PartitionAssumption DEF ScanOK
<1>1. CASE entry + 1 < Unpublished /\ entry' = entry + 1 /\ pc' = "unpublish"
  <2>1. ScanOK'
    BY <1>0, <1>1 DEF ScanOK
  <2>2. VacantAt(pc', entry') = 0 .. entry' - 1
    BY <1>1, VacantCases
  <2>3. 0 .. entry' - 1 = 0 .. entry
    BY <1>0, <1>1
  <2>4. NamesVacant'
    BY <1>0, <2>2, <2>3 DEF NamesVacant
  <2> QED
    BY <2>1, <2>4 DEF ScanStep
<1>2. CASE entry + 1 >= Unpublished /\ entry' = 0 /\ pc' = "open"
  <2>1. ScanOK'
    BY <1>0, <1>2 DEF ScanOK
  <2>2. VacantAt(pc', entry') = 0 .. Unpublished - 1
    BY <1>2, VacantCases
  <2>3. 0 .. Unpublished - 1 \subseteq 0 .. entry
    BY <1>0, <1>2
  <2>4. NamesVacant'
    BY <1>0, <2>2, <2>3 DEF NamesVacant
  <2> QED
    BY <2>1, <2>4 DEF ScanStep
<1>3. CASE entry' = 0 /\ pc' = "idle"
  <2>1. ScanOK'
    BY <1>0, <1>3 DEF ScanOK
  <2>2. NamesVacant'
    BY <1>3, VacantCases DEF NamesVacant
  <2> QED
    BY <2>1, <2>2 DEF ScanStep
<1> QED
  BY <1>0, <1>1, <1>2, <1>3 DEF Step, AfterUnpublish

\* Each turn of partition_unpublish() leaves one more name vacant.
LEMMA UnpublishStep ==
  ASSUME BioInv, ScanOK, NamesVacant, partition_unpublish
  PROVE  ScanStep
<1>0. /\ root \in Roots /\ entry \in Nat /\ again \in BOOLEAN /\ Scan \in Holders
      /\ Unpublished \in Nat
  BY PartitionAssumption DEF ScanOK
<1>1. CASE /\ pc = "unpublish" /\ bio_open(Scan, <<root, entry>>)
           /\ pc' = "unregister" /\ UNCHANGED <<root, entry, again>>
  <2>1. ptr[Scan] = NULL /\ entry < Unpublished
    BY <1>1 DEF ScanOK
  <2>2. BioInv' /\ UNCHANGED <<bdevs, alive, info, lost>>
        /\ \E a \in Listed : info[a].name = <<root, entry>> /\ ptr' = [ptr EXCEPT ![Scan] = a]
    BY <1>0, <1>1, <2>1, OpenKeeps
  <2>3. PICK a \in Listed : info[a].name = <<root, entry>> /\ ptr' = [ptr EXCEPT ![Scan] = a]
    BY <2>2
  <2>4. Listed' = Listed
    BY <2>2 DEF Listed
  <2>5. ptr'[Scan] = a /\ \A u \in Holders \ {Scan} : ptr'[u] = ptr[u]
    BY <1>0, <2>3 DEF BioInv, BioType, Users
  <2>6. ScanOK'
    BY <1>0, <1>1, <2>1, <2>2, <2>3, <2>4, <2>5 DEF ScanOK
  <2>7. VacantAt(pc', entry') = VacantAt(pc, entry)
    BY <1>1, VacantCases
  <2>8. NamesVacant'
    BY <1>1, <2>2, <2>4, <2>7 DEF NamesVacant
  <2> QED
    BY <2>2, <2>5, <2>6, <2>8 DEF ScanStep
<1>2. CASE /\ pc = "unpublish" /\ ~Exists(<<root, entry>>)
           /\ Step(Unpublished, "unpublish", AfterUnpublish) /\ UNCHANGED <<bioVars, root, again>>
  <2>1. ptr[Scan] = NULL /\ entry < Unpublished
    BY <1>2 DEF ScanOK
  <2>2. BioInv' /\ Listed' = Listed /\ info' = info /\ ptr' = ptr
    BY <1>2, BioStutter
  <2>3. \A n \in 0 .. entry - 1 : \A b \in Listed : info[b].name # <<root, n>>
    BY <1>2, VacantCases DEF NamesVacant
  <2>4. \A b \in Listed : info[b].name # <<root, entry>>
    BY <1>2, ListedOpens
  <2>5. \A n \in 0 .. entry : n \in 0 .. entry - 1 \/ n = entry
    BY <1>0
  <2>6. \A n \in 0 .. entry : \A b \in Listed' : info'[b].name # <<root, n>>
    BY <2>2, <2>3, <2>4, <2>5
  <2> QED
    BY <1>2, <2>1, <2>2, <2>6, UnpublishAdvances
<1>3. CASE /\ pc = "unregister" /\ bio_unregister_device(Scan)
           /\ pc' = "close" /\ UNCHANGED <<root, entry, again>>
  <2>1. ptr[Scan] \in Listed /\ info[ptr[Scan]].name = <<root, entry>> /\ entry < Unpublished
    BY <1>3 DEF ScanOK
  <2>2. ptr[Scan] \notin Roots /\ ptr[Scan] # NULL
    <3>1. <<root, entry>>[2] # Whole
      BY <1>0 DEF Whole
    <3> QED
      BY <2>1, <3>1, BioAssumption DEF BioInv, DevicesOK, Listed
  <2>3. BioInv' /\ UNCHANGED <<alive, info, ptr>> /\ Listed' = Listed \ {ptr[Scan]}
    BY <1>0, <1>3, <2>1, <2>2, UnregisterKeeps
  <2>4. ScanOK'
    BY <1>0, <1>3, <2>1, <2>2, <2>3 DEF ScanOK
  <2>5. \A n \in 0 .. entry - 1 : \A b \in Listed : info[b].name # <<root, n>>
    BY <1>3, VacantCases DEF NamesVacant
  <2>6. \A b \in Listed' : info[b].name # <<root, entry>>
    BY <2>1, <2>3 DEF BioInv, DevicesOK
  <2>7. \A n \in 0 .. entry : n \in 0 .. entry - 1 \/ n = entry
    BY <1>0
  <2>8. VacantAt(pc', entry') = 0 .. entry
    BY <1>3, VacantCases
  <2>9. NamesVacant'
    BY <1>3, <2>3, <2>5, <2>6, <2>7, <2>8 DEF NamesVacant
  <2> QED
    BY <2>3, <2>4, <2>9 DEF ScanStep
<1>4. CASE /\ pc = "close" /\ bio_close(Scan)
           /\ Step(Unpublished, "unpublish", AfterUnpublish) /\ UNCHANGED <<root, again>>
  <2>1. ptr[Scan] # NULL /\ entry < Unpublished
    BY <1>4 DEF ScanOK
  <2>2. /\ BioInv' /\ UNCHANGED bdevs /\ ptr'[Scan] = NULL
        /\ \A b \in Listed : info'[b] = info[b]
        /\ \A u \in Holders \ {Scan} : ptr'[u] = ptr[u]
    BY <1>0, <1>4, <2>1, CloseKeeps
  <2>3. \A n \in 0 .. entry : \A b \in Listed : info[b].name # <<root, n>>
    BY <1>4, VacantCases DEF NamesVacant
  <2>4. Listed' = Listed
    BY <2>2 DEF Listed
  <2>5. \A n \in 0 .. entry : \A b \in Listed' : info'[b].name # <<root, n>>
    BY <2>2, <2>3, <2>4
  <2> QED
    BY <1>4, <2>1, <2>2, <2>5, UnpublishAdvances
<1> QED
  BY <1>1, <1>2, <1>3, <1>4 DEF partition_unpublish

\* Each turn of partition_publish() publishes under a vacant name.
LEMMA PublishStep ==
  ASSUME BioInv, ScanOK, NamesVacant, partition_publish
  PROVE  ScanStep
<1>0. /\ root \in Roots /\ entry \in Nat /\ again \in BOOLEAN /\ Scan \in Holders
      /\ Unpublished \in Nat /\ MbrEntries \in Nat \ {0} /\ MbrEntries <= Unpublished
      /\ NULL \notin Roots
  BY BioAssumption, PartitionAssumption DEF ScanOK
<1>1. CASE /\ pc = "open" /\ bio_open(Scan, <<root, Whole>>)
           /\ pc' = "read" /\ UNCHANGED <<root, entry, again>>
  <2>1. ptr[Scan] = NULL /\ entry = 0
    BY <1>1 DEF ScanOK
  <2>2. BioInv' /\ UNCHANGED <<bdevs, alive, info, lost>>
        /\ \E a \in Listed : info[a].name = <<root, Whole>> /\ ptr' = [ptr EXCEPT ![Scan] = a]
    BY <1>0, <1>1, <2>1, OpenKeeps
  <2>3. ptr' = [ptr EXCEPT ![Scan] = root]
    <3>1. PICK a \in Listed : info[a].name = <<root, Whole>> /\ ptr' = [ptr EXCEPT ![Scan] = a]
      BY <2>2
    <3>2. root \in Listed /\ info[root].name = <<root, Whole>>
      BY <1>0 DEF BioInv, DevicesOK
    <3>3. a = root
      BY <3>1, <3>2 DEF BioInv, DevicesOK
    <3> QED
      BY <3>1, <3>3
  <2>4. ptr'[Scan] = root /\ \A u \in Holders \ {Scan} : ptr'[u] = ptr[u]
    BY <1>0, <2>3 DEF BioInv, BioType, Users
  <2>5. ScanOK'
    BY <1>0, <1>1, <2>1, <2>4 DEF ScanOK
  <2>6. Listed' = Listed /\ VacantAt(pc', entry') = VacantAt(pc, entry)
    BY <1>1, <2>2, VacantCases DEF Listed
  <2>7. NamesVacant'
    BY <1>1, <2>2, <2>6 DEF NamesVacant
  <2> QED
    BY <2>2, <2>4, <2>5, <2>7 DEF ScanStep
<1>2. CASE /\ pc = "read" /\ Forget(Scan)
           /\ pc' = "idle" /\ UNCHANGED <<root, entry, again>>
  <2>1. ptr[Scan] # NULL
    BY <1>0, <1>2 DEF ScanOK
  <2>2. /\ BioInv' /\ ptr'[Scan] = NULL /\ \A u \in Holders \ {Scan} : ptr'[u] = ptr[u]
    BY <1>0, <1>2, <2>1, ForgetKeeps
  <2>3. ScanOK'
    BY <1>0, <1>2, <2>2 DEF ScanOK
  <2>4. NamesVacant'
    BY <1>2, VacantCases DEF NamesVacant
  <2> QED
    BY <2>2, <2>3, <2>4 DEF ScanStep
<1>3. CASE /\ pc = "read" /\ pc' \in {"entry", "done"} /\ UNCHANGED <<bioVars, root, entry, again>>
  <2>1. ptr[Scan] = root /\ entry = 0
    BY <1>3 DEF ScanOK
  <2>2. BioInv' /\ Listed' = Listed /\ info' = info /\ ptr' = ptr
    BY <1>3, BioStutter
  <2>3. ScanOK'
    BY <1>0, <1>3, <2>1, <2>2 DEF ScanOK
  <2>4. \A n \in 0 .. Unpublished - 1 : \A b \in Listed : info[b].name # <<root, n>>
    BY <1>3, VacantCases DEF NamesVacant
  <2>5. VacantAt(pc', entry') = {} \/ VacantAt(pc', entry') = 0 .. MbrEntries - 1
    BY <1>3, <2>1, VacantCases
  <2>6. 0 .. MbrEntries - 1 \subseteq 0 .. Unpublished - 1
    BY <1>0
  <2>7. NamesVacant'
    BY <1>3, <2>2, <2>4, <2>5, <2>6 DEF NamesVacant
  <2> QED
    BY <2>2, <2>3, <2>7 DEF ScanStep
<1>4. CASE /\ pc = "entry"
           /\ \E e \in Entries :
                IF validate_mbr_partition(ptr[Scan], e)
                  THEN bio_publish_subdevice(<<root, Whole>>, <<root, entry>>, e.lba_start, e.lba_length)
                  ELSE UNCHANGED bioVars
           /\ Step(MbrEntries, "entry", "done") /\ UNCHANGED <<root, again>>
  <2>1. ptr[Scan] = root /\ entry < MbrEntries
    BY <1>4 DEF ScanOK
  <2>2. entry \in Parts
    BY <1>0, <2>1, PartitionAssumption
  <2>3. \A n \in entry .. MbrEntries - 1 : \A b \in Listed : info[b].name # <<root, n>>
    BY <1>4, VacantCases DEF NamesVacant
  <2>4. \A b \in Listed : info[b].name # <<root, entry>>
    BY <1>0, <2>1, <2>3
  <2>5. /\ BioInv'
        /\ \A u \in Holders : ptr'[u] = ptr[u]
        /\ \A b \in Listed' : info'[b].name = <<root, entry>> \/ (b \in Listed /\ info'[b] = info[b])
    <3>1. PICK e \in Entries :
            IF validate_mbr_partition(ptr[Scan], e)
              THEN bio_publish_subdevice(<<root, Whole>>, <<root, entry>>, e.lba_start, e.lba_length)
              ELSE UNCHANGED bioVars
      BY <1>4
    <3>2. e.lba_start \in Nat /\ e.lba_length \in Nat
      BY BioAssumption, PartitionAssumption
    <3>3. CASE UNCHANGED bioVars
      BY <3>3, BioStutter
    <3>4. CASE bio_publish_subdevice(<<root, Whole>>, <<root, entry>>, e.lba_start, e.lba_length)
      BY <1>0, <2>2, <2>4, <3>2, <3>4, PublishNames
    <3> QED
      BY <3>1, <3>3, <3>4
  <2>6. \/ entry + 1 < MbrEntries /\ entry' = entry + 1 /\ pc' = "entry"
        \/ entry' = 0 /\ pc' = "done"
    BY <1>4 DEF Step
  <2>7. ScanOK'
    BY <1>0, <1>4, <2>1, <2>5, <2>6 DEF ScanOK
  <2>8. NamesVacant'
    <3>1. CASE pc' = "done"
      BY <3>1, VacantCases DEF NamesVacant
    <3>2. CASE entry' = entry + 1 /\ pc' = "entry"
      <4>1. VacantAt(pc', entry') = entry + 1 .. MbrEntries - 1
        BY <3>2, VacantCases
      <4>2. ASSUME NEW n \in entry + 1 .. MbrEntries - 1, NEW b \in Listed'
            PROVE  info'[b].name # <<root, n>>
        <5>1. n \in entry .. MbrEntries - 1 /\ n # entry
          BY <1>0, <4>2
        <5>2. <<root, entry>> # <<root, n>>
          BY <5>1
        <5>3. b \in Listed => info[b].name # <<root, n>>
          BY <2>3, <5>1
        <5> QED
          BY <2>5, <5>2, <5>3
      <4> QED
        BY <1>4, <4>1, <4>2 DEF NamesVacant
    <3> QED
      BY <2>6, <3>1, <3>2
  <2> QED
    BY <2>5, <2>7, <2>8 DEF ScanStep
<1>5. CASE /\ pc = "done" /\ bio_close(Scan)
           /\ pc' = "idle" /\ UNCHANGED <<root, entry, again>>
  <2>1. ptr[Scan] # NULL
    BY <1>0, <1>5 DEF ScanOK
  <2>2. /\ BioInv' /\ ptr'[Scan] = NULL /\ \A u \in Holders \ {Scan} : ptr'[u] = ptr[u]
    BY <1>0, <1>5, <2>1, CloseKeeps
  <2>3. ScanOK'
    BY <1>0, <1>5, <2>2 DEF ScanOK
  <2>4. NamesVacant'
    BY <1>5, VacantCases DEF NamesVacant
  <2> QED
    BY <2>2, <2>3, <2>4 DEF ScanStep
<1> QED
  BY <1>1, <1>2, <1>3, <1>4, <1>5 DEF partition_publish

-----------------------------------------------------------------------------
(* Mounts and files.                                                       *)

\* Devices that come and go do not touch the mounts.
LEMMA MountFrame ==
  ASSUME MountsOK, PathsOK, UNCHANGED fsVars, \A m \in Mounts : ptr'[m] = ptr[m]
  PROVE  MountsOK' /\ PathsOK'
<1>1. /\ mounts' = mounts /\ mpath' = mpath /\ refs' = refs /\ fmount' = fmount
      /\ wanted' = wanted /\ aliased' = aliased
  BY DEF fsVars
<1>2. Allocated' = Allocated
  BY DEF Allocated
<1>3. MountsOK'
  BY <1>1, <1>2 DEF MountsOK
<1>4. PathsOK'
  BY <1>1, <1>2 DEF PathsOK, MountCounted, Preimage
<1> QED
  BY <1>3, <1>4

\* The mount that find_mount() returns is one, and its path begins the string.
LEMMA FindFacts ==
  ASSUME MountsOK, NEW m, NEW path, find_mount(m, path)
  PROVE  m \in Allocated /\ m \in Mounts /\ StartsWith(path, mpath[m])
<1>1. PICK n \in 1 .. Len(mounts) : m = mounts[n] /\ StartsWith(path, mpath[m])
  BY DEF find_mount
<1>2. m \in Mounts /\ OccursIn(m, mounts)
  BY <1>1 DEF MountsOK, OccursIn
<1> QED
  BY <1>1, <1>2 DEF MountsOK

\* When find_mount() finds nothing, no mount's path begins the string.
LEMMA NothingFound ==
  ASSUME MountsOK, NEW path, ~Mounted(path), NEW m \in Allocated
  PROVE  ~StartsWith(path, mpath[m])
<1> SUFFICES ASSUME StartsWith(path, mpath[m]) PROVE FALSE
  OBVIOUS
<1> DEFINE T == {n \in 1 .. Len(mounts) : StartsWith(path, mpath[mounts[n]])}
<1>1. mounts \in Seq(Mounts) /\ OccursIn(m, mounts)
  BY DEF MountsOK, Allocated
<1>2. PICK i \in 1 .. Len(mounts) : mounts[i] = m
  BY <1>1 DEF OccursIn
<1>3. T \subseteq Nat /\ T # {}
  BY <1>1, <1>2
<1>4. PICK n \in T : \A k \in T : ~(k < n)
  <2> HIDE DEF T
  <2> QED
    BY <1>3, LeastNat
<1>5. n \in 1 .. Len(mounts) /\ StartsWith(path, mpath[mounts[n]]) /\ mounts[n] \in Mounts
  BY <1>1
<1>6. \A k \in 1 .. n - 1 : ~StartsWith(path, mpath[mounts[k]])
  <2>1. ASSUME NEW k \in 1 .. n - 1 PROVE k \in 1 .. Len(mounts) /\ k < n
    BY <1>1, <1>5
  <2> QED
    BY <1>4, <2>1
<1>7. find_mount(mounts[n], path)
  BY <1>5, <1>6 DEF find_mount
<1> QED
  BY <1>5, <1>7 DEF Mounted

\* A path begins with itself.
LEMMA StartsWithItself ==
  ASSUME NEW p \in MountPaths
  PROVE  StartsWith(p, p)
<1>1. p \in Seq(STRING)
  BY FsAssumption
<1>2. Len(p) \in Nat /\ SubSeq(p, 1, Len(p)) = p
  BY <1>1
<1> QED
  BY <1>2 DEF StartsWith

FsStep == BioInv' /\ ScanOK' /\ NamesVacant' /\ MountsOK' /\ PathsOK'

\* fs_mount() keeps the paths of mounts apart, or notes that it does not.
LEMMA MountStep ==
  ASSUME BioInv, ScanOK, NamesVacant, MountsOK, PathsOK,
         NEW path \in MountPaths, NEW dev \in Names, fs_mount(path, dev)
  PROVE  FsStep
<1>1. PICK m \in Mounts \ Allocated :
        /\ bio_open(m, dev) /\ mounts' = <<m>> \o mounts
        /\ mpath' = [mpath EXCEPT ![m] = path] /\ refs' = [refs EXCEPT ![m] = 1]
  BY DEF fs_mount
<1>2. /\ ~Mounted(path) /\ ~aliased /\ wanted' = wanted \cup {path}
      /\ aliased' = \E k \in Allocated : StartsWith(mpath[k], path)
      /\ fmount' = fmount /\ UNCHANGED partVars
  BY DEF fs_mount
<1>3. /\ m \in Holders /\ ptr[m] = NULL /\ m \in Users /\ m # Scan /\ Scan \in Users
      /\ Mounts \subseteq Users /\ NULL \notin Addrs /\ Listed \subseteq Addrs
  BY <1>1, BioAssumption, PartitionAssumption, FsAssumption DEF Allocated, Users, Listed
<1>4. /\ BioInv' /\ UNCHANGED <<bdevs, alive, info, lost>>
      /\ \E a \in Listed : info[a].name = dev /\ ptr' = [ptr EXCEPT ![m] = a]
  BY <1>1, <1>3, OpenKeeps
<1>5. PICK a \in Listed : ptr' = [ptr EXCEPT ![m] = a]
  BY <1>4
<1>6. /\ ptr'[m] = a /\ a # NULL /\ ptr'[Scan] = ptr[Scan]
      /\ \A k \in Mounts \ {m} : ptr'[k] = ptr[k]
  BY <1>3, <1>5 DEF BioInv, BioType
<1>7. ScanOK' /\ NamesVacant'
  BY <1>2, <1>4, <1>6, ScanFrame
<1>8. Allocated' = Allocated \cup {m} /\ m \notin Allocated /\ m \in Mounts
  BY <1>1, <1>6 DEF Allocated
<1>9. refs[m] = 0 /\ ~OccursIn(m, mounts)
  BY <1>8 DEF MountsOK
<1>10. /\ mpath'[m] = path /\ refs'[m] = 1
       /\ \A k \in Mounts \ {m} : mpath'[k] = mpath[k] /\ refs'[k] = refs[k]
  BY <1>1 DEF MountsOK
<1>11. MountsOK'
  <2>1. /\ mounts' \in Seq(Mounts) /\ Distinct(mounts')
        /\ \A u : OccursIn(u, mounts') <=> OccursIn(u, mounts) \/ u = m
    BY <1>1, <1>8, <1>9, PushFacts DEF MountsOK
  <2>2. mpath' \in [Mounts -> MountPaths \cup {NULL}] /\ refs' \in [Mounts -> Nat]
        /\ fmount' \in [Files -> Mounts \cup {NULL}] /\ wanted' \subseteq MountPaths
    BY <1>1, <1>2 DEF MountsOK
  <2>3. aliased' \in BOOLEAN
    BY <1>2
  <2>4. \A k \in Mounts : /\ k \in Allocated' <=> OccursIn(k, mounts')
                          /\ k \in Allocated' <=> refs'[k] > 0
                          /\ k \in Allocated' => mpath'[k] \in MountPaths
    BY <1>8, <1>10, <2>1 DEF MountsOK
  <2> QED
    BY <2>1, <2>2, <2>3, <2>4 DEF MountsOK
<1>12. PathsOK'
  <2> SUFFICES ASSUME ~aliased'
      PROVE  /\ \A j, k \in Allocated' : StartsWith(mpath'[j], mpath'[k]) => j = k
             /\ \A p \in wanted' : \E k \in Allocated' : mpath'[k] = p
             /\ \A f \in Files : fmount'[f] # NULL => fmount'[f] \in Allocated'
             /\ \A k \in Mounts : MountCounted(k)'
    BY DEF PathsOK, StartsWith, MountCounted
  <2>0. Allocated \subseteq Mounts
    BY DEF Allocated
  <2>1. \A k \in Allocated : ~StartsWith(mpath[k], path) /\ ~StartsWith(path, mpath[k])
    BY <1>2, NothingFound
  <2>2. \A j, k \in Allocated' : StartsWith(mpath'[j], mpath'[k]) => j = k
    <3> SUFFICES ASSUME NEW j \in Allocated', NEW k \in Allocated',
                        StartsWith(mpath'[j], mpath'[k]), j # k
                 PROVE  FALSE
      OBVIOUS
    <3>1. CASE j = m
      <4>1. mpath'[j] = path /\ k \in Allocated /\ mpath'[k] = mpath[k]
        BY <3>1, <1>8, <1>10, <2>0
      <4> QED
        BY <4>1, <2>1
    <3>2. CASE k = m
      <4>1. mpath'[k] = path /\ j \in Allocated /\ mpath'[j] = mpath[j]
        BY <3>2, <1>8, <1>10, <2>0
      <4> QED
        BY <4>1, <2>1
    <3>3. CASE j # m /\ k # m
      <4>1. j \in Allocated /\ k \in Allocated /\ mpath'[j] = mpath[j] /\ mpath'[k] = mpath[k]
        BY <3>3, <1>8, <1>10, <2>0
      <4> QED
        BY <4>1, <1>2 DEF PathsOK
    <3> QED
      BY <3>1, <3>2, <3>3
  <2>3. \A p \in wanted' : \E k \in Allocated' : mpath'[k] = p
    BY <1>2, <1>8, <1>10, <2>0 DEF PathsOK
  <2>4. \A f \in Files : fmount'[f] # NULL => fmount'[f] \in Allocated'
    BY <1>2, <1>8 DEF PathsOK
  <2>5. \A k \in Mounts : MountCounted(k)'
    <3> SUFFICES ASSUME NEW k \in Mounts PROVE MountCounted(k)'
      OBVIOUS
    <3>1. MountCounted(k)' <=>
            refs'[k] = Cardinality(Preimage(Files, fmount, k))
                       + (IF k \in Allocated' /\ mpath'[k] \in wanted' THEN 1 ELSE 0)
      BY <1>2 DEF MountCounted, Preimage
    <3>2. refs[k] = Cardinality(Preimage(Files, fmount, k))
                    + (IF k \in Allocated /\ mpath[k] \in wanted THEN 1 ELSE 0)
      BY <1>2 DEF PathsOK, MountCounted
    <3>3. Cardinality(Preimage(Files, fmount, k)) \in Nat
      BY PreimageFinite, FsAssumption
    <3>4. CASE k = m
      <4>1. k \in Allocated' /\ mpath'[k] \in wanted' /\ refs'[k] = 1
        BY <3>4, <1>2, <1>8, <1>10
      <4>2. Cardinality(Preimage(Files, fmount, k)) = 0
        BY <3>2, <3>3, <3>4, <1>8, <1>9
      <4> QED
        BY <3>1, <4>1, <4>2
    <3>5. CASE k # m
      <4>1. refs'[k] = refs[k] /\ mpath'[k] = mpath[k] /\ (k \in Allocated' <=> k \in Allocated)
        BY <3>5, <1>8, <1>10
      <4>2. k \in Allocated => mpath[k] # path
        BY <2>1, StartsWithItself
      <4> QED
        BY <3>1, <3>2, <4>1, <4>2, <1>2
    <3> QED
      BY <3>4, <3>5
  <2> QED
    BY <2>2, <2>3, <2>4, <2>5
<1> QED
  BY <1>4, <1>7, <1>11, <1>12 DEF FsStep

\* put_mount() of a mount: it loses one reference, and with the last one its
\* place in the list and its device.
LEMMA PutMount ==
  ASSUME BioInv, ScanOK, NamesVacant, MountsOK, NEW m \in Allocated, put_mount(m),
         UNCHANGED partVars
  PROVE  /\ BioInv' /\ ScanOK' /\ NamesVacant'
         /\ mounts' \in Seq(Mounts) /\ Distinct(mounts')
         /\ mpath' \in [Mounts -> MountPaths \cup {NULL}] /\ refs' \in [Mounts -> Nat]
         /\ Allocated' = IF refs[m] = 1 THEN Allocated \ {m} ELSE Allocated
         /\ \A k \in Mounts : /\ k \in Allocated' <=> OccursIn(k, mounts')
                              /\ k \in Allocated' <=> refs'[k] > 0
                              /\ k \in Allocated' => mpath'[k] = mpath[k]
                              /\ refs'[k] = IF k = m THEN refs[k] - 1 ELSE refs[k]
<1>0. /\ m \in Mounts /\ ptr[m] # NULL /\ m \in Holders /\ m # Scan /\ Scan \in Holders
      /\ refs[m] \in Nat /\ refs[m] > 0 /\ Mounts \subseteq Holders
  BY PartitionAssumption, FsAssumption DEF MountsOK, Allocated
<1>1. CASE refs[m] = 1
  <2>1. /\ mounts' = Without(mounts, m) /\ mpath' = [mpath EXCEPT ![m] = NULL]
        /\ refs' = [refs EXCEPT ![m] = 0] /\ bio_close(m)
    BY <1>1 DEF put_mount
  <2>2. /\ BioInv' /\ UNCHANGED bdevs /\ (\A b \in Listed : info'[b] = info[b])
        /\ ptr'[m] = NULL /\ \A u \in Holders \ {m} : ptr'[u] = ptr[u]
    BY <1>0, <2>1, CloseKeeps
  <2>3. ScanOK' /\ NamesVacant'
    BY <1>0, <2>2, ScanFrame
  <2>4. Allocated' = Allocated \ {m}
    BY <1>0, <2>2 DEF Allocated
  <2>5. /\ mounts' \in Seq(Mounts) /\ Distinct(mounts')
        /\ \A u : OccursIn(u, mounts') <=> OccursIn(u, mounts) /\ u # m
    BY <2>1, WithoutFacts DEF MountsOK
  <2>6. mpath' \in [Mounts -> MountPaths \cup {NULL}] /\ refs' \in [Mounts -> Nat]
    BY <1>0, <2>1 DEF MountsOK
  <2>7. \A k \in Mounts : /\ k # m => mpath'[k] = mpath[k]
                          /\ refs'[k] = IF k = m THEN refs[k] - 1 ELSE refs[k]
    BY <1>0, <1>1, <2>1 DEF MountsOK
  <2>8. \A k \in Mounts : /\ k \in Allocated' <=> OccursIn(k, mounts')
                          /\ k \in Allocated' <=> refs'[k] > 0
                          /\ k \in Allocated' => mpath'[k] = mpath[k]
    BY <1>1, <2>4, <2>5, <2>7 DEF MountsOK
  <2> QED
    BY <1>1, <2>2, <2>3, <2>4, <2>5, <2>6, <2>7, <2>8
<1>2. CASE refs[m] # 1
  <2>1. refs' = [refs EXCEPT ![m] = @ - 1] /\ UNCHANGED <<mounts, mpath, bioVars>>
    BY <1>2 DEF put_mount
  <2>2. BioInv' /\ Listed' = Listed /\ info' = info /\ ptr' = ptr /\ bdevs' = bdevs
    BY <2>1, BioStutter DEF bioVars
  <2>3. ScanOK' /\ NamesVacant'
    BY <2>2, ScanFrame
  <2>4. Allocated' = Allocated
    BY <2>2 DEF Allocated
  <2>5. refs' \in [Mounts -> Nat] /\ refs'[m] = refs[m] - 1 /\ \A k \in Mounts \ {m} : refs'[k] = refs[k]
    BY <1>0, <2>1 DEF MountsOK
  <2>6. \A k \in Mounts : /\ k \in Allocated' <=> OccursIn(k, mounts')
                          /\ k \in Allocated' <=> refs'[k] > 0
                          /\ k \in Allocated' => mpath'[k] = mpath[k]
                          /\ refs'[k] = IF k = m THEN refs[k] - 1 ELSE refs[k]
    BY <1>0, <1>2, <2>1, <2>4, <2>5 DEF MountsOK
  <2>7. mounts' \in Seq(Mounts) /\ Distinct(mounts') /\ mpath' \in [Mounts -> MountPaths \cup {NULL}]
    BY <2>1 DEF MountsOK
  <2> QED
    BY <1>2, <2>2, <2>3, <2>4, <2>5, <2>6, <2>7
<1> QED
  BY <1>1, <1>2

\* fs_unmount(): without aliases, the mount that is found is the caller's own.
LEMMA UnmountStep ==
  ASSUME BioInv, ScanOK, NamesVacant, MountsOK, PathsOK,
         NEW path \in MountPaths, fs_unmount(path)
  PROVE  FsStep
<1>1. PICK m \in Mounts : find_mount(m, path) /\ put_mount(m)
  BY DEF fs_unmount
<1>2. /\ path \in wanted /\ wanted' = wanted \ {path}
      /\ fmount' = fmount /\ aliased' = aliased /\ UNCHANGED partVars
  BY DEF fs_unmount
<1>3. m \in Allocated /\ StartsWith(path, mpath[m])
  BY <1>1, FindFacts
<1>4. /\ BioInv' /\ ScanOK' /\ NamesVacant'
      /\ mounts' \in Seq(Mounts) /\ Distinct(mounts')
      /\ mpath' \in [Mounts -> MountPaths \cup {NULL}] /\ refs' \in [Mounts -> Nat]
      /\ Allocated' = IF refs[m] = 1 THEN Allocated \ {m} ELSE Allocated
      /\ \A k \in Mounts : /\ k \in Allocated' <=> OccursIn(k, mounts')
                           /\ k \in Allocated' <=> refs'[k] > 0
                           /\ k \in Allocated' => mpath'[k] = mpath[k]
                           /\ refs'[k] = IF k = m THEN refs[k] - 1 ELSE refs[k]
  BY <1>1, <1>2, <1>3, PutMount
<1>5. Allocated' \subseteq Allocated /\ Allocated \subseteq Mounts
  BY <1>4 DEF Allocated
<1>6. MountsOK'
  <2>1. \A k \in Mounts : k \in Allocated' => mpath'[k] \in MountPaths
    BY <1>4, <1>5 DEF MountsOK
  <2>2. /\ fmount' \in [Files -> Mounts \cup {NULL}] /\ wanted' \subseteq MountPaths
        /\ aliased' \in BOOLEAN
    BY <1>2 DEF MountsOK
  <2> QED
    BY <1>4, <2>1, <2>2 DEF MountsOK
<1>7. PathsOK'
  <2> SUFFICES ASSUME ~aliased
      PROVE  /\ \A j, k \in Allocated' : StartsWith(mpath'[j], mpath'[k]) => j = k
             /\ \A p \in wanted' : \E k \in Allocated' : mpath'[k] = p
             /\ \A f \in Files : fmount'[f] # NULL => fmount'[f] \in Allocated'
             /\ \A k \in Mounts : MountCounted(k)'
    BY <1>2 DEF PathsOK, StartsWith, MountCounted
  <2>1. /\ \A j, k \in Allocated : StartsWith(mpath[j], mpath[k]) => j = k
        /\ \A p \in wanted : \E k \in Allocated : mpath[k] = p
        /\ \A f \in Files : fmount[f] # NULL => fmount[f] \in Allocated
        /\ \A k \in Mounts : MountCounted(k)
    BY DEF PathsOK
  <2>2. mpath[m] = path
    <3>1. PICK k \in Allocated : mpath[k] = path
      BY <1>2, <2>1
    <3> QED
      BY <1>3, <2>1, <3>1
  <2>3. \A k \in Allocated : mpath[k] = path => k = m
    BY <1>3, <2>1, <2>2, StartsWithItself
  <2>4. \A k \in Mounts : /\ refs[k] = Cardinality(Preimage(Files, fmount, k))
                                       + (IF k \in Allocated /\ mpath[k] \in wanted THEN 1 ELSE 0)
                          /\ Cardinality(Preimage(Files, fmount, k)) \in Nat
    BY <2>1, PreimageFinite, FsAssumption DEF MountCounted
  <2>5. refs[m] = Cardinality(Preimage(Files, fmount, m)) + 1
    BY <1>2, <1>3, <2>2, <2>4
  <2>6. \A j, k \in Allocated' : StartsWith(mpath'[j], mpath'[k]) => j = k
    <3> SUFFICES ASSUME NEW j \in Allocated', NEW k \in Allocated',
                        StartsWith(mpath'[j], mpath'[k])
                 PROVE  j = k
      OBVIOUS
    <3>1. j \in Allocated /\ k \in Allocated /\ mpath'[j] = mpath[j] /\ mpath'[k] = mpath[k]
      BY <1>4, <1>5
    <3> QED
      BY <2>1, <3>1
  <2>7. \A p \in wanted' : \E k \in Allocated' : mpath'[k] = p
    <3> SUFFICES ASSUME NEW p \in wanted' PROVE \E k \in Allocated' : mpath'[k] = p
      OBVIOUS
    <3>1. PICK k \in Allocated : mpath[k] = p
      BY <1>2, <2>1
    <3>2. k # m /\ k \in Allocated'
      BY <1>2, <1>4, <2>2, <3>1
    <3> QED
      BY <1>4, <1>5, <3>1, <3>2
  <2>8. \A f \in Files : fmount'[f] # NULL => fmount'[f] \in Allocated'
    <3> SUFFICES ASSUME NEW f \in Files, fmount[f] # NULL PROVE fmount[f] \in Allocated'
      BY <1>2
    <3>1. CASE fmount[f] = m
      <4>1. f \in Preimage(Files, fmount, m) /\ IsFiniteSet(Preimage(Files, fmount, m))
        <5>1. f \in Preimage(Files, fmount, m)
          BY <3>1 DEF Preimage
        <5> QED
          BY <5>1, PreimageFinite, FsAssumption
      <4>2. Cardinality(Preimage(Files, fmount, m)) # 0
        BY <4>1, FS_EmptySet
      <4> QED
        BY <1>3, <1>4, <2>4, <2>5, <3>1, <4>2
    <3> QED
      BY <1>4, <2>1, <3>1
  <2>9. \A k \in Mounts : MountCounted(k)'
    <3> SUFFICES ASSUME NEW k \in Mounts PROVE MountCounted(k)'
      OBVIOUS
    <3>1. MountCounted(k)' <=>
            refs'[k] = Cardinality(Preimage(Files, fmount, k))
                       + (IF k \in Allocated' /\ mpath'[k] \in wanted' THEN 1 ELSE 0)
      BY <1>2 DEF MountCounted, Preimage
    <3>2. CASE k = m
      <4>1. ~(k \in Allocated' /\ mpath'[k] \in wanted')
        BY <1>2, <1>4, <2>2, <3>2
      <4> QED
        BY <1>4, <2>4, <2>5, <3>1, <3>2, <4>1
    <3>3. CASE k # m
      <4>1. refs'[k] = refs[k] /\ (k \in Allocated' <=> k \in Allocated)
        BY <1>4, <3>3
      <4>2. k \in Allocated => (mpath'[k] \in wanted' <=> mpath[k] \in wanted)
        BY <1>2, <1>4, <2>3, <3>3, <4>1
      <4> QED
        BY <2>4, <3>1, <4>1, <4>2
    <3> QED
      BY <3>2, <3>3
  <2> QED
    BY <2>6, <2>7, <2>8, <2>9
<1> QED
  BY <1>4, <1>6, <1>7 DEF FsStep

\* fs_open_file() finds a mount in use and adds a reference to it.
LEMMA OpenFileStep ==
  ASSUME BioInv, ScanOK, NamesVacant, MountsOK, PathsOK,
         NEW f \in Files, NEW path \in FilePaths, fs_open_file(f, path)
  PROVE  FsStep
<1>1. PICK m \in Mounts : /\ find_mount(m, path) /\ fmount' = [fmount EXCEPT ![f] = m]
                          /\ refs' = [refs EXCEPT ![m] = @ + 1]
  BY DEF fs_open_file
<1>2. /\ fmount[f] = NULL /\ UNCHANGED <<bioVars, partVars>>
      /\ mounts' = mounts /\ mpath' = mpath /\ wanted' = wanted /\ aliased' = aliased
  BY DEF fs_open_file
<1>3. m \in Allocated /\ m # NULL
  BY <1>1, FindFacts, FsAssumption
<1>4. BioInv' /\ Listed' = Listed /\ info' = info /\ ptr' = ptr /\ bdevs' = bdevs
  BY <1>2, BioStutter DEF bioVars
<1>5. ScanOK' /\ NamesVacant'
  BY <1>2, <1>4, ScanFrame
<1>6. Allocated' = Allocated
  BY <1>4 DEF Allocated
<1>7. /\ refs' \in [Mounts -> Nat] /\ refs'[m] = refs[m] + 1
      /\ \A k \in Mounts \ {m} : refs'[k] = refs[k]
      /\ fmount' \in [Files -> Mounts \cup {NULL}] /\ fmount'[f] = m
      /\ \A g \in Files \ {f} : fmount'[g] = fmount[g]
  BY <1>1 DEF MountsOK
<1>8. MountsOK'
  <2>1. \A k \in Mounts : k \in Allocated <=> refs'[k] > 0
    <3>1. refs[m] \in Nat /\ refs[m] > 0
      BY <1>1, <1>3 DEF MountsOK
    <3>2. refs'[m] > 0
      BY <1>7, <3>1
    <3> QED
      BY <1>3, <1>7, <3>2 DEF MountsOK
  <2> QED
    BY <1>2, <1>6, <1>7, <2>1 DEF MountsOK
<1>9. PathsOK'
  <2> SUFFICES ASSUME ~aliased
      PROVE  /\ \A j, k \in Allocated' : StartsWith(mpath'[j], mpath'[k]) => j = k
             /\ \A p \in wanted' : \E k \in Allocated' : mpath'[k] = p
             /\ \A g \in Files : fmount'[g] # NULL => fmount'[g] \in Allocated'
             /\ \A k \in Mounts : MountCounted(k)'
    BY <1>2 DEF PathsOK, StartsWith, MountCounted
  <2>1. /\ \A j, k \in Allocated : StartsWith(mpath[j], mpath[k]) => j = k
        /\ \A p \in wanted : \E k \in Allocated : mpath[k] = p
        /\ \A g \in Files : fmount[g] # NULL => fmount[g] \in Allocated
        /\ \A k \in Mounts : MountCounted(k)
    BY DEF PathsOK
  <2>2. \A k \in Mounts : MountCounted(k)'
    <3> SUFFICES ASSUME NEW k \in Mounts PROVE MountCounted(k)'
      OBVIOUS
    <3>1. MountCounted(k)' <=>
            refs'[k] = Cardinality(Preimage(Files, fmount', k))
                       + (IF k \in Allocated /\ mpath[k] \in wanted THEN 1 ELSE 0)
      BY <1>2, <1>6 DEF MountCounted, Preimage
    <3>2. refs[k] = Cardinality(Preimage(Files, fmount, k))
                    + (IF k \in Allocated /\ mpath[k] \in wanted THEN 1 ELSE 0)
      BY <2>1 DEF MountCounted
    <3>3. Cardinality(Preimage(Files, fmount', k)) =
            Cardinality(Preimage(Files, fmount, k))
            + (IF k = fmount'[f] THEN 1 ELSE 0) - (IF k = fmount[f] THEN 1 ELSE 0)
      BY <1>2, <1>3, <1>7, CountMoves, FsAssumption
    <3>4. Cardinality(Preimage(Files, fmount, k)) \in Nat /\ k # NULL
      BY PreimageFinite, FsAssumption
    <3>5. refs'[k] = refs[k] + (IF k = m THEN 1 ELSE 0)
      BY <1>7, <3>2, <3>4
    <3> QED
      BY <1>2, <1>7, <3>1, <3>2, <3>3, <3>4, <3>5
  <2>3. \A g \in Files : fmount'[g] # NULL => fmount'[g] \in Allocated'
    BY <1>3, <1>6, <1>7, <2>1
  <2> QED
    BY <1>2, <1>6, <2>1, <2>2, <2>3
<1> QED
  BY <1>4, <1>5, <1>8, <1>9 DEF FsStep

\* fs_close_file() gives one reference back, and with the last one the mount.
LEMMA CloseFileStep ==
  ASSUME BioInv, ScanOK, NamesVacant, MountsOK, PathsOK,
         NEW f \in Files, fs_close_file(f)
  PROVE  FsStep
<1> DEFINE m == fmount[f]
<1>1. /\ m \in Allocated /\ put_mount(m) /\ fmount' = [fmount EXCEPT ![f] = NULL]
      /\ UNCHANGED partVars /\ wanted' = wanted /\ aliased' = aliased
  BY DEF fs_close_file
<1>2. m \in Mounts /\ m # NULL
  BY <1>1, FsAssumption DEF Allocated
<1>3. /\ fmount' \in [Files -> Mounts \cup {NULL}] /\ fmount'[f] = NULL
      /\ \A g \in Files \ {f} : fmount'[g] = fmount[g]
  BY <1>1 DEF MountsOK
<1>4. m = fmount[f]
  OBVIOUS
<1> HIDE DEF m
<1>5. /\ BioInv' /\ ScanOK' /\ NamesVacant'
      /\ mounts' \in Seq(Mounts) /\ Distinct(mounts')
      /\ mpath' \in [Mounts -> MountPaths \cup {NULL}] /\ refs' \in [Mounts -> Nat]
      /\ Allocated' = IF refs[m] = 1 THEN Allocated \ {m} ELSE Allocated
      /\ \A k \in Mounts : /\ k \in Allocated' <=> OccursIn(k, mounts')
                           /\ k \in Allocated' <=> refs'[k] > 0
                           /\ k \in Allocated' => mpath'[k] = mpath[k]
                           /\ refs'[k] = IF k = m THEN refs[k] - 1 ELSE refs[k]
  BY <1>1, PutMount
<1>6. Allocated' \subseteq Allocated /\ Allocated \subseteq Mounts
  BY <1>5 DEF Allocated
<1>7. MountsOK'
  <2>1. \A k \in Mounts : k \in Allocated' => mpath'[k] \in MountPaths
    BY <1>5, <1>6 DEF MountsOK
  <2>2. wanted' \subseteq MountPaths /\ aliased' \in BOOLEAN
    BY <1>1 DEF MountsOK
  <2> QED
    BY <1>3, <1>5, <2>1, <2>2 DEF MountsOK
<1>8. PathsOK'
  <2> SUFFICES ASSUME ~aliased
      PROVE  /\ \A j, k \in Allocated' : StartsWith(mpath'[j], mpath'[k]) => j = k
             /\ \A p \in wanted' : \E k \in Allocated' : mpath'[k] = p
             /\ \A g \in Files : fmount'[g] # NULL => fmount'[g] \in Allocated'
             /\ \A k \in Mounts : MountCounted(k)'
    BY <1>1 DEF PathsOK, StartsWith, MountCounted
  <2>1. /\ \A j, k \in Allocated : StartsWith(mpath[j], mpath[k]) => j = k
        /\ \A p \in wanted : \E k \in Allocated : mpath[k] = p
        /\ \A g \in Files : fmount[g] # NULL => fmount[g] \in Allocated
        /\ \A k \in Mounts : MountCounted(k)
    BY DEF PathsOK
  <2>2. ASSUME NEW k \in Mounts
        PROVE  /\ refs[k] = Cardinality(Preimage(Files, fmount, k))
                            + (IF k \in Allocated /\ mpath[k] \in wanted THEN 1 ELSE 0)
               /\ Cardinality(Preimage(Files, fmount', k)) =
                    Cardinality(Preimage(Files, fmount, k)) - (IF k = m THEN 1 ELSE 0)
               /\ Cardinality(Preimage(Files, fmount, k)) \in Nat
               /\ Cardinality(Preimage(Files, fmount', k)) \in Nat
               /\ IsFiniteSet(Preimage(Files, fmount', k))
    <3>1. Cardinality(Preimage(Files, fmount', k)) =
            Cardinality(Preimage(Files, fmount, k))
            + (IF k = fmount'[f] THEN 1 ELSE 0) - (IF k = fmount[f] THEN 1 ELSE 0)
      BY <1>2, <1>3, <1>4, CountMoves, FsAssumption
    <3>2. /\ Cardinality(Preimage(Files, fmount, k)) \in Nat
          /\ Cardinality(Preimage(Files, fmount', k)) \in Nat /\ k # NULL
          /\ IsFiniteSet(Preimage(Files, fmount', k))
      BY PreimageFinite, FsAssumption
    <3> QED
      BY <1>3, <1>4, <2>1, <3>1, <3>2 DEF MountCounted
  \* Whoever else needs the mount, a file or its caller, is counted.
  <2>3. refs[m] = 1 => mpath[m] \notin wanted /\ Cardinality(Preimage(Files, fmount', m)) = 0
    <3>1. /\ refs[m] = Cardinality(Preimage(Files, fmount, m))
                       + (IF m \in Allocated /\ mpath[m] \in wanted THEN 1 ELSE 0)
          /\ Cardinality(Preimage(Files, fmount', m)) = Cardinality(Preimage(Files, fmount, m)) - 1
          /\ Cardinality(Preimage(Files, fmount, m)) \in Nat
          /\ Cardinality(Preimage(Files, fmount', m)) \in Nat
      BY <1>2, <2>2
    <3> QED
      BY <1>1, <3>1
  <2>4. \A j, k \in Allocated' : StartsWith(mpath'[j], mpath'[k]) => j = k
    <3> SUFFICES ASSUME NEW j \in Allocated', NEW k \in Allocated',
                        StartsWith(mpath'[j], mpath'[k])
                 PROVE  j = k
      OBVIOUS
    <3>1. j \in Allocated /\ k \in Allocated /\ mpath'[j] = mpath[j] /\ mpath'[k] = mpath[k]
      BY <1>5, <1>6
    <3> QED
      BY <2>1, <3>1
  <2>5. \A p \in wanted' : \E k \in Allocated' : mpath'[k] = p
    <3> SUFFICES ASSUME NEW p \in wanted PROVE \E k \in Allocated' : mpath'[k] = p
      BY <1>1
    <3>1. PICK k \in Allocated : mpath[k] = p
      BY <2>1
    <3>2. k \in Allocated'
      BY <1>5, <2>3, <3>1
    <3> QED
      BY <1>5, <1>6, <3>1, <3>2
  <2>6. \A g \in Files : fmount'[g] # NULL => fmount'[g] \in Allocated'
    <3> SUFFICES ASSUME NEW g \in Files, fmount'[g] # NULL PROVE fmount'[g] \in Allocated'
      OBVIOUS
    <3>1. g # f /\ fmount'[g] = fmount[g] /\ fmount[g] \in Allocated
      BY <1>3, <2>1
    <3>2. CASE fmount[g] = m
      <4>1. g \in Preimage(Files, fmount', m)
        BY <3>1, <3>2 DEF Preimage
      <4>2. Cardinality(Preimage(Files, fmount', m)) # 0
        BY <1>2, <2>2, <4>1, FS_EmptySet
      <4> QED
        BY <1>5, <2>3, <3>1, <4>2
    <3> QED
      BY <1>5, <3>1, <3>2
  <2>7. \A k \in Mounts : MountCounted(k)'
    <3> SUFFICES ASSUME NEW k \in Mounts PROVE MountCounted(k)'
      OBVIOUS
    <3>1. MountCounted(k)' <=>
            refs'[k] = Cardinality(Preimage(Files, fmount', k))
                       + (IF k \in Allocated' /\ mpath'[k] \in wanted THEN 1 ELSE 0)
      BY <1>1 DEF MountCounted, Preimage
    <3>2. k \in Allocated' /\ mpath'[k] \in wanted <=> k \in Allocated /\ mpath[k] \in wanted
      BY <1>5, <1>6, <2>3
    <3>3. refs'[k] = refs[k] - (IF k = m THEN 1 ELSE 0)
      BY <1>5, <2>2
    <3> QED
      BY <2>2, <3>1, <3>2, <3>3
  <2> QED
    BY <2>4, <2>5, <2>6, <2>7
<1> QED
  BY <1>5, <1>7, <1>8 DEF FsStep

-----------------------------------------------------------------------------
(* The invariant and what follows from it.                                 *)

\* The list that bio_init() and the drivers make holds every root.
LEMMA RootsListed ==
  ASSUME BioInit
  PROVE  bdevs \in Seq(Addrs) /\ Distinct(bdevs) /\ Listed = Roots
<1> DEFINE N == Cardinality(Roots)
<1>1. IsFiniteSet(Roots) /\ N \in Nat
  <2>1. Roots \in SUBSET Addrs /\ IsFiniteSet(Addrs)
    BY BioAssumption
  <2> QED
    BY <2>1, FS_Subset, FS_CardinalityType
<1>2. bdevs \in [1 .. N -> Roots] /\ Distinct(bdevs)
  BY DEF BioInit
<1> HIDE DEF N
<1>3. bdevs \in Seq(Addrs) /\ Len(bdevs) = N
  BY <1>1, <1>2, BioAssumption
<1>4. bdevs \in Injection(1 .. N, Roots)
  BY <1>2, <1>3 DEF Injection, IsInjective, Distinct
<1>5. Cardinality(1 .. N) = Cardinality(Roots)
  <2>1. Cardinality(1 .. N) = IF 1 > N THEN 0 ELSE N - 1 + 1
    BY <1>1, FS_Interval
  <2> QED
    BY <1>1, <2>1 DEF N
<1>6. bdevs \in Surjection(1 .. N, Roots)
  BY <1>1, <1>4, <1>5, FS_Injection
<1>7. \A r \in Roots : \E i \in 1 .. N : bdevs[i] = r
  BY <1>6 DEF Surjection
<1>8. Listed = Roots
  BY <1>2, <1>3, <1>7, BioAssumption DEF Listed, OccursIn
<1> QED
  BY <1>2, <1>3, <1>8

\* The invariant holds at start-up.
LEMMA StorageStart ==
  ASSUME StorageInit
  PROVE  StorageInv
<1>1. BioInit /\ pc = "mmc" /\ root \in Roots /\ entry = 0 /\ again = FALSE
  BY DEF StorageInit, PartInit
<1>2. bdevs \in Seq(Addrs) /\ Distinct(bdevs) /\ Listed = Roots
  BY <1>1, RootsListed
<1>3. /\ alive = Roots /\ ref = [a \in Addrs |-> IF a \in Roots THEN 1 ELSE 0]
      /\ info = [a \in Addrs |->
                   IF a \in Roots
                     THEN [name |-> <<a, Whole>>, offset |-> 0, block_count |-> RootBlocks]
                     ELSE NoInfo]
      /\ ptr = [x \in Users |-> NULL] /\ lost = [a \in Addrs |-> 0]
  BY <1>1 DEF BioInit
<1>4. \A a \in Roots : info[a].name = <<a, Whole>> /\ info[a] \in Info
  BY <1>3, BioAssumption DEF Info, Names
<1>5. BioType
  <2>1. info \in [Addrs -> Info \cup {NoInfo}]
    <3>1. \A a \in Addrs : info[a] \in Info \cup {NoInfo}
      <4> SUFFICES ASSUME NEW a \in Addrs, a \notin Roots PROVE info[a] = NoInfo
        BY <1>4
      <4> QED
        BY <1>3
    <3>2. info = [a \in Addrs |-> info[a]]
      BY <1>3
    <3> QED
      BY <3>1, <3>2
  <2> QED
    BY <1>2, <1>3, <2>1, BioAssumption DEF BioType
<1>6. DevicesOK
  <2>1. \A u \in Users : ptr[u] = NULL
    BY <1>3
  <2>2. Addrs \subseteq Users /\ Roots \subseteq Addrs
    BY BioAssumption DEF Users
  <2>3. \A a, b \in Roots : <<a, Whole>> = <<b, Whole>> => a = b
    OBVIOUS
  <2> QED
    BY <1>2, <1>3, <1>4, <2>1, <2>2, <2>3 DEF DevicesOK
<1>7. RefsCounted
  <2> SUFFICES ASSUME NEW a \in Addrs
      PROVE  /\ ref[a] = Cardinality(PointTo(ptr, a)) + (IF a \in Listed THEN 1 ELSE 0) + lost[a]
             /\ a \in alive <=> ref[a] > 0
    BY DEF RefsCounted
  <2>1. PointTo(ptr, a) = {}
    BY <1>3, BioAssumption DEF PointTo, Preimage
  <2>2. Cardinality(PointTo(ptr, a)) = 0
    BY <2>1, FS_EmptySet
  <2> QED
    BY <1>2, <1>3, <2>2
<1>8. ScanOK
  <2>1. ptr[Scan] = NULL
    BY <1>3, PartitionAssumption DEF Users
  <2>2. entry \in Nat /\ entry < MmcEntries
    BY <1>1, PartitionAssumption
  <2>3. again \in BOOLEAN
    BY <1>1, Zenon
  <2> QED
    BY <1>1, <2>1, <2>2, <2>3 DEF ScanOK
<1>9. NamesVacant
  <2>1. \A n \in VacantAt(pc, entry) : n \in Nat
    BY <1>1, VacantCases, BioAssumption
  <2>2. \A n \in Nat : \A a \in Roots : <<a, Whole>> # <<root, n>>
    BY DEF Whole
  <2> QED
    BY <1>2, <1>4, <2>1, <2>2 DEF NamesVacant
<1>10. /\ mounts = <<>> /\ mpath = [m \in Mounts |-> NULL] /\ refs = [m \in Mounts |-> 0]
       /\ fmount = [f \in Files |-> NULL] /\ wanted = {} /\ aliased = FALSE
  BY DEF StorageInit
<1>11. Allocated = {}
  BY <1>3, FsAssumption DEF Allocated, Users
<1>12. MountsOK
  <2>1. mounts \in Seq(Mounts) /\ Len(mounts) = 0
    BY <1>10
  <2>2. Distinct(mounts) /\ \A m : ~OccursIn(m, mounts)
    BY <2>1 DEF Distinct, OccursIn
  <2>3. /\ mpath \in [Mounts -> MountPaths \cup {NULL}] /\ refs \in [Mounts -> Nat]
        /\ fmount \in [Files -> Mounts \cup {NULL}] /\ wanted \subseteq MountPaths
        /\ \A m \in Mounts : refs[m] = 0
    BY <1>10
  <2>4. aliased \in BOOLEAN
    BY <1>10
  <2> QED
    BY <1>11, <2>1, <2>2, <2>3, <2>4 DEF MountsOK
<1>13. PathsOK
  <2>1. ASSUME NEW m \in Mounts PROVE MountCounted(m)
    <3>1. Preimage(Files, fmount, m) = {}
      BY <1>10, FsAssumption DEF Preimage
    <3>2. Cardinality(Preimage(Files, fmount, m)) = 0
      BY <3>1, FS_EmptySet
    <3> QED
      BY <1>10, <1>11, <3>2 DEF MountCounted
  <2> QED
    BY <1>10, <1>11, <2>1 DEF PathsOK
<1> QED
  BY <1>5, <1>6, <1>7, <1>8, <1>9, <1>12, <1>13 DEF StorageInv, BioInv

\* Every step keeps the invariant.
LEMMA StorageStep ==
  ASSUME StorageInv, [StorageNext]_storageVars
  PROVE  StorageInv'
<1>0. BioInv /\ ScanOK /\ NamesVacant /\ MountsOK /\ PathsOK
  BY DEF StorageInv
<1>1. CASE PartNext /\ UNCHANGED fsVars
  <2>1. ScanStep
    BY <1>0, <1>1, MmcStep, CallStep, UnpublishStep, PublishStep DEF PartNext
  <2>2. \A m \in Mounts : ptr'[m] = ptr[m]
    BY <2>1, FsAssumption DEF ScanStep
  <2>3. MountsOK' /\ PathsOK'
    BY <1>0, <1>1, <2>2, MountFrame
  <2> QED
    BY <2>1, <2>3 DEF StorageInv, ScanStep
<1>2. CASE \E p \in MountPaths : (\E n \in Names : fs_mount(p, n)) \/ fs_unmount(p)
  BY <1>0, <1>2, MountStep, UnmountStep DEF FsStep, StorageInv
<1>3. CASE \E f \in Files : (\E p \in FilePaths : fs_open_file(f, p)) \/ fs_close_file(f)
  BY <1>0, <1>3, OpenFileStep, CloseFileStep DEF FsStep, StorageInv
<1>4. ASSUME NEW h \in Clients, NEW n \in Names, ClientOpens(h, n)
      PROVE  StorageInv'
  <2>1. ptr[h] = NULL /\ bio_open(h, n) /\ UNCHANGED <<partVars, fsVars>>
    BY <1>4 DEF ClientOpens
  <2>2. h \in Holders /\ h # Scan /\ h \notin Mounts
    BY StorageAssumption
  <2>3. /\ BioInv' /\ UNCHANGED <<bdevs, alive, info, lost>>
        /\ \E a \in Listed : info[a].name = n /\ ptr' = [ptr EXCEPT ![h] = a]
    BY <1>0, <2>1, <2>2, OpenKeeps
  <2>4. ptr'[Scan] = ptr[Scan] /\ \A m \in Mounts : ptr'[m] = ptr[m]
    BY <1>0, <2>2, <2>3, FsAssumption, PartitionAssumption DEF BioInv, BioType, Users
  <2>5. ScanOK' /\ NamesVacant'
    BY <1>0, <2>1, <2>3, <2>4, ScanFrame
  <2>6. MountsOK' /\ PathsOK'
    BY <1>0, <2>1, <2>4, MountFrame
  <2> QED
    BY <2>3, <2>5, <2>6 DEF StorageInv
<1>5. ASSUME NEW h \in Clients, ClientCloses(h)
      PROVE  StorageInv'
  <2>1. ptr[h] # NULL /\ bio_close(h) /\ UNCHANGED <<partVars, fsVars>>
    BY <1>5 DEF ClientCloses
  <2>2. h \in Holders /\ h # Scan /\ h \notin Mounts
    BY StorageAssumption
  <2>3. /\ BioInv' /\ UNCHANGED bdevs /\ (\A b \in Listed : info'[b] = info[b])
        /\ \A u \in Holders \ {h} : ptr'[u] = ptr[u]
    BY <1>0, <2>1, <2>2, CloseKeeps
  <2>4. ptr'[Scan] = ptr[Scan] /\ \A m \in Mounts : ptr'[m] = ptr[m]
    BY <2>2, <2>3, FsAssumption, PartitionAssumption
  <2>5. ScanOK' /\ NamesVacant'
    BY <1>0, <2>1, <2>3, <2>4, ScanFrame
  <2>6. MountsOK' /\ PathsOK'
    BY <1>0, <2>1, <2>4, MountFrame
  <2> QED
    BY <2>3, <2>5, <2>6 DEF StorageInv
<1>6. CASE UNCHANGED storageVars
  <2>1. UNCHANGED bioVars /\ UNCHANGED partVars /\ UNCHANGED fsVars
    BY <1>6 DEF storageVars
  <2>2. BioInv' /\ Listed' = Listed /\ info' = info /\ ptr' = ptr /\ bdevs' = bdevs
    BY <1>0, <2>1, BioStutter DEF bioVars
  <2>3. ScanOK' /\ NamesVacant'
    BY <1>0, <2>1, <2>2, ScanFrame
  <2>4. MountsOK' /\ PathsOK'
    BY <1>0, <2>1, <2>2, MountFrame
  <2> QED
    BY <2>2, <2>3, <2>4 DEF StorageInv
<1> QED
  BY <1>1, <1>2, <1>3, <1>4, <1>5, <1>6 DEF StorageNext

\* The inductive invariant: counts, names, where the partition thread is, and
\* the mounts, whatever opens, closes, mounts and publishes in between.
THEOREM StorageInvariant == StorageSpec => []StorageInv
<1>1. StorageInit => StorageInv
  BY StorageStart
<1>2. StorageInv /\ [StorageNext]_storageVars => StorageInv'
  BY StorageStep
<1> QED
  BY <1>1, <1>2, PTL DEF StorageSpec

\* The type invariant of block devices, partitions and mounts.
THEOREM StorageTypes == StorageSpec => []StorageTypeOK
<1>1. StorageInv => StorageTypeOK
  BY DEF StorageInv, BioInv, BioType, ScanOK, MountsOK, StorageTypeOK
<1> QED
  BY <1>1, StorageInvariant, PTL

\* bdev_inc_ref() and bdev_dec_ref() balance: a device is freed with its last
\* reference and not before, and it is not listed then.
THEOREM DevicesAreCounted == StorageSpec => []RefsExact
<1>1. StorageInv => RefsExact
  <2> SUFFICES ASSUME StorageInv PROVE RefsExact
    OBVIOUS
  <2>1. Distinct(bdevs) /\ alive \subseteq Addrs
    BY DEF StorageInv, BioInv, BioType
  <2>2. /\ \A a \in alive : OccursIn(a, bdevs) \/ a \notin Roots
        /\ \A a \in Addrs : OccursIn(a, bdevs) => a \in alive
        /\ \A u \in Users : ptr[u] # NULL => ptr[u] \in alive
    BY DEF StorageInv, BioInv, DevicesOK, Listed
  <2>3. \A a \in Addrs :
          /\ ref[a] = Cardinality({u \in Users : ptr[u] = a})
                      + (IF OccursIn(a, bdevs) THEN 1 ELSE 0) + lost[a]
          /\ a \in alive <=> ref[a] > 0
    BY DEF StorageInv, BioInv, RefsCounted, PointTo, Preimage, Listed
  <2> QED
    BY <2>1, <2>2, <2>3 DEF RefsExact
<1> QED
  BY <1>1, StorageInvariant, PTL

\* bio_open() can only mean one device: partition_publish() never lists a name
\* that is listed.
THEOREM NamesAreUnique == StorageSpec => []NamesUnique
<1>1. StorageInv => NamesUnique
  <2> SUFFICES ASSUME StorageInv, NEW m \in 1 .. Len(bdevs), NEW n \in 1 .. Len(bdevs),
                      info[bdevs[m]].name = info[bdevs[n]].name
               PROVE  m = n
    BY DEF NamesUnique
  <2>1. bdevs \in Seq(Addrs) /\ Distinct(bdevs)
    BY DEF StorageInv, BioInv, BioType
  <2>2. bdevs[m] \in Listed /\ bdevs[n] \in Listed
    BY <2>1 DEF Listed, OccursIn
  <2>3. bdevs[m] = bdevs[n]
    BY <2>2 DEF StorageInv, BioInv, DevicesOK
  <2> QED
    BY <2>1, <2>3 DEF Distinct
<1> QED
  BY <1>1, StorageInvariant, PTL

\* An open file keeps its mount and its device, and put_mount() counts exactly,
\* as long as no mount's path begins with another's.
THEOREM FilesKeepTheirMounts == StorageSpec => []FilesKeepMount
<1>1. StorageInv => FilesKeepMount
  <2> SUFFICES ASSUME StorageInv, ~aliased
      PROVE  /\ \A f \in Files : fmount[f] # NULL => /\ OccursIn(fmount[f], mounts)
                                                     /\ ptr[fmount[f]] \in alive
             /\ \A m \in Mounts :
                  refs[m] = Cardinality({f \in Files : fmount[f] = m})
                            + (IF m \in Allocated /\ mpath[m] \in wanted THEN 1 ELSE 0)
             /\ \A m \in Mounts : m \in Allocated <=> refs[m] > 0
    BY DEF FilesKeepMount
  <2>1. ASSUME NEW f \in Files, fmount[f] # NULL
        PROVE  OccursIn(fmount[f], mounts) /\ ptr[fmount[f]] \in alive
    <3>1. fmount[f] \in Mounts /\ ptr[fmount[f]] # NULL /\ OccursIn(fmount[f], mounts)
      BY <2>1 DEF StorageInv, PathsOK, MountsOK, Allocated
    <3>2. fmount[f] \in Users
      BY <3>1, FsAssumption DEF Users
    <3> QED
      BY <3>1, <3>2 DEF StorageInv, BioInv, DevicesOK
  <2>2. \A m \in Mounts :
          refs[m] = Cardinality({f \in Files : fmount[f] = m})
                    + (IF m \in Allocated /\ mpath[m] \in wanted THEN 1 ELSE 0)
    BY DEF StorageInv, PathsOK, MountCounted, Preimage
  <2>3. \A m \in Mounts : m \in Allocated <=> refs[m] > 0
    BY DEF StorageInv, MountsOK
  <2> QED
    BY <2>1, <2>2, <2>3
<1> QED
  BY <1>1, StorageInvariant, PTL

-----------------------------------------------------------------------------
(* Whoever has a device keeps it.                                          *)

\* The step of DevicesStay.
Kept ==
  \A u \in Users : ptr[u] # NULL /\ ptr'[u] = ptr[u] =>
    LET dev == ptr[u]
    IN  dev \in alive' /\ info'[dev] = info[dev] /\ ptr'[dev] = ptr[dev]

\* Every pointer is to a device that is alive, so a step that keeps those is enough.
LEMMA KeptIfAliveStays ==
  ASSUME BioInv, alive \subseteq alive', \A a \in alive : info'[a] = info[a] /\ ptr'[a] = ptr[a]
  PROVE  Kept
  BY DEF Kept, BioInv, DevicesOK

\* Opening a device changes one variable outside of the devices.
LEMMA OpenKept ==
  ASSUME BioInv, NEW h \in Holders, NEW n, bio_open(h, n)
  PROVE  Kept
<1>1. PICK a \in Addrs : ptr' = [ptr EXCEPT ![h] = a] /\ alive' = alive /\ info' = info
  BY DEF bio_open
<1>2. \A b \in alive : b # h /\ b \in Users
  BY BioAssumption DEF BioInv, BioType, Users
<1>3. \A b \in alive : ptr'[b] = ptr[b]
  BY <1>1, <1>2 DEF BioInv, BioType
<1> QED
  BY <1>1, <1>3, KeptIfAliveStays

\* So does a variable that goes out of scope.
LEMMA ForgetKept ==
  ASSUME BioInv, NEW h \in Holders, Forget(h)
  PROVE  Kept
<1>1. ptr' = [ptr EXCEPT ![h] = NULL] /\ alive' = alive /\ info' = info
  BY DEF Forget
<1>2. \A b \in alive : b # h /\ b \in Users
  BY BioAssumption DEF BioInv, BioType, Users
<1>3. \A b \in alive : ptr'[b] = ptr[b]
  BY <1>1, <1>2 DEF BioInv, BioType
<1> QED
  BY <1>1, <1>3, KeptIfAliveStays

\* A device is published in memory that no device is in.
LEMMA PublishKept ==
  ASSUME BioInv, NEW parent, NEW sub, NEW start, NEW len,
         bio_publish_subdevice(parent, sub, start, len)
  PROVE  Kept
<1>1. \/ UNCHANGED <<alive, info, ptr>>
      \/ /\ alive \subseteq alive'
         /\ \A b \in alive : info'[b] = info[b] /\ ptr'[b] = ptr[b]
  <2>1. PICK p \in Addrs :
          \/ UNCHANGED <<alive, info, ptr>>
          \/ \E a \in Addrs \ (alive \cup Roots) :
               /\ alive' = alive \cup {a}
               /\ info' = [info EXCEPT ![a] = [name |-> sub, offset |-> start, block_count |-> len]]
               /\ ptr' = [ptr EXCEPT ![a] = p]
    BY DEF bio_publish_subdevice
  <2>2. \A b \in alive : b \in Addrs /\ b \in Users
    BY DEF BioInv, BioType, Users
  <2> QED
    BY <2>1, <2>2 DEF BioInv, BioType
<1> QED
  BY <1>1, KeptIfAliveStays

\* Two variables that point to a device are counted as two.
LEMMA TwoPointers ==
  ASSUME BioInv, NEW u \in Users, NEW h \in Users, u # h, ptr[u] = ptr[h], ptr[h] # NULL
  PROVE  ref[ptr[h]] # 1
<1> DEFINE a == ptr[h]
<1>1. a \in Addrs
  BY DEF BioInv, BioType
<1>2. IsFiniteSet(PointTo(ptr, a)) /\ Cardinality(PointTo(ptr, a)) \in Nat
  BY PointersFinite
<1>3. h \in PointTo(ptr, a) /\ u \in PointTo(ptr, a) \ {h}
  BY DEF PointTo, Preimage
<1>4. /\ IsFiniteSet(PointTo(ptr, a) \ {h})
      /\ Cardinality(PointTo(ptr, a) \ {h}) = Cardinality(PointTo(ptr, a)) - 1
  BY <1>2, <1>3, FS_RemoveElement
<1>5. Cardinality(PointTo(ptr, a) \ {h}) # 0
  BY <1>3, <1>4, FS_EmptySet
<1>6. /\ ref[a] = Cardinality(PointTo(ptr, a)) + (IF a \in Listed THEN 1 ELSE 0) + lost[a]
      /\ lost[a] \in Nat
  BY <1>1 DEF BioInv, BioType, RefsCounted
<1>7. Cardinality(PointTo(ptr, a)) # 1
  BY <1>4, <1>5
<1> HIDE DEF a
<1>8. ref[a] # 1
  BY <1>2, <1>3, <1>6, <1>7, FS_EmptySet
<1> QED
  BY <1>8 DEF a

\* Closing frees a device only if nobody else points to it.
LEMMA CloseKept ==
  ASSUME BioInv, NEW h \in Holders, ptr[h] # NULL, bio_close(h)
  PROVE  Kept
<1> DEFINE a == ptr[h]
<1>1. /\ alive' = alive \ Gone(a)
      /\ info' = [x \in Addrs |-> IF x \in Gone(a) THEN NoInfo ELSE info[x]]
      /\ ptr' = [x \in Users |-> IF x = h \/ x \in Gone(a) THEN NULL ELSE ptr[x]]
  BY DEF bio_close, bdev_dec_ref
<1>2. h \in Users /\ h \notin Addrs /\ NULL \notin Addrs /\ a \in alive
  BY BioAssumption DEF BioInv, BioType, DevicesOK, Users
<1>3. Gone(a) = IF ref[a] = 1 THEN {a} ELSE {}
  BY <1>2, GoneAlone
<1> SUFFICES ASSUME NEW u \in Users, ptr[u] # NULL, ptr'[u] = ptr[u]
    PROVE  ptr[u] \in alive' /\ info'[ptr[u]] = info[ptr[u]] /\ ptr'[ptr[u]] = ptr[ptr[u]]
  BY DEF Kept
<1>4. ptr[u] \in alive /\ ptr[u] \in Addrs /\ ptr[u] \in Users /\ ptr[u] # h
  BY <1>2 DEF BioInv, BioType, DevicesOK, Users
<1>5. u # h
  BY <1>1
<1>6. ptr[u] \notin Gone(a)
  BY <1>2, <1>3, <1>5, TwoPointers
<1> QED
  BY <1>1, <1>4, <1>6

\* Unmounting closes the device of the mount, or nothing.
LEMMA PutMountKept ==
  ASSUME BioInv, NEW m \in Allocated, put_mount(m)
  PROVE  Kept
<1>1. m \in Holders /\ ptr[m] # NULL
  BY FsAssumption DEF Allocated
<1>2. CASE bio_close(m)
  BY <1>1, <1>2, CloseKept
<1>3. CASE UNCHANGED bioVars
  BY <1>3, KeptIfAliveStays DEF bioVars
<1> QED
  BY <1>2, <1>3 DEF put_mount

\* The partition thread takes devices from the list, and closes what it has opened.
LEMMA PartKept ==
  ASSUME BioInv, ScanOK, PartNext
  PROVE  Kept
<1>0. Scan \in Holders /\ root \in Roots /\ entry \in Nat /\ NULL \notin Roots
  BY BioAssumption, PartitionAssumption DEF ScanOK
<1>1. CASE UNCHANGED bioVars
  BY <1>1, KeptIfAliveStays DEF bioVars
<1>2. CASE mmc_boot_main
  BY <1>1, <1>2, PublishKept DEF mmc_boot_main
<1>3. CASE partition_unpublish
  <2>1. CASE pc = "unregister" /\ bio_unregister_device(Scan)
    <3>1. ptr[Scan] \in Listed /\ info[ptr[Scan]].name = <<root, entry>>
      BY <2>1 DEF ScanOK
    <3>2. <<root, entry>>[2] # Whole
      BY <1>0 DEF Whole
    <3>3. ptr[Scan] \notin Roots
      BY <3>1, <3>2 DEF BioInv, DevicesOK
    <3> QED
      BY <1>0, <2>1, <3>1, <3>3, UnregisterKeeps, KeptIfAliveStays
  <2>2. CASE pc = "close" /\ bio_close(Scan)
    BY <1>0, <2>2, CloseKept DEF ScanOK
  <2> QED
    BY <1>0, <1>1, <1>3, <2>1, <2>2, OpenKept DEF partition_unpublish
<1>4. CASE partition_publish
  <2>1. CASE pc = "done" /\ bio_close(Scan)
    BY <1>0, <2>1, CloseKept DEF ScanOK
  <2>2. CASE \E e \in Entries :
               IF validate_mbr_partition(ptr[Scan], e)
                 THEN bio_publish_subdevice(<<root, Whole>>, <<root, entry>>, e.lba_start, e.lba_length)
                 ELSE UNCHANGED bioVars
    BY <1>1, <2>2, PublishKept
  <2> QED
    BY <1>0, <1>1, <1>4, <2>1, <2>2, OpenKept, ForgetKept DEF partition_publish
<1> QED
  BY <1>1, <1>2, <1>3, <1>4 DEF PartNext, Call

\* bdev_dec_ref() frees a device only when its last user is done with it, and nobody
\* makes another device of one that is in use.
THEOREM OpenDevicesStay == StorageSpec => DevicesStay
<1>1. StorageInv /\ [StorageNext]_storageVars =>
        [ \A u \in Users : ptr[u] # NULL /\ ptr'[u] = ptr[u] =>
            LET dev == ptr[u]
            IN  dev \in alive' /\ info'[dev] = info[dev] /\ ptr'[dev] = ptr[dev] ]_storageVars
  <2> SUFFICES ASSUME StorageInv, StorageNext PROVE Kept
    BY DEF Kept
  <2>0. BioInv /\ ScanOK /\ MountsOK
    BY DEF StorageInv
  <2>1. CASE PartNext
    BY <2>0, <2>1, PartKept
  <2>2. CASE UNCHANGED bioVars
    BY <2>0, <2>2, KeptIfAliveStays DEF bioVars
  <2>3. ASSUME NEW m \in Mounts, NEW path, find_mount(m, path), put_mount(m) PROVE Kept
    BY <2>0, <2>3, FindFacts, PutMountKept
  <2>4. ASSUME NEW p \in MountPaths, (\E n \in Names : fs_mount(p, n)) \/ fs_unmount(p)
        PROVE  Kept
    <3>1. ASSUME NEW n \in Names, fs_mount(p, n) PROVE Kept
      BY <2>0, <3>1, OpenKept, FsAssumption DEF fs_mount
    <3> QED
      BY <2>3, <2>4, <3>1 DEF fs_unmount
  <2>5. ASSUME NEW f \in Files, (\E p \in FilePaths : fs_open_file(f, p)) \/ fs_close_file(f)
        PROVE  Kept
    BY <2>0, <2>2, <2>5, PutMountKept DEF fs_open_file, fs_close_file
  <2>6. ASSUME NEW h \in Clients, (\E n \in Names : ClientOpens(h, n)) \/ ClientCloses(h)
        PROVE  Kept
    <3>1. h \in Holders
      BY StorageAssumption
    <3> QED
      BY <2>0, <2>6, <3>1, OpenKept, CloseKept DEF ClientOpens, ClientCloses
  <2> QED
    BY <2>1, <2>4, <2>5, <2>6 DEF StorageNext
<1> QED
  BY <1>1, StorageInvariant, PTL DEF StorageSpec, DevicesStay
=============================================================================
