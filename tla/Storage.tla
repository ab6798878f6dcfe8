------------------------------- MODULE Storage -------------------------------
(***************************************************************************)
(* Devices, partitions and the file system layer together: what one of     *)
(* them does while another holds on to a device.                           *)
(***************************************************************************)
EXTENDS Fs

CONSTANT Clients   \* other users of bio_open()

ASSUME StorageAssumption ==
  /\ Holders = {Scan} \cup Mounts \cup Clients
  /\ Clients \cap ({Scan} \cup Mounts) = {}

storageVars == <<bioVars, partVars, fsVars>>

StorageInit ==
  /\ PartInit
  /\ mounts = <<>> /\ mpath = [m \in Mounts |-> NULL] /\ refs = [m \in Mounts |-> 0]
  /\ fmount = [f \in Files |-> NULL] /\ wanted = {} /\ aliased = FALSE

ClientOpens(h, n) ==
  ptr[h] = NULL /\ bio_open(h, n) /\ UNCHANGED <<partVars, fsVars>>

ClientCloses(h) ==
  ptr[h] # NULL /\ bio_close(h) /\ UNCHANGED <<partVars, fsVars>>

StorageNext ==
  \/ PartNext /\ UNCHANGED fsVars
  \/ \E p \in MountPaths : (\E n \in Names : fs_mount(p, n)) \/ fs_unmount(p)
  \/ \E f \in Files : (\E p \in FilePaths : fs_open_file(f, p)) \/ fs_close_file(f)
  \/ \E h \in Clients : (\E n \in Names : ClientOpens(h, n)) \/ ClientCloses(h)

StorageSpec == StorageInit /\ [][StorageNext]_storageVars

-----------------------------------------------------------------------------
(* Properties.                                                             *)

\* The type invariant.
StorageTypeOK ==
  /\ bdevs \in Seq(Addrs) /\ alive \subseteq Addrs
  /\ info \in [Addrs -> Info \cup {NoInfo}] /\ ref \in [Addrs -> Nat]
  /\ ptr \in [Users -> Addrs \cup {NULL}] /\ lost \in [Addrs -> Nat]
  /\ pc \in {"mmc", "idle", "unpublish", "unregister", "close", "open", "read", "entry", "done"}
  /\ root \in Roots /\ entry \in Nat /\ again \in BOOLEAN
  /\ mounts \in Seq(Mounts) /\ refs \in [Mounts -> Nat]
  /\ fmount \in [Files -> Mounts \cup {NULL}]

\* A device is counted exactly: once if it is listed, once for each pointer to
\* it, and for what error paths have lost; it is freed with the last of them.
\* So no pointer is to a device that has been freed, no freed device is listed
\* (the assertion of bdev_dec_ref()), and no unused device stays allocated.
RefsExact ==
  /\ Distinct(bdevs)
  /\ \A a \in alive : OccursIn(a, bdevs) \/ a \notin Roots
  /\ \A a \in Addrs : OccursIn(a, bdevs) => a \in alive
  /\ \A u \in Users : ptr[u] # NULL => ptr[u] \in alive
  /\ \A a \in Addrs :
       /\ ref[a] = Cardinality({u \in Users : ptr[u] = a})
                   + (IF OccursIn(a, bdevs) THEN 1 ELSE 0) + lost[a]
       /\ a \in alive <=> ref[a] > 0

\* bio_open() finds by name: no two listed devices have the same one, also when
\* partitions are published again while the old ones are in use.
NamesUnique ==
  \A m, n \in 1 .. Len(bdevs) : info[bdevs[m]].name = info[bdevs[n]].name => m = n

\* Whoever keeps a pointer to a device over a step (a client that has it open, a mount, a
\* sub-device its parent, partition_publish() its dev) finds the same device behind it
\* afterwards: not freed, not made into another partition since, with the same parent.
\* Publishing the partitions again takes them from the list and from nobody.
DevicesStay ==
  [][ \A u \in Users : ptr[u] # NULL /\ ptr'[u] = ptr[u] =>
        LET dev == ptr[u]
        IN  dev \in alive' /\ info'[dev] = info[dev] /\ ptr'[dev] = ptr[dev] ]_storageVars

\* Unless mount paths are aliased, an open file keeps its mount, and with it the
\* device: no sequence of unmounts, also of the path it was opened by, nor the
\* unpublishing of the partition takes them away.  The count of a mount is exact.
FilesKeepMount ==
  ~aliased =>
    /\ \A f \in Files : fmount[f] # NULL => /\ OccursIn(fmount[f], mounts)
                                          /\ ptr[fmount[f]] \in alive
    /\ \A m \in Mounts : refs[m] = Cardinality({f \in Files : fmount[f] = m})
                                   + (IF m \in Allocated /\ mpath[m] \in wanted THEN 1 ELSE 0)
    /\ \A m \in Mounts : m \in Allocated <=> refs[m] > 0
=============================================================================
