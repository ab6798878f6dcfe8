------------------------------ MODULE Partition ------------------------------
(***************************************************************************)
(* Sub-devices made from partition tables.  At start-up mmc_boot_main() of *)
(* src/platform/msm_shared/mmc.c publishes what partition_parser.c found;  *)
(* later partition_publish() and partition_unpublish() of                  *)
(* src/lib/partition/partition.c may do it again.  One thread does this;   *)
(* between two of its calls into bio others open, close and mount.         *)
(***************************************************************************)
EXTENDS Bio

CONSTANTS
  Scan,         \* the variable dev of partition_publish() and partition_unpublish()
  Entries,      \* partition entries: [valid, lba_start, lba_length]
  MbrEntries,   \* 4
  Unpublished,  \* 16, the names that partition_unpublish() tries
  MmcEntries    \* partitions that partition_parser.c may find

ASSUME PartitionAssumption ==
  /\ Scan \in Holders
  /\ Entries \subseteq [valid : BOOLEAN, lba_start : 0 .. Word - 1, lba_length : 0 .. Word - 1]
  /\ MbrEntries \in Nat \ {0} /\ Unpublished \in Nat \ {0} /\ MmcEntries \in Nat \ {0}
  /\ MbrEntries <= Unpublished /\ 0 .. Unpublished - 1 \subseteq Parts
  /\ 1 .. MmcEntries \subseteq Parts

VARIABLES
  pc,     \* where the thread is
  root,   \* the device it works on
  entry,  \* the loop counter
  again   \* partition_unpublish() was called by partition_publish()

partVars == <<pc, root, entry, again>>

\* A loop of n turns has come to its end, or goes on.
Step(n, loop, after) ==
  IF entry + 1 < n THEN entry' = entry + 1 /\ pc' = loop ELSE entry' = 0 /\ pc' = after

-----------------------------------------------------------------------------
\* mmc_boot_main() publishes the next partition, with its size in bytes, or there are
\* no more partitions.
mmc_boot_main ==
  /\ pc = "mmc"
  /\ \/ /\ \E e \in Entries :
             bio_publish_subdevice(<<root, Whole>>, <<root, entry + 1>>, e.lba_start,
                                   (e.lba_length * BlockSize) % Word)
        /\ Step(MmcEntries, "mmc", "idle")
     \/ /\ pc' = "idle" /\ entry' = 0
        /\ UNCHANGED bioVars
  /\ UNCHANGED <<root, again>>

validate_mbr_partition(dev, e) ==
  /\ e.valid
  /\ e.lba_start < info[dev].block_count
  /\ (e.lba_start + e.lba_length) % Word <= info[dev].block_count

\* Either of the two functions is called.
Call(r) ==
  /\ pc = "idle"
  /\ pc' = "unpublish" /\ root' = r /\ entry' = 0 /\ again' \in BOOLEAN
  /\ UNCHANGED bioVars

AfterUnpublish == IF again THEN "open" ELSE "idle"

\* partition_unpublish(): bio_open() of a name, and the two calls that follow.
partition_unpublish ==
  \/ /\ pc = "unpublish" /\ bio_open(Scan, <<root, entry>>)
     /\ pc' = "unregister" /\ UNCHANGED <<root, entry, again>>
  \/ /\ pc = "unpublish" /\ ~Exists(<<root, entry>>)
     /\ Step(Unpublished, "unpublish", AfterUnpublish) /\ UNCHANGED <<bioVars, root, again>>
  \/ /\ pc = "unregister" /\ bio_unregister_device(Scan)
     /\ pc' = "close" /\ UNCHANGED <<root, entry, again>>
  \/ /\ pc = "close" /\ bio_close(Scan)
     /\ Step(Unpublished, "unpublish", AfterUnpublish) /\ UNCHANGED <<root, again>>

\* As below, but the old sub-devices stay.
partition_publish_Faulty ==
  \/ /\ pc \in {"open", "unpublish"} /\ bio_open(Scan, <<root, Whole>>)
     /\ pc' = "read" /\ entry' = 0 /\ UNCHANGED <<root, again>>
  \/ /\ pc = "read" /\ pc' = "entry" /\ UNCHANGED <<bioVars, root, entry, again>>
  \/ /\ pc = "entry"
     /\ \E e \in Entries :
          IF validate_mbr_partition(ptr[Scan], e)
            THEN bio_publish_subdevice(<<root, Whole>>, <<root, entry>>, e.lba_start, e.lba_length)
            ELSE UNCHANGED bioVars
     /\ Step(MbrEntries, "entry", "done") /\ UNCHANGED <<root, again>>
  \/ /\ pc = "done" /\ bio_close(Scan)
     /\ pc' = "idle" /\ UNCHANGED <<root, entry, again>>

\* partition_publish() after the call of partition_unpublish(): the device is
\* opened and its table read.  A read error returns without bio_close().
partition_publish ==
  \/ /\ pc = "open" /\ bio_open(Scan, <<root, Whole>>)
     /\ pc' = "read" /\ UNCHANGED <<root, entry, again>>
  \/ /\ pc = "read" /\ Forget(Scan)
     /\ pc' = "idle" /\ UNCHANGED <<root, entry, again>>
  \/ /\ pc = "read"
     /\ pc' \in {"entry", "done"} /\ UNCHANGED <<bioVars, root, entry, again>>
  \/ /\ pc = "entry"
     /\ \E e \in Entries :
          IF validate_mbr_partition(ptr[Scan], e)
            THEN bio_publish_subdevice(<<root, Whole>>, <<root, entry>>, e.lba_start, e.lba_length)
            ELSE UNCHANGED bioVars
     /\ Step(MbrEntries, "entry", "done") /\ UNCHANGED <<root, again>>
  \/ /\ pc = "done" /\ bio_close(Scan)
     /\ pc' = "idle" /\ UNCHANGED <<root, entry, again>>

PartInit == BioInit /\ pc = "mmc" /\ root \in Roots /\ entry = 0 /\ again = FALSE

PartNext ==
  \/ mmc_boot_main
  \/ \E r \in Roots : Call(r)
  \/ partition_unpublish
  \/ partition_publish
=============================================================================
