---------------------------------- MODULE Fs ----------------------------------
(***************************************************************************)
(* The file system layer, src/lib/fs/fs.c: mounts and the files opened     *)
(* through them.  Paths are as fs_normalize_path() leaves them.  A mount   *)
(* is counted once for itself and once for every open file; the last       *)
(* reference to go unmounts it and closes its device.                      *)
(*                                                                         *)
(* A caller unmounts a path only after it has mounted it.  Nobody can be   *)
(* held to more, yet it is not enough: see aliased.                        *)
(***************************************************************************)
EXTENDS Partition

CONSTANTS
  Mounts,       \* struct fs_mount objects
  Files,        \* struct fs_file objects
  MountPaths,   \* paths, as sequences of characters
  FilePaths

ASSUME FsAssumption ==
  /\ Mounts \subseteq Holders /\ Scan \notin Mounts
  /\ NULL \notin Mounts /\ IsFiniteSet(Files)
  /\ MountPaths \cup FilePaths \subseteq Seq(STRING)

VARIABLES
  mounts,   \* the list of mounts
  mpath, refs,
  fmount,   \* the mount of an open file
  wanted,   \* paths that have been mounted and not unmounted by their caller
  aliased   \* a path has been mounted that is a prefix of another mount's

fsVars == <<mounts, mpath, refs, fmount, wanted, aliased>>

StartsWith(s, p) == Len(p) <= Len(s) /\ SubSeq(s, 1, Len(p)) = p

Allocated == {m \in Mounts : ptr[m] # NULL}

-----------------------------------------------------------------------------
\* The mount at which find_mount() stops: the first whose path the string begins
\* with, wherever the next component of the string begins.
find_mount(m, path) ==
  \E n \in 1 .. Len(mounts) :
    /\ m = mounts[n] /\ StartsWith(path, mpath[m])
    /\ \A k \in 1 .. n - 1 : ~StartsWith(path, mpath[mounts[k]])

Mounted(path) == \E m \in Mounts : find_mount(m, path)

\* mount(): bio_open() of the device, then the file system's mount function.  If
\* that fails the device is closed again and nothing has changed.  Bound: nothing
\* more is mounted once two mounts are aliased.
fs_mount(path, dev) ==
  /\ ~Mounted(path) /\ ~aliased
  /\ \E m \in Mounts \ Allocated :
       /\ bio_open(m, dev)
       /\ mounts' = <<m>> \o mounts
       /\ mpath' = [mpath EXCEPT ![m] = path]
       /\ refs' = [refs EXCEPT ![m] = 1]
  /\ wanted' = wanted \cup {path}
  /\ aliased' = \E m \in Allocated : StartsWith(mpath[m], path)
  /\ UNCHANGED <<fmount, partVars>>

put_mount(m) ==
  IF refs[m] = 1
    THEN /\ mounts' = Without(mounts, m)
         /\ mpath' = [mpath EXCEPT ![m] = NULL]
         /\ refs' = [refs EXCEPT ![m] = 0]
         /\ bio_close(m)
    ELSE /\ refs' = [refs EXCEPT ![m] = @ - 1]
         /\ UNCHANGED <<mounts, mpath, bioVars>>

fs_unmount(path) ==
  /\ path \in wanted
  /\ \E m \in Mounts : find_mount(m, path) /\ put_mount(m)
  /\ wanted' = wanted \ {path}
  /\ UNCHANGED <<fmount, aliased, partVars>>

\* As below, but the mount is not counted.
fs_open_file_Faulty(f, path) ==
  /\ fmount[f] = NULL
  /\ \E m \in Mounts : find_mount(m, path) /\ fmount' = [fmount EXCEPT ![f] = m]
  /\ UNCHANGED <<bioVars, partVars, mounts, mpath, refs, wanted, aliased>>

\* fs_open_file() when the file system finds the file.
fs_open_file(f, path) ==
  /\ fmount[f] = NULL
  /\ \E m \in Mounts : /\ find_mount(m, path)
                       /\ fmount' = [fmount EXCEPT ![f] = m]
                       /\ refs' = [refs EXCEPT ![m] = @ + 1]
  /\ UNCHANGED <<bioVars, partVars, mounts, mpath, wanted, aliased>>

\* fs_close_file().  With a mount that has been freed its effect is undefined;
\* FilesKeepMount is about when that can happen.
fs_close_file(f) ==
  /\ fmount[f] \in Allocated
  /\ put_mount(fmount[f])
  /\ fmount' = [fmount EXCEPT ![f] = NULL]
  /\ UNCHANGED <<partVars, wanted, aliased>>
=============================================================================
