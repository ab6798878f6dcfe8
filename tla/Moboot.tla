------------------------------- MODULE Moboot -------------------------------
(***************************************************************************)
(* The boot application: moboot_init() of src/app/moboot/moboot.c, which   *)
(* never returns, with bootlinux_uimage_mem() of                           *)
(* src/lib/bootlinux/bootlinux.c.  What it draws is left out.              *)
(*                                                                         *)
(* The model ends where the code does what the language leaves undefined:  *)
(* in "stray" after a store outside its variables, if that does any harm,  *)
(* in "overrun" behind the array of entries, in "double_free" and, if the  *)
(* null pointer cannot be read, in "fault".                                *)
(***************************************************************************)
EXTENDS Menu, Uimage, SequencesExt

CONSTANTS
  Configs,       \* what the device holds: [boot, ramdisk : listings, default, next,
                 \* timeout, long : one of these three files has 256 bytes or more,
                 \* background : there is moboot.background.tga, nduid : the command
                 \* line names one, stale : what is left in the scratch memory]
  Files,         \* image files: <<directory, name>> -> words
  Extras,        \* name -> [verbose, sercon, splash : "absent", "empty", "no" or "yes"]
  MaxEntries,    \* 32
  Memory, SCRATCH_ADDR, SCRATCH_SIZE, RAMDISK_ADDR, TAGS_ADDR,
  BlockWords,    \* words of a file that are read by one read of the device
  Junk,
  MaxAttempts    \* bound: images tried, or reboots that do not happen

\* What fs_dirent() finds; image: the name begins with "uImage.", and not with
\* "uImage.moboot".
DirEntries == Seq([image : BOOLEAN, dir : STRING, name : STRING])

ASSUME MobootAssumption ==
  /\ MaxEntries \in Nat /\ SCRATCH_SIZE \in Nat /\ BlockWords \in Nat \ {0}
  /\ IsFiniteSet(Memory) /\ Memory \subseteq 0 .. Word - 1
  /\ {SCRATCH_ADDR, RAMDISK_ADDR, TAGS_ADDR} \subseteq Memory
  /\ SCRATCH_ADDR .. SCRATCH_ADDR + SCRATCH_SIZE - 1 \subseteq Memory
  /\ \A file \in DOMAIN Files : Files[file] \in Seq(Range(Files[file]))
  /\ \A c \in Configs : /\ {c.boot, c.ramdisk} \subseteq DirEntries
                        /\ {c.long, c.background, c.nduid} \subseteq BOOLEAN

VARIABLES
  config,
  entries, default_menu_entry, next_menu_entry, use_next, keys_pressed,
  scan,          \* directory entries that are left
  held,          \* history: a key was held at the start
  act,           \* the entry chosen
  mem, rv, boot_flags,
  kernel_ep,     \* the address at which the kernel is entered
  splash_ptr,    \* "null", "live" or "freed"
  attempts,      \* history: choices made
  unread,        \* history: blocks of the image whose read failed
  tried          \* history: the images whose extra files have been loaded

scanVars == <<entries, default_menu_entry, next_menu_entry, use_next, scan, held>>
bootVars == <<mem, rv, boot_flags, kernel_ep, splash_ptr, unread, tried>>
mobootVars == <<pc, menuVars, config, scanVars, keys_pressed, act, bootVars, attempts>>

FS(dir, name) == [type |-> "fs", arg |-> <<dir, name>>, name |-> name]
Other(type) == [type |-> type, arg |-> <<>>, name |-> type]

-----------------------------------------------------------------------------
(* Start-up.                                                               *)

\* The initial RAM disk, if the atags name one, is mounted.  If that fails, or
\* there is none, its listing is empty.
MountRamdisk ==
  /\ pc = "start"
  /\ \/ pc' = "mount"
     \/ config.ramdisk = <<>> /\ pc' = "no_ramdisk"
  /\ UNCHANGED <<menuVars, config, scanVars, keys_pressed, act, bootVars, attempts>>

NoRamdisk ==
  /\ gpiokeys_wait_select("no_ramdisk", "no_ramdisk_select", "mount")
  /\ UNCHANGED <<total, curpos, has_timeout, countdown, late, caught, how,
                 config, scanVars, keys_pressed, act, bootVars, attempts>>

\* Without /boot there is nothing to do.  The end of a settings file of 256 bytes or
\* more is marked behind the buffer; the background is loaded by fs_load_file_mem().
MountBoot ==
  /\ pc = "mount"
  /\ \/ pc' \in {"scan", "asleep"}
     \/ (config.long \/ config.background) /\ pc' = "stray"
  /\ scan' = config.boot \o config.ramdisk
  /\ UNCHANGED <<menuVars, config, entries, default_menu_entry, next_menu_entry, use_next, held,
                 keys_pressed, act, bootVars, attempts>>

\* set_menu_entry() of new entries.  The array has MaxEntries; more is undefined
\* behaviour, with which the model ends.
set_menu_entry(new, then) ==
  /\ entries' = entries \o new
  /\ pc' = IF Len(entries \o new) > MaxEntries THEN "overrun" ELSE then

\* As below, but the first image of a name counts.
ScanImage_Faulty ==
  /\ pc = "scan" /\ scan # <<>> /\ Head(scan).image
  /\ LET name == Head(scan).name
         num_menu_entries == Len(entries)
     IN  /\ default_menu_entry' =
              IF name = config.default /\ default_menu_entry = 0
                THEN num_menu_entries ELSE default_menu_entry
         /\ IF name = config.next
              THEN next_menu_entry' = num_menu_entries /\ use_next' = TRUE
              ELSE UNCHANGED <<next_menu_entry, use_next>>
         /\ set_menu_entry(<<FS(Head(scan).dir, name)>>, "scan")
  /\ scan' = Tail(scan)
  /\ UNCHANGED <<menuVars, config, held, keys_pressed, act, bootVars, attempts>>

\* An entry of a directory that is an image.
ScanImage ==
  /\ pc = "scan" /\ scan # <<>> /\ Head(scan).image
  /\ LET name == Head(scan).name
         num_menu_entries == Len(entries)
     IN  /\ default_menu_entry' =
              IF name = config.default THEN num_menu_entries ELSE default_menu_entry
         /\ IF name = config.next
              THEN next_menu_entry' = num_menu_entries /\ use_next' = TRUE
              ELSE UNCHANGED <<next_menu_entry, use_next>>
         /\ set_menu_entry(<<FS(Head(scan).dir, name)>>, "scan")
  /\ scan' = Tail(scan)
  /\ UNCHANGED <<menuVars, config, held, keys_pressed, act, bootVars, attempts>>

\* Another file, or one of moboot's own.
ScanOther ==
  /\ pc = "scan" /\ scan # <<>> /\ ~Head(scan).image
  /\ scan' = Tail(scan)
  /\ UNCHANGED <<pc, menuVars, config, entries, default_menu_entry, next_menu_entry, use_next,
                 held, keys_pressed, act, bootVars, attempts>>

\* As below, but a key that is held is only waited for.
ScanDone_Faulty ==
  /\ pc = "scan" /\ scan = <<>>
  /\ \E keys \in KeySets : held' = (keys # {})
  /\ set_menu_entry((IF entries = <<>> THEN <<FS("boot", "default")>> ELSE <<>>)
                      \o <<Other("recover"), Other("reboot"), Other("shutdown")>>, "loop")
  /\ UNCHANGED <<menuVars, config, default_menu_entry, next_menu_entry, use_next, scan,
                 keys_pressed, act, bootVars, attempts>>

\* Without an image there is one with a fixed path; the keys are polled, and one that
\* is held has to be released; then the other entries follow.
ScanDone ==
  /\ pc = "scan" /\ scan = <<>>
  /\ \E keys \in KeySets :
       /\ held' = (keys # {})
       /\ IF keys # {} THEN keys_pressed' = TRUE ELSE UNCHANGED keys_pressed
  /\ set_menu_entry((IF entries = <<>> THEN <<FS("boot", "default")>> ELSE <<>>)
                      \o <<Other("recover"), Other("reboot"), Other("shutdown")>>, "loop")
  /\ UNCHANGED <<menuVars, config, default_menu_entry, next_menu_entry, use_next, scan, act,
                 bootVars, attempts>>

-----------------------------------------------------------------------------
(* The main loop.                                                          *)

\* The menu, or the image to be booted next.
Loop ==
  /\ pc = "loop" /\ attempts < MaxAttempts
  /\ IF ~use_next \/ keys_pressed
       THEN /\ moboot_menu(default_menu_entry, Len(entries),
                           IF keys_pressed THEN 0 ELSE config.timeout)
            /\ UNCHANGED use_next
       ELSE /\ curpos' = next_menu_entry /\ use_next' = FALSE
            /\ pc' = "chosen" /\ how' = "next" /\ caught' = FALSE
            /\ UNCHANGED <<total, is_pressed, has_timeout, countdown, late>>
  /\ UNCHANGED <<config, entries, default_menu_entry, next_menu_entry, scan, held, keys_pressed,
                 act, bootVars, attempts>>

InMenu(step) == step /\ UNCHANGED <<config, scanVars, keys_pressed, act, bootVars, attempts>>

\* As below, but the menu has its timeout again the next time.
Chosen_Faulty ==
  /\ pc = "chosen"
  /\ act' = curpos /\ attempts' = attempts + 1 /\ boot_flags' = {}
  /\ pc' = IF entries[curpos + 1].type = "fs" THEN "load" ELSE "reboot"
  /\ UNCHANGED <<menuVars, config, scanVars, keys_pressed, mem, rv, kernel_ep, splash_ptr, unread,
                 tried>>

\* After the choice.
Chosen ==
  /\ pc = "chosen"
  /\ act' = curpos /\ keys_pressed' = TRUE /\ attempts' = attempts + 1 /\ boot_flags' = {}
  /\ pc' = IF entries[curpos + 1].type = "fs" THEN "load" ELSE "reboot"
  /\ UNCHANGED <<menuVars, config, scanVars, mem, rv, kernel_ep, splash_ptr, unread, tried>>

\* reboot_device() may come back.
reboot_device ==
  /\ pc = "reboot" /\ pc' \in {"off", "loop"}
  /\ UNCHANGED <<menuVars, config, scanVars, keys_pressed, act, bootVars, attempts>>

Entry == entries[act + 1]

\* How much of the chosen file fits into the scratch memory.
Loadable == Min({SCRATCH_SIZE, Len(Files[Entry.arg])})

\* The words of memory after n words from seq[1] on have been stored at a, save
\* those at the positions in skip.
Store(m, a, seq, skip) ==
  [x \in Memory |-> IF x - a + 1 \in DOMAIN seq \ skip THEN seq[x - a + 1] ELSE m[x]]

\* What reading the file into memory m at a leaves there when the blocks in bad
\* cannot be read: ext2_read_inode() does not look at the result of
\* ext2_read_block(), so such a block keeps what is there, or, if it is a last one
\* that is not full, is copied from an array on the stack; it counts as read.
ReadInto(m, a, file, bad) ==
  LET whole == (Len(file) \div BlockWords) * BlockWords
      isBad(k) == (k - 1) \div BlockWords \in bad
      read == [k \in 1 .. Len(file) |-> IF k > whole /\ isBad(k) THEN Junk ELSE file[k]]
  IN  Store(m, a, read, {k \in 1 .. whole : isBad(k)})

\* fs_load_file() into the scratch memory.
fs_load_file ==
  /\ pc = "load"
  /\ IF Entry.arg \in DOMAIN Files
       THEN \E bad \in SUBSET (0 .. (Loadable - 1) \div BlockWords) :
              /\ mem' = ReadInto(mem, SCRATCH_ADDR, SubSeq(Files[Entry.arg], 1, Loadable), bad)
              /\ unread' = bad /\ rv' = Loadable /\ pc' = "extras"
       ELSE pc' = "failed" /\ UNCHANGED <<mem, rv, unread>>
  /\ UNCHANGED <<menuVars, config, scanVars, keys_pressed, act, boot_flags, kernel_ep, splash_ptr,
                 tried, attempts>>

\* There is such a file, with something in it.
HasData(file) == file \notin {"absent", "empty"}

\* What fs_load_file_mem() leaves in the pointer: for an empty file it stores the NULL
\* that is meant to end the contents in the pointer itself.
fs_load_file_mem(p, file) ==
  CASE file = "absent" -> p
    [] file = "empty" -> "null"
    [] OTHER -> "live"

\* The pointer after the free() between the two uses of it.
FreePtr(p) == IF p = "live" THEN "freed" ELSE p

Extra == Extras[Entry.name]

\* As below, but the splash image is freed too.
LoadExtras_Faulty ==
  /\ pc = "extras"
  /\ boot_flags' = {f \in {"verbose", "sercon"} : Extra[f] = "yes"}
  /\ LET p == fs_load_file_mem(fs_load_file_mem(splash_ptr, Extra.verbose), Extra.sercon)
     IN  IF p = "freed" THEN pc' = "double_free" /\ UNCHANGED <<splash_ptr, tried>>
         ELSE /\ pc' = "check" /\ tried' = Append(tried, Entry.name)
              /\ splash_ptr' = FreePtr(fs_load_file_mem(FreePtr(p), Extra.splash))
  /\ UNCHANGED <<menuVars, config, scanVars, keys_pressed, act, mem, rv, kernel_ep, unread,
                 attempts>>

\* The files for verbose and serial console, then free(), then the splash image.  For a
\* file with n bytes in it fs_load_file_mem() stores a NULL n words behind the pointer.
LoadExtras ==
  /\ pc = "extras"
  /\ boot_flags' = {f \in {"verbose", "sercon"} : Extra[f] = "yes"}
  /\ LET p == fs_load_file_mem(fs_load_file_mem(splash_ptr, Extra.verbose), Extra.sercon)
     IN  \/ /\ p = "freed" /\ pc' = "double_free"
            /\ UNCHANGED <<splash_ptr, tried>>
         \/ /\ p # "freed" /\ pc' = "check"
            /\ splash_ptr' = fs_load_file_mem(FreePtr(p), Extra.splash)
            /\ tried' = Append(tried, Entry.name)
         \/ /\ p # "freed" /\ pc' = "stray" /\ \E f \in DOMAIN Extra : HasData(Extra[f])
            /\ UNCHANGED <<splash_ptr, tried>>
  /\ UNCHANGED <<menuVars, config, scanVars, keys_pressed, act, mem, rv, kernel_ep, unread,
                 attempts>>

\* bootlinux_uimage_mem(): the image is checked and parsed, the kernel and then the RAM
\* disk are moved, the tags written, and the kernel is entered.  Without an nduid the
\* serial number is read through the NULL of strchr().
bootlinux_uimage_mem ==
  LET hdr == SCRATCH_ADDR
      image == uimage_parse(mem, hdr)
      k == image.kernel
      r == image.ramdisk
      m1 == Store(mem, k.load, Block(mem, k.addr, k.size), {})
      m2 == Store(m1, RAMDISK_ADDR, Block(m1, r.addr, r.size), {})
  IN  /\ pc = "check"
      /\ IF uimage_check(mem, hdr, rv) /\ image.ok /\ k.size # 0
           THEN \/ /\ pc' = "linux" /\ kernel_ep' = k.ep
                   /\ mem' = Store(m2, TAGS_ADDR, <<"tags">>, {})
                \/ ~config.nduid /\ pc' = "fault" /\ mem' = m2 /\ UNCHANGED kernel_ep
           ELSE pc' = "failed" /\ UNCHANGED <<mem, kernel_ep>>
      /\ UNCHANGED <<menuVars, config, scanVars, keys_pressed, act, rv, boot_flags, splash_ptr,
                     unread, tried, attempts>>

\* BOOT FAILED!
BootFailed ==
  /\ gpiokeys_wait_select("failed", "failed_select", "loop")
  /\ UNCHANGED <<total, curpos, has_timeout, countdown, late, caught, how,
                 config, scanVars, keys_pressed, act, bootVars, attempts>>

-----------------------------------------------------------------------------
MobootInit ==
  /\ pc = "start" /\ config \in Configs
  /\ total = 0 /\ curpos = 0 /\ is_pressed = {} /\ has_timeout = FALSE /\ countdown = 0
  /\ late = FALSE /\ caught = FALSE /\ how = "none"
  /\ entries = <<>> /\ default_menu_entry = 0 /\ next_menu_entry = 0 /\ use_next = FALSE
  /\ scan = <<>> /\ held = FALSE /\ keys_pressed = FALSE /\ act = 0
  /\ mem = Store([x \in Memory |-> Junk], SCRATCH_ADDR, config.stale, {})
  /\ rv = 0 /\ boot_flags = {} /\ kernel_ep = 0 /\ splash_ptr = "null" /\ unread = {}
  /\ tried = <<>> /\ attempts = 0

MobootNext ==
  \/ MountRamdisk \/ NoRamdisk \/ MountBoot
  \/ ScanImage \/ ScanOther \/ ScanDone
  \/ Loop \/ InMenu(MenuStep) \/ InMenu(Clock) \/ Chosen \/ reboot_device
  \/ fs_load_file \/ LoadExtras \/ bootlinux_uimage_mem \/ BootFailed

\* The thread runs and the time passes.  What the keys do is up to the user.
MobootSpec ==
  /\ MobootInit /\ [][MobootNext]_mobootVars
  /\ WF_mobootVars(InMenu(MenuStep)) /\ WF_mobootVars(InMenu(Clock))

-----------------------------------------------------------------------------
(* Properties.                                                             *)

\* The entries of both directories, the images up to the i-th of them, those of a
\* name, and the place in the menu of the image at i.
Listing == config.boot \o config.ramdisk
ImagesTo(i) == {j \in 1 .. i : Listing[j].image}
Named(name, i) == {j \in ImagesTo(i) : Listing[j].name = name}
Place(i) == Cardinality(ImagesTo(i))

\* What the scan has made of the first i entries.
Scanned(i) ==
  /\ \A j \in ImagesTo(i) : entries[Place(j)] = FS(Listing[j].dir, Listing[j].name)
  /\ default_menu_entry = IF Named(config.default, i) = {} THEN 0
                          ELSE Place(Max(Named(config.default, i))) - 1
  /\ use_next => /\ Named(config.next, i) # {}
                 /\ next_menu_entry = Place(Max(Named(config.next, i))) - 1

\* The entries before the last three: the images, or one with a fixed path.
Bootable == LET n == Place(Len(Listing)) IN IF n = 0 THEN 1 ELSE n

MenuComplete ==
  /\ Scanned(Len(Listing)) /\ Len(entries) = Bootable + 3
  /\ Place(Len(Listing)) = 0 => entries[1] = FS("boot", "default")
  /\ entries[Bootable + 1] = Other("recover") /\ entries[Bootable + 2] = Other("reboot")
  /\ entries[Bootable + 3] = Other("shutdown")

\* The menu is the directories: each image of /boot and of /ramdisk/boot once, in
\* order, then the three other entries; the cursor starts at the last image that
\* has the configured name.  The array overruns only if they do not fit.
MenuIsDirectory ==
  /\ pc \in {"loop", "draw", "chosen"} => MenuComplete
  /\ pc = "overrun" => Bootable + 3 > MaxEntries

\* Only the first choice is made without the user: after a failed attempt, and
\* when a key was held at the start, nothing happens before SELECT.  It is the
\* image for the next boot or the default, never a reboot or a shutdown, unless
\* the poll that does not end the countdown caught a key and moved the cursor.
UnattendedOnce ==
  pc \in {"load", "reboot"} /\ how # "select" =>
    /\ attempts = 1 /\ ~held
    /\ caught \/ Entry.type = "fs"
    /\ how = "timeout" => act = default_menu_entry \/ caught
    /\ how = "next" => Entry.name = config.next

Area(a, n) == a .. a + n - 1
Disjoint(A, B) == A \cap B = {}

\* The image that a header vouches for: itself, and the data of its checksum; and
\* the memory with nothing else.
Vouched(w) == [k \in 1 .. Header[w].size + 1 |-> IF k = 1 THEN w ELSE Header[w].dcrc[k - 1]]
Only(w) == Store([x \in Memory |-> Junk], SCRATCH_ADDR, Vouched(w), {})

\* The table of an image, with its 0, and the images in it lie in the n words from hdr
\* on.  uimage_valid_multi_sizes() is to check this, and is not written.
ImagesInside(m, hdr, n) ==
  IsMulti(m, hdr) =>
    /\ \E c \in 0 .. n - 2 :
         /\ ntohl(At(m, uimage_data(hdr) + c)) = 0
         /\ \A k \in 0 .. c - 1 : ntohl(At(m, uimage_data(hdr) + k)) # 0
    /\ \A i \in 1 .. uimage_multi_count(m, hdr) :
         LET sub == uimage_multi_image(m, hdr, i)
         IN  {sub, sub + uimage_multi_size(m, hdr, i) - 1} \subseteq Area(hdr, n)

\* Nothing that is moved lands on what is still to be moved, or on what has been.
Apart(k, r) ==
  LET K == Area(k.load, k.size)
      R == Area(RAMDISK_ADDR, r.size)
  IN  /\ K \cup R \subseteq Memory /\ Disjoint(K, R)
      /\ Disjoint(K, Area(r.addr, r.size)) /\ Disjoint(K \cup R, {TAGS_ADDR})

\* The image in memory m is the one that runs.
Runs(m, len) ==
  LET image == uimage_parse(m, SCRATCH_ADDR)
      k == image.kernel
      r == image.ramdisk
  IN  /\ uimage_check(m, SCRATCH_ADDR, len) /\ image.ok /\ k.size # 0 /\ kernel_ep = k.ep
      /\ Apart(k, r) => /\ Block(mem, k.load, k.size) = Block(m, k.addr, k.size)
                        /\ Block(mem, RAMDISK_ADDR, r.size) = Block(m, r.addr, r.size)

\* The words of the chosen file that could be read.
WordsRead == {k \in 1 .. Loadable : (k - 1) \div BlockWords \notin unread}

\* When the kernel is entered, the flags are the chosen file's.  If its header could be read,
\* the file has the header's size, or more than fits, and is what the header vouches for,
\* where it could be read; kernel and RAM disk are those that the header vouches for,
\* whatever an earlier image has left in the scratch memory and whichever blocks could not
\* be read, as long as the images of a multi-file image lie inside it.  The kernel's load
\* address comes from the image: it has to be apart.  An empty file is booted
\* only if some header has a size that wraps.
LinuxGetsFile ==
  pc = "linux" =>
    LET w == Files[Entry.arg][1]
    IN  /\ boot_flags = {f \in {"verbose", "sercon"} : Extra[f] = "yes"}
        /\ Loadable = 0 => \E h \in DOMAIN Header : Header[h].size = Word - 1
        /\ 1 \in WordsRead =>
             /\ w \in DOMAIN Header /\ Header[w].size = Loadable - 1
             /\ \A k \in WordsRead : Files[Entry.arg][k] = Vouched(w)[k]
             /\ ImagesInside(Only(w), SCRATCH_ADDR, Loadable) => Runs(Only(w), Loadable)

\* The file for the console that an image has and that is loaded last.
Console(name) ==
  IF Extras[name].sercon # "absent" THEN Extras[name].sercon ELSE Extras[name].verbose

\* What has been tried leaves splash_ptr behind freed: the last image has no splash
\* image, and what was freed is its file for the console or, if it has none, the splash
\* image of the one before.
Dangling ==
  LET n == Len(tried)
  IN  /\ n > 0 /\ Extras[tried[n]].splash = "absent"
      /\ \/ HasData(Console(tried[n]))
         \/ Console(tried[n]) = "absent" /\ n > 1 /\ HasData(Extras[tried[n - 1]].splash)

\* When the pointer that moboot uses for all extra files dangles, and that free() gets a
\* block twice only then, by an image that has no file for the console.  So never in the
\* first attempt; the two ways to it are a file for the console without a splash image,
\* and a splash image whose image is followed by one with neither.
FreesOnce ==
  /\ splash_ptr = "freed" <=> Dangling
  /\ pc = "double_free" => Dangling /\ Console(Entry.name) = "absent"

\* The countdown comes to an end: a key ends it, or an entry is chosen.
CountdownEnds == has_timeout ~> ~has_timeout
=============================================================================
