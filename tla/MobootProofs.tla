----------------------------- MODULE MobootProofs -----------------------------
(***************************************************************************)
(* The boot application, for any contents of the device, any memory, any   *)
(* number of attempts and any keys: nothing is started without the user a  *)
(* second time, when its one pointer is freed twice, what the menu shows,  *)
(* and which kernel is entered.                                            *)
(***************************************************************************)
EXTENDS Moboot, FiniteSetTheorems, WellFoundedInduction, TLAPS

-----------------------------------------------------------------------------
(* The pointer.  It is live when the last image has left a splash image,   *)
(* and what the last image and the one before have left decides whether it *)
(* dangles.                                                                *)

FreeInv ==
  /\ \E S : tried \in Seq(S)
  /\ splash_ptr \in {"null", "live", "freed"}
  /\ splash_ptr = "live" <=> Len(tried) > 0 /\ HasData(Extras[tried[Len(tried)]].splash)
  /\ FreesOnce

\* Nothing that FreeInv is about changes.
LEMMA FreeStays ==
  ASSUME FreeInv, UNCHANGED <<splash_ptr, tried>>,
         pc' # "double_free" \/ UNCHANGED <<pc, entries, act>>
  PROVE  FreeInv'
PROOF
<1>1. Dangling' = Dangling
  BY DEF Dangling
<1>2. pc' = "double_free" => pc = "double_free" /\ Entry' = Entry
  BY DEF Entry
<1> QED
  BY <1>1, <1>2 DEF FreeInv, FreesOnce

\* The extra files of an image: the pointer is the file for the console, or what was
\* there, until it is freed, and then the splash image.
LEMMA ExtrasPointer ==
  ASSUME FreeInv, LoadExtras
  PROVE  FreeInv'
PROOF
<1> DEFINE p == fs_load_file_mem(fs_load_file_mem(splash_ptr, Extra.verbose), Extra.sercon)
           n == Len(tried)
           console == Console(Entry.name)
<1>0. PICK S : tried \in Seq(S)
  BY DEF FreeInv
<1>1. /\ console = "absent" => p = splash_ptr
      /\ console = "empty" => p = "null"
      /\ HasData(console) => p = "live"
  BY DEF Console, Extra, fs_load_file_mem, HasData
<1>2. splash_ptr = "freed" <=> Dangling
  BY DEF FreeInv, FreesOnce
<1>3. CASE p = "freed" /\ pc' = "double_free" /\ UNCHANGED <<splash_ptr, tried>>
  <2>1. console = "absent" /\ Dangling
    BY <1>1, <1>2, <1>3 DEF HasData
  <2>2. UNCHANGED <<entries, act>>
    BY DEF LoadExtras, scanVars
  <2>3. Dangling' = Dangling /\ Entry' = Entry
    BY <1>3, <2>2 DEF Dangling, Entry
  <2> QED
    BY <1>3, <2>1, <2>3 DEF FreeInv, FreesOnce
<1>4. CASE /\ p # "freed" /\ pc' = "check"
           /\ splash_ptr' = fs_load_file_mem(FreePtr(p), Extra.splash)
           /\ tried' = Append(tried, Entry.name)
  <2>1. /\ tried' \in Seq(S \cup {Entry.name}) /\ Len(tried') = n + 1 /\ n \in Nat
        /\ tried'[n + 1] = Entry.name
        /\ n > 0 => tried'[n] = tried[n]
    <3>1. tried \in Seq(S \cup {Entry.name})
      BY <1>0
    <3> QED
      BY <1>4, <3>1
  <2>2. p \in {"null", "live"}
    BY <1>1, <1>4 DEF FreeInv, HasData
  <2>3. p = "live" <=> \/ HasData(console)
                       \/ console = "absent" /\ n > 0 /\ HasData(Extras[tried[n]].splash)
    BY <1>1, <1>4 DEF FreeInv, HasData
  <2>4. /\ splash_ptr' \in {"null", "live", "freed"}
        /\ splash_ptr' = "live" <=> HasData(Extra.splash)
        /\ splash_ptr' = "freed" <=> Extra.splash = "absent" /\ p = "live"
    BY <1>4, <2>2 DEF fs_load_file_mem, FreePtr, HasData
  <2>5. Dangling' <=> Extra.splash = "absent" /\ p = "live"
    <3>1. Dangling' <=> /\ Extras[Entry.name].splash = "absent"
                        /\ \/ HasData(console)
                           \/ console = "absent" /\ n > 0 /\ HasData(Extras[tried[n]].splash)
      BY <2>1 DEF Dangling, Console, HasData
    <3> QED
      BY <3>1, <2>3 DEF Extra
  <2>6. splash_ptr' = "live" <=> Len(tried') > 0 /\ HasData(Extras[tried'[Len(tried')]].splash)
    BY <2>1, <2>4 DEF Extra
  <2> QED
    BY <1>4, <2>1, <2>4, <2>5, <2>6 DEF FreeInv, FreesOnce
<1>5. CASE pc' = "stray" /\ UNCHANGED <<splash_ptr, tried>>
  BY <1>5, FreeStays
<1> QED
  BY <1>3, <1>4, <1>5 DEF LoadExtras

\* Every step keeps what is known of the pointer.
LEMMA FreeInvStep ==
  ASSUME FreeInv, [MobootNext]_mobootVars
  PROVE  FreeInv'
PROOF
<1>1. CASE MountRamdisk
  BY <1>1, FreeStays DEF MountRamdisk, bootVars, scanVars
<1>2. CASE NoRamdisk
  BY <1>2, FreeStays DEF NoRamdisk, gpiokeys_wait_select, bootVars, scanVars
<1>3. CASE MountBoot
  BY <1>3, FreeStays DEF MountBoot, bootVars
<1>4. CASE ScanImage
  BY <1>4, FreeStays DEF ScanImage, set_menu_entry, bootVars
<1>5. CASE ScanOther
  BY <1>5, FreeStays DEF ScanOther, bootVars
<1>6. CASE ScanDone
  BY <1>6, FreeStays DEF ScanDone, set_menu_entry, bootVars
<1>7. CASE Loop
  BY <1>7, FreeStays DEF Loop, moboot_menu, bootVars
<1>8. CASE InMenu(MenuStep)
  <2>1. pc' \in {"draw", "turn", "poll", "chosen"}
    BY <1>8 DEF InMenu, MenuStep, Draw, Turn, Poll, Released
  <2> QED
    BY <1>8, <2>1, FreeStays DEF InMenu, bootVars, scanVars
<1>9. CASE InMenu(Clock)
  BY <1>9, FreeStays DEF InMenu, Clock, bootVars, scanVars
<1>10. CASE Chosen
  BY <1>10, FreeStays DEF Chosen
<1>11. CASE reboot_device
  BY <1>11, FreeStays DEF reboot_device, bootVars, scanVars
<1>12. CASE fs_load_file
  BY <1>12, FreeStays DEF fs_load_file
<1>13. CASE LoadExtras
  BY <1>13, ExtrasPointer
<1>14. CASE bootlinux_uimage_mem
  <2>1. UNCHANGED <<splash_ptr, tried>> /\ pc' \in {"linux", "failed", "fault"}
    BY <1>14 DEF bootlinux_uimage_mem
  <2> QED
    BY <2>1, FreeStays
<1>15. CASE BootFailed
  BY <1>15, FreeStays DEF BootFailed, gpiokeys_wait_select, bootVars, scanVars
<1>16. CASE UNCHANGED mobootVars
  BY <1>16, FreeStays DEF mobootVars, bootVars, scanVars
<1> QED
  BY <1>1, <1>2, <1>3, <1>4, <1>5, <1>6, <1>7, <1>8, <1>9, <1>10, <1>11, <1>12, <1>13, <1>14,
     <1>15, <1>16 DEF MobootNext

\* The pointer of moboot dangles exactly when the last image tried has no splash image
\* and had a file for the console, or had none and came after one with a splash image;
\* free() gets a block twice only if it dangles and the image has no file for the console.
THEOREM PointerFreedOnce == MobootSpec => []FreesOnce
PROOF
<1>1. MobootInit => FreeInv
  <2> SUFFICES ASSUME MobootInit PROVE FreeInv
    OBVIOUS
  <2>1. pc = "start" /\ splash_ptr = "null" /\ tried = <<>>
    BY DEF MobootInit
  <2>2. tried \in Seq({}) /\ Len(tried) = 0
    BY <2>1
  <2>3. ~Dangling
    BY <2>2 DEF Dangling
  <2> QED
    BY <2>1, <2>2, <2>3 DEF FreeInv, FreesOnce
<1>2. FreeInv => FreesOnce
  BY DEF FreeInv
<1> QED
  BY <1>1, <1>2, FreeInvStep, PTL DEF MobootSpec

-----------------------------------------------------------------------------
(* What is started without the user.  While the time runs nothing has been *)
(* tried, and the cursor is where it started or a key has been caught; the *)
(* entries that the scan has marked are images.                            *)

InMenuLoop == {"draw", "turn", "poll"}
BeforeScan == {"start", "no_ramdisk", "no_ramdisk_select", "mount"}
AfterScan == {"loop", "chosen", "load", "reboot", "off", "extras", "check", "failed",
              "failed_select", "linux", "double_free"} \cup InMenuLoop
Ended == {"asleep", "stray", "fault"}

IsImage(k) == k + 1 \in 1 .. Len(entries) /\ entries[k + 1].type = "fs"
IsNext(k) == IsImage(k) /\ entries[k + 1].name = config.next

EntriesInv ==
  /\ \E S : entries \in Seq(S)
  /\ default_menu_entry \in Nat /\ next_menu_entry \in Nat
  /\ pc \in BeforeScan => entries = <<>> /\ default_menu_entry = 0 /\ ~use_next
  /\ pc = "scan" => /\ \A k \in 1 .. Len(entries) : entries[k].type = "fs"
                    /\ default_menu_entry = 0 \/ IsImage(default_menu_entry)
                    /\ use_next => IsNext(next_menu_entry)
  /\ pc \in AfterScan => /\ IsImage(default_menu_entry)
                         /\ use_next => IsNext(next_menu_entry)

CountdownInv ==
  /\ attempts \in Nat
  /\ attempts > 0 \/ held => keys_pressed
  /\ pc \in BeforeScan \cup {"scan"} => attempts = 0
  /\ pc \in {"load", "reboot"} => attempts > 0
  /\ late => has_timeout
  /\ has_timeout => /\ pc \in InMenuLoop /\ attempts = 0 /\ ~held
                    /\ caught \/ curpos = default_menu_entry
                    /\ is_pressed # {} => caught

ChosenInv ==
  pc = "chosen" /\ how # "select" =>
    /\ attempts = 0 /\ ~held
    /\ caught \/ IsImage(curpos)
    /\ how = "timeout" => curpos = default_menu_entry \/ caught
    /\ how = "next" => IsNext(curpos)

UnattendedInv == EntriesInv /\ CountdownInv /\ ChosenInv /\ UnattendedOnce

\* A step after the scan leaves the entries alone.
LEMMA EntriesStay ==
  ASSUME EntriesInv, UNCHANGED <<entries, default_menu_entry, next_menu_entry, config>>,
         use_next' => use_next,
         pc' = pc \/ (pc \in AfterScan /\ pc' \in AfterScan) \/ pc' \in Ended
  PROVE  EntriesInv'
PROOF
<1>1. \A k : IsImage(k)' = IsImage(k) /\ IsNext(k)' = IsNext(k)
  BY DEF IsImage, IsNext
<1>2. pc' \in Ended => pc' \notin BeforeScan /\ pc' # "scan" /\ pc' \notin AfterScan
  BY DEF BeforeScan, AfterScan, InMenuLoop, Ended
<1>3. pc' \in AfterScan => pc' \notin BeforeScan /\ pc' # "scan"
  BY DEF BeforeScan, AfterScan, InMenuLoop
<1> QED
  BY <1>1, <1>2, <1>3 DEF EntriesInv

\* A step outside the menu that chooses nothing.
LEMMA OutsideMenu ==
  ASSUME CountdownInv, pc \notin InMenuLoop, pc' \notin {"load", "reboot", "chosen"},
         UNCHANGED <<attempts, held, keys_pressed, late, has_timeout>>,
         pc' \in BeforeScan \cup {"scan"} => pc \in BeforeScan \cup {"scan"}
  PROVE  CountdownInv' /\ ChosenInv' /\ UnattendedOnce'
PROOF
<1>1. ~has_timeout /\ ~late
  BY DEF CountdownInv
<1>2. CountdownInv'
  BY <1>1 DEF CountdownInv
<1> QED
  BY <1>2 DEF ChosenInv, UnattendedOnce

\* A sequence with one more element.
LEMMA AppendOne ==
  ASSUME NEW S, NEW s \in Seq(S), NEW e
  PROVE  /\ s \o <<e>> \in Seq(S \cup {e}) /\ Len(s \o <<e>>) = Len(s) + 1
         /\ \A k \in 1 .. Len(s) : (s \o <<e>>)[k] = s[k]
         /\ (s \o <<e>>)[Len(s) + 1] = e
PROOF
<1>1. s \in Seq(S \cup {e}) /\ <<e>> \in Seq(S \cup {e})
  OBVIOUS
<1> QED
  BY <1>1

\* A sequence with another behind it.
LEMMA AppendMore ==
  ASSUME NEW S, NEW T, NEW s \in Seq(S), NEW t \in Seq(T)
  PROVE  /\ s \o t \in Seq(S \cup T) /\ Len(s \o t) = Len(s) + Len(t)
         /\ \A k \in 1 .. Len(s) : (s \o t)[k] = s[k]
PROOF
<1>1. s \in Seq(S \cup T) /\ t \in Seq(S \cup T)
  OBVIOUS
<1> QED
  BY <1>1

\* set_menu_entry() marks the entry that it has just appended, and leaves the others.
LEMMA ScanImageEntries ==
  ASSUME EntriesInv, ScanImage
  PROVE  EntriesInv'
PROOF
<1> DEFINE e == FS(Head(scan).dir, Head(scan).name)
           n == Len(entries)
<1>0. PICK S : entries \in Seq(S)
  BY DEF EntriesInv
<1>1. /\ pc = "scan" /\ pc' \in {"scan", "overrun"} /\ entries' = entries \o <<e>> /\ config' = config
      /\ default_menu_entry' = default_menu_entry
           \/ default_menu_entry' = n
      /\ \/ next_menu_entry' = next_menu_entry /\ use_next' = use_next
         \/ next_menu_entry' = n /\ Head(scan).name = config.next
  BY DEF ScanImage, set_menu_entry
<1>2. /\ entries' \in Seq(S \cup {e}) /\ Len(entries') = n + 1 /\ n \in Nat
      /\ \A k \in 1 .. n : entries'[k] = entries[k]
      /\ entries'[n + 1] = e
  BY <1>0, <1>1, AppendOne
<1>3. e.type = "fs" /\ e.name = Head(scan).name
  BY DEF FS
<1> HIDE DEF e
<1>4. /\ \A k \in Nat : IsImage(k) => IsImage(k)'
      /\ \A k \in Nat : IsNext(k) => IsNext(k)'
  BY <1>1, <1>2 DEF IsImage, IsNext
<1>5. \A k : k = n => IsImage(k)' /\ (Head(scan).name = config.next => IsNext(k)')
  BY <1>1, <1>2, <1>3 DEF IsImage, IsNext
<1>6. \A k \in 1 .. Len(entries') : entries'[k].type = "fs"
  BY <1>1, <1>2, <1>3 DEF EntriesInv
<1>7. /\ default_menu_entry' \in Nat /\ next_menu_entry' \in Nat
      /\ default_menu_entry' = 0 \/ IsImage(default_menu_entry)'
  <2>1. CASE default_menu_entry' = n
    BY <1>1, <1>2, <1>5, <2>1 DEF EntriesInv, IsImage
  <2>2. CASE default_menu_entry' = default_menu_entry
    BY <1>1, <1>2, <1>4, <2>2 DEF EntriesInv, IsImage
  <2> QED
    BY <1>1, <2>1, <2>2
<1>8. use_next' => IsNext(next_menu_entry)'
  <2>1. CASE next_menu_entry' = n /\ Head(scan).name = config.next
    BY <1>5, <2>1 DEF IsNext, IsImage
  <2>2. CASE next_menu_entry' = next_menu_entry /\ use_next' = use_next
    BY <1>1, <1>4, <2>2 DEF EntriesInv, IsNext, IsImage
  <2> QED
    BY <1>1, <2>1, <2>2
<1> QED
  BY <1>1, <1>2, <1>6, <1>7, <1>8 DEF EntriesInv, BeforeScan, AfterScan, InMenuLoop

\* The last entries are appended behind the images, which keep their places.
LEMMA ScanDoneEntries ==
  ASSUME EntriesInv, ScanDone
  PROVE  EntriesInv'
PROOF
<1> DEFINE others == <<Other("recover"), Other("reboot"), Other("shutdown")>>
           new == (IF entries = <<>> THEN <<FS("boot", "default")>> ELSE <<>>) \o others
<1>0. PICK S : entries \in Seq(S)
  BY DEF EntriesInv
<1>1. /\ pc = "scan" /\ pc' \in {"loop", "overrun"} /\ entries' = entries \o new
      /\ UNCHANGED <<config, default_menu_entry, next_menu_entry, use_next>>
  BY DEF ScanDone, set_menu_entry
<1>2. PICK T : others \in Seq(T)
  <2>1. others \in Seq({Other("recover"), Other("reboot"), Other("shutdown")})
    OBVIOUS
  <2> QED
    BY <2>1
<1>3. Len(others) = 3
  OBVIOUS
<1> HIDE DEF others
<1>4. CASE entries = <<>>
  <2> DEFINE e == FS("boot", "default")
  <2>1. entries' = <<e>> \o others
    BY <1>1, <1>2, <1>4
  <2>2. <<e>> \in Seq({e})
    OBVIOUS
  <2>3. entries' \in Seq({e} \cup T) /\ Len(entries') = 4 /\ entries'[1] = e
    <3>1. /\ <<e>> \o others \in Seq({e} \cup T) /\ Len(<<e>> \o others) = Len(<<e>>) + Len(others)
          /\ \A k \in 1 .. Len(<<e>>) : (<<e>> \o others)[k] = <<e>>[k]
      BY <2>2, <1>2, AppendMore
    <3> QED
      BY <2>1, <3>1, <1>3
  <2>4. default_menu_entry = 0 /\ ~use_next
    BY <1>1, <1>4 DEF EntriesInv, IsImage, IsNext
  <2>5. IsImage(default_menu_entry)'
    BY <1>1, <2>3, <2>4 DEF IsImage, FS
  <2> QED
    BY <1>1, <2>3, <2>4, <2>5 DEF EntriesInv, BeforeScan, AfterScan, InMenuLoop
<1>5. CASE entries # <<>>
  <2>1. entries' = entries \o others
    BY <1>1, <1>2, <1>5
  <2>2. /\ entries' \in Seq(S \cup T) /\ Len(entries') = Len(entries) + 3
        /\ \A k \in 1 .. Len(entries) : entries'[k] = entries[k]
    <3>1. /\ entries \o others \in Seq(S \cup T)
          /\ Len(entries \o others) = Len(entries) + Len(others)
          /\ \A k \in 1 .. Len(entries) : (entries \o others)[k] = entries[k]
      BY <1>0, <1>2, AppendMore
    <3> QED
      BY <2>1, <3>1, <1>3
  <2>3. Len(entries) \in Nat /\ 1 <= Len(entries)
    BY <1>0, <1>5
  <2>4. /\ \A k \in Nat : IsImage(k) => IsImage(k)'
        /\ \A k \in Nat : IsNext(k) => IsNext(k)'
    BY <1>1, <2>2, <2>3 DEF IsImage, IsNext
  <2>5. IsImage(default_menu_entry)
    <3>1. CASE default_menu_entry = 0
      <4>1. entries[1].type = "fs"
        BY <1>1, <2>3 DEF EntriesInv
      <4> QED
        BY <3>1, <4>1, <2>3 DEF IsImage
    <3> QED
      BY <1>1, <3>1 DEF EntriesInv
  <2> QED
    BY <1>1, <2>2, <2>4, <2>5 DEF EntriesInv, BeforeScan, AfterScan, InMenuLoop
<1> QED
  BY <1>4, <1>5

\* The boot loop starts the countdown before the first attempt only.
LEMMA LoopUnattended ==
  ASSUME UnattendedInv, Loop
  PROVE  UnattendedInv'
PROOF
<1>0. /\ pc = "loop" /\ ~has_timeout /\ ~late /\ attempts \in Nat /\ (attempts > 0 \/ held => keys_pressed)
      /\ UNCHANGED <<attempts, held, keys_pressed, entries, default_menu_entry, next_menu_entry,
                     config>>
  BY DEF Loop, UnattendedInv, CountdownInv, InMenuLoop
<1>1. CASE ~use_next \/ keys_pressed
  <2>1. /\ pc' = "draw" /\ curpos' = default_menu_entry /\ is_pressed' = {} /\ late' = FALSE
        /\ (keys_pressed => ~has_timeout') /\ use_next' = use_next
    BY <1>1 DEF Loop, moboot_menu
  <2>2. CountdownInv'
    BY <1>0, <2>1 DEF CountdownInv, InMenuLoop, BeforeScan
  <2>3. EntriesInv'
    BY <1>0, <2>1, EntriesStay DEF UnattendedInv, AfterScan, InMenuLoop
  <2> QED
    BY <2>1, <2>2, <2>3 DEF UnattendedInv, ChosenInv, UnattendedOnce
<1>2. CASE use_next /\ ~keys_pressed
  <2>1. /\ pc' = "chosen" /\ curpos' = next_menu_entry /\ how' = "next" /\ use_next' = FALSE
        /\ UNCHANGED <<has_timeout, late>>
    BY <1>2 DEF Loop
  <2>2. CountdownInv'
    BY <1>0, <2>1 DEF CountdownInv, InMenuLoop, BeforeScan
  <2>3. EntriesInv'
    BY <1>0, <2>1, EntriesStay DEF UnattendedInv, AfterScan, InMenuLoop
  <2>4. ChosenInv'
    <3>1. IsNext(next_menu_entry)
      BY <1>0, <1>2 DEF UnattendedInv, EntriesInv, AfterScan
    <3>2. IsNext(curpos)' /\ IsImage(curpos)'
      BY <1>0, <2>1, <3>1 DEF IsNext, IsImage
    <3> QED
      BY <1>0, <1>2, <2>1, <3>2 DEF ChosenInv
  <2> QED
    BY <2>1, <2>2, <2>3, <2>4 DEF UnattendedInv, UnattendedOnce
<1> QED
  BY <1>1, <1>2

\* A step of the menu: the time runs out where the cursor started, or a key has been caught.
LEMMA MenuUnattended ==
  ASSUME UnattendedInv, InMenu(MenuStep)
  PROVE  UnattendedInv'
PROOF
<1>0. /\ UNCHANGED <<attempts, held, keys_pressed, entries, default_menu_entry, next_menu_entry,
                     config, use_next>>
      /\ pc \in InMenuLoop /\ pc' \in InMenuLoop \cup {"chosen"}
  BY DEF InMenu, MenuStep, Draw, Turn, Poll, Released, InMenuLoop, scanVars
<1>1. EntriesInv'
  BY <1>0, EntriesStay DEF UnattendedInv, AfterScan
<1>2. UnattendedOnce'
  BY <1>0 DEF UnattendedOnce, InMenuLoop
<1>3. IsImage(default_menu_entry)
  BY <1>0 DEF UnattendedInv, EntriesInv, AfterScan
<1>4. CASE Draw
  <2>1. /\ pc' = "turn" /\ (caught => caught') /\ (has_timeout /\ is_pressed' # {} => caught')
        /\ UNCHANGED <<curpos, has_timeout, late>>
    BY <1>4 DEF Draw
  <2>2. CountdownInv'
    BY <1>0, <2>1 DEF UnattendedInv, CountdownInv, InMenuLoop, BeforeScan
  <2> QED
    BY <1>1, <1>2, <2>1, <2>2 DEF UnattendedInv, ChosenInv
<1>5. CASE Turn
  <2>1. CASE late /\ countdown = 1
    <3>1. /\ pc' = "chosen" /\ how' = "timeout" /\ has_timeout' = FALSE /\ late' = FALSE
          /\ UNCHANGED <<curpos, caught>>
      BY <1>5, <2>1 DEF Turn
    <3>2. attempts = 0 /\ ~held /\ (caught \/ curpos = default_menu_entry)
      BY <2>1 DEF UnattendedInv, CountdownInv
    <3>3. CountdownInv'
      BY <1>0, <3>1 DEF UnattendedInv, CountdownInv, InMenuLoop, BeforeScan
    <3>4. curpos = default_menu_entry => IsImage(curpos)'
      BY <1>0, <1>3, <3>1 DEF IsImage
    <3>5. ChosenInv'
      BY <1>0, <3>1, <3>2, <3>4 DEF ChosenInv
    <3> QED
      BY <1>1, <1>2, <3>3, <3>5 DEF UnattendedInv
  <2>2. CASE ~(late /\ countdown = 1)
    <3>1. pc' = "poll" /\ (late' => late) /\ UNCHANGED <<curpos, caught, is_pressed, has_timeout>>
      BY <1>5, <2>2 DEF Turn
    <3>2. CountdownInv'
      BY <1>0, <3>1 DEF UnattendedInv, CountdownInv, InMenuLoop, BeforeScan
    <3> QED
      BY <1>1, <1>2, <3>1, <3>2 DEF UnattendedInv, ChosenInv
  <2> QED
    BY <2>1, <2>2
<1>6. CASE Poll
  <2>1. PICK keys \in KeySets :
          /\ IF is_pressed # {} /\ keys = {}
               THEN Released(is_pressed) /\ UNCHANGED is_pressed
               ELSE /\ is_pressed' = IF keys # {} THEN keys ELSE is_pressed
                    /\ pc' = "turn" /\ UNCHANGED <<curpos, how>>
          /\ IF keys # {} \/ pc' = "chosen"
               THEN has_timeout' = FALSE /\ countdown' = 0 /\ late' = FALSE
               ELSE UNCHANGED <<has_timeout, countdown, late>>
    BY <1>6 DEF Poll
  <2>2. caught' = caught
    BY <1>6 DEF Poll
  <2>3. ChosenInv'
    BY <2>1 DEF ChosenInv, Released
  <2>4. CASE keys # {} \/ pc' = "chosen"
    <3>1. has_timeout' = FALSE /\ late' = FALSE
      BY <2>1, <2>4
    <3>2. CountdownInv'
      BY <1>0, <3>1 DEF UnattendedInv, CountdownInv, InMenuLoop, BeforeScan
    <3> QED
      BY <1>1, <1>2, <2>3, <3>2 DEF UnattendedInv
  <2>5. CASE ~(keys # {} \/ pc' = "chosen")
    <3>1. UNCHANGED <<has_timeout, late, is_pressed>>
      BY <2>1, <2>5
    <3>2. is_pressed = {} => curpos' = curpos
      BY <2>1
    <3>3. CountdownInv'
      BY <1>0, <2>2, <2>5, <3>1, <3>2 DEF UnattendedInv, CountdownInv, InMenuLoop, BeforeScan
    <3> QED
      BY <1>1, <1>2, <2>3, <3>3 DEF UnattendedInv
  <2> QED
    BY <2>4, <2>5
<1> QED
  BY <1>4, <1>5, <1>6 DEF InMenu, MenuStep

\* Handing an entry over for boot ends the unattended part.
LEMMA ChosenUnattended ==
  ASSUME UnattendedInv, Chosen
  PROVE  UnattendedInv'
PROOF
<1>0. /\ pc = "chosen" /\ pc' \in {"load", "reboot"} /\ act' = curpos /\ keys_pressed' = TRUE
      /\ attempts' = attempts + 1
      /\ UNCHANGED <<entries, default_menu_entry, next_menu_entry, config, use_next, held,
                     has_timeout, late, caught, how, curpos>>
  BY DEF Chosen, menuVars, scanVars
<1>1. EntriesInv'
  BY <1>0, EntriesStay DEF UnattendedInv, AfterScan
<1>2. CountdownInv'
  BY <1>0 DEF UnattendedInv, CountdownInv, InMenuLoop, BeforeScan
<1>3. ChosenInv'
  BY <1>0 DEF ChosenInv
<1>4. UnattendedOnce'
  <2>1. Entry' = entries[curpos + 1]
    BY <1>0 DEF Entry
  <2>2. how # "select" =>
          /\ attempts = 0 /\ ~held
          /\ caught \/ Entry'.type = "fs"
          /\ how = "timeout" => curpos = default_menu_entry \/ caught
          /\ how = "next" => Entry'.name = config.next
    BY <1>0, <2>1 DEF UnattendedInv, ChosenInv, IsImage, IsNext
  <2> QED
    BY <1>0, <2>2 DEF UnattendedOnce
<1> QED
  BY <1>1, <1>2, <1>3, <1>4 DEF UnattendedInv

\* Every step keeps what is known of an unattended start.
LEMMA UnattendedStep ==
  ASSUME UnattendedInv, [MobootNext]_mobootVars
  PROVE  UnattendedInv'
PROOF
<1>0. EntriesInv /\ CountdownInv
  BY DEF UnattendedInv
<1> USE DEF scanVars, bootVars, menuVars
<1>1. CASE MountRamdisk \/ NoRamdisk \/ MountBoot
  <2>1. /\ pc \in BeforeScan /\ pc' \in BeforeScan \cup {"scan"} \cup Ended
        /\ UNCHANGED <<attempts, held, keys_pressed, late, has_timeout, entries, default_menu_entry,
                       next_menu_entry, config, use_next>>
    BY <1>1 DEF MountRamdisk, NoRamdisk, MountBoot, gpiokeys_wait_select, BeforeScan, Ended
  <2>2. EntriesInv'
    BY <1>0, <2>1 DEF EntriesInv, BeforeScan, AfterScan, InMenuLoop, Ended
  <2>3. CountdownInv' /\ ChosenInv' /\ UnattendedOnce'
    BY <1>0, <2>1, OutsideMenu DEF BeforeScan, InMenuLoop, Ended
  <2> QED
    BY <2>2, <2>3 DEF UnattendedInv
<1>2. CASE ScanImage
  <2>1. /\ pc = "scan" /\ pc' \in {"scan", "overrun"}
        /\ UNCHANGED <<attempts, held, keys_pressed, late, has_timeout>>
    BY <1>2 DEF ScanImage, set_menu_entry
  <2>2. CountdownInv' /\ ChosenInv' /\ UnattendedOnce'
    BY <1>0, <2>1, OutsideMenu DEF BeforeScan, InMenuLoop
  <2> QED
    BY <1>0, <1>2, <2>2, ScanImageEntries DEF UnattendedInv
<1>3. CASE ScanOther
  <2>1. /\ pc = "scan" /\ pc' = pc
        /\ UNCHANGED <<attempts, held, keys_pressed, late, has_timeout, entries, default_menu_entry,
                       next_menu_entry, config, use_next>>
    BY <1>3 DEF ScanOther
  <2>2. CountdownInv' /\ ChosenInv' /\ UnattendedOnce'
    BY <1>0, <2>1, OutsideMenu DEF BeforeScan, InMenuLoop
  <2>3. EntriesInv'
    BY <1>0, <2>1, EntriesStay
  <2> QED
    BY <2>2, <2>3 DEF UnattendedInv
<1>4. CASE ScanDone
  <2>1. /\ pc = "scan" /\ pc' \in {"loop", "overrun"} /\ (held' => keys_pressed')
        /\ UNCHANGED <<attempts, late, has_timeout>>
    BY <1>4 DEF ScanDone, set_menu_entry
  <2>2. attempts = 0 /\ ~has_timeout /\ ~late
    BY <1>0, <2>1 DEF CountdownInv, InMenuLoop
  <2>3. CountdownInv' /\ ChosenInv' /\ UnattendedOnce'
    BY <2>1, <2>2 DEF CountdownInv, ChosenInv, UnattendedOnce, BeforeScan
  <2> QED
    BY <1>0, <1>4, <2>3, ScanDoneEntries DEF UnattendedInv
<1>5. CASE Loop
  BY <1>5, LoopUnattended
<1>6. CASE InMenu(MenuStep)
  BY <1>6, MenuUnattended
<1>7. CASE InMenu(Clock)
  <2>1. /\ has_timeout
        /\ UNCHANGED <<pc, attempts, held, keys_pressed, has_timeout, entries, default_menu_entry,
                       caught, curpos, is_pressed, next_menu_entry, config, use_next>>
    BY <1>7 DEF InMenu, Clock
  <2>2. EntriesInv'
    BY <1>0, <2>1, EntriesStay
  <2>3. CountdownInv'
    BY <1>0, <2>1 DEF CountdownInv
  <2>4. ChosenInv' /\ UnattendedOnce'
    BY <1>0, <2>1 DEF CountdownInv, InMenuLoop, ChosenInv, UnattendedOnce
  <2> QED
    BY <2>2, <2>3, <2>4 DEF UnattendedInv
<1>8. CASE Chosen
  BY <1>8, ChosenUnattended
<1>9. CASE reboot_device \/ fs_load_file \/ LoadExtras \/ bootlinux_uimage_mem \/ BootFailed
  <2>1. /\ pc \in {"reboot", "load", "extras", "check", "failed", "failed_select"}
        /\ pc' \in {"off", "loop", "extras", "check", "double_free", "linux", "failed",
                    "failed_select"} \cup Ended
        /\ UNCHANGED <<attempts, held, keys_pressed, late, has_timeout, entries, default_menu_entry,
                       next_menu_entry, config, use_next>>
    <3>1. CASE reboot_device \/ BootFailed
      BY <3>1 DEF reboot_device, BootFailed, gpiokeys_wait_select
    <3>2. CASE fs_load_file
      BY <3>2 DEF fs_load_file
    <3>3. CASE LoadExtras
      BY <3>3 DEF LoadExtras, Ended
    <3>4. CASE bootlinux_uimage_mem
      BY <3>4 DEF bootlinux_uimage_mem, Ended
    <3> QED
      BY <1>9, <3>1, <3>2, <3>3, <3>4
  <2>2. EntriesInv'
    BY <1>0, <2>1, EntriesStay DEF AfterScan
  <2>3. CountdownInv' /\ ChosenInv' /\ UnattendedOnce'
    BY <1>0, <2>1, OutsideMenu DEF BeforeScan, InMenuLoop, Ended
  <2> QED
    BY <2>2, <2>3 DEF UnattendedInv
<1>10. CASE UNCHANGED mobootVars
  <2>1. EntriesInv'
    BY <1>0, <1>10, EntriesStay DEF mobootVars
  <2>2. CountdownInv'
    BY <1>0, <1>10 DEF CountdownInv, mobootVars
  <2>3. ChosenInv' /\ UnattendedOnce'
    BY <1>10 DEF UnattendedInv, ChosenInv, UnattendedOnce, IsImage, IsNext, Entry, mobootVars
  <2> QED
    BY <2>1, <2>2, <2>3 DEF UnattendedInv
<1> QED
  BY <1>1, <1>2, <1>3, <1>4, <1>5, <1>6, <1>7, <1>8, <1>9, <1>10 DEF MobootNext

\* At power-on nothing has been scanned, tried or pressed.
LEMMA UnattendedStart ==
  ASSUME MobootInit
  PROVE  UnattendedInv
PROOF
<1>1. /\ pc = "start" /\ attempts = 0 /\ entries = <<>> /\ default_menu_entry = 0
      /\ next_menu_entry = 0 /\ use_next = FALSE /\ has_timeout = FALSE /\ late = FALSE /\ held = FALSE
  BY DEF MobootInit
<1>2. entries \in Seq({})
  BY <1>1
<1>3. EntriesInv
  BY <1>1, <1>2 DEF EntriesInv, BeforeScan, AfterScan, InMenuLoop
<1>4. CountdownInv /\ ChosenInv /\ UnattendedOnce
  BY <1>1 DEF CountdownInv, ChosenInv, UnattendedOnce
<1> QED
  BY <1>3, <1>4 DEF UnattendedInv

\* Whatever the device holds and whatever keys are pressed when: only the first
\* thing that moboot starts is started without SELECT, and not even that one if a key was
\* held at the start; it is the default or the image for the next boot, unless the poll
\* that does not end the countdown caught a key.
THEOREM UnattendedIsFirst == MobootSpec => []UnattendedOnce
PROOF
<1>1. MobootInit => UnattendedInv
  BY UnattendedStart
<1>2. UnattendedInv => UnattendedOnce
  BY DEF UnattendedInv
<1> QED
  BY <1>1, <1>2, UnattendedStep, PTL DEF MobootSpec

-----------------------------------------------------------------------------
(* The menu and the directories.  Place() counts the images up to an entry *)
(* of the directories; the scan has one menu entry for each.               *)

DirEntry == [image : BOOLEAN, dir : STRING, name : STRING]

\* Directory entries that the scan has dealt with.
Done == Len(Listing) - Len(scan)

ScanInv ==
  pc = "scan" =>
    /\ scan \in Seq(DirEntry) /\ Len(scan) <= Len(Listing)
    /\ \A k \in 1 .. Len(scan) : scan[k] = Listing[Done + k]
    /\ Len(entries) = Place(Done) /\ Scanned(Done)

DirInv ==
  /\ config \in Configs
  /\ ScanInv
  /\ pc \in AfterScan => MenuComplete
  /\ pc = "overrun" => Bootable + 3 > MaxEntries

\* The directories are lists of entries.
LEMMA ListingType ==
  ASSUME config \in Configs
  PROVE  Listing \in Seq(DirEntry) /\ Len(Listing) \in Nat
<1>1. config.boot \in Seq(DirEntry) /\ config.ramdisk \in Seq(DirEntry)
  BY MobootAssumption DEF DirEntries, DirEntry
<1> HIDE DEF DirEntry
<1>2. \A S : \A s, t \in Seq(S) : s \o t \in Seq(S) /\ Len(s \o t) \in Nat
  OBVIOUS
<1>3. config.boot \o config.ramdisk \in Seq(DirEntry) /\ Len(config.boot \o config.ramdisk) \in Nat
  BY <1>1, <1>2
<1> QED BY <1>3 DEF Listing

\* Images can be counted, and there are no more of them than entries.
LEMMA PlaceType ==
  ASSUME NEW i \in Nat
  PROVE  IsFiniteSet(ImagesTo(i)) /\ Place(i) \in Nat
<1>1. IsFiniteSet(1 .. i)
  BY FS_Interval
<1>2. ImagesTo(i) \subseteq 1 .. i
  BY DEF ImagesTo
<1>3. IsFiniteSet(ImagesTo(i))
  BY <1>1, <1>2, FS_Subset
<1> QED BY <1>3, FS_CardinalityType DEF Place

\* No images up to the start; one more, or not, with each entry.
LEMMA PlaceNext ==
  ASSUME NEW i \in Nat
  PROVE  /\ ImagesTo(0) = {} /\ Place(0) = 0
         /\ Listing[i + 1].image  => /\ ImagesTo(i + 1) = ImagesTo(i) \cup {i + 1}
                                     /\ Place(i + 1) = Place(i) + 1
         /\ ~Listing[i + 1].image => ImagesTo(i + 1) = ImagesTo(i) /\ Place(i + 1) = Place(i)
<1>1. ImagesTo(0) = {}
  BY DEF ImagesTo
<1>2. Place(0) = 0
  BY <1>1, FS_EmptySet DEF Place
<1>3. 1 .. i + 1 = (1 .. i) \cup {i + 1} /\ i + 1 \notin 1 .. i
  OBVIOUS
<1>4. ASSUME Listing[i + 1].image
      PROVE  ImagesTo(i + 1) = ImagesTo(i) \cup {i + 1} /\ Place(i + 1) = Place(i) + 1
  <2>1. ImagesTo(i + 1) = ImagesTo(i) \cup {i + 1}
    BY <1>3, <1>4 DEF ImagesTo
  <2>2. i + 1 \notin ImagesTo(i)
    BY <1>3 DEF ImagesTo
  <2>3. Cardinality(ImagesTo(i) \cup {i + 1}) = Cardinality(ImagesTo(i)) + 1
    BY <2>2, PlaceType, FS_AddElement
  <2> QED BY <2>1, <2>3 DEF Place
<1>5. ASSUME ~Listing[i + 1].image
      PROVE  ImagesTo(i + 1) = ImagesTo(i) /\ Place(i + 1) = Place(i)
  <2>1. ImagesTo(i + 1) = ImagesTo(i)
    BY <1>3, <1>5 DEF ImagesTo
  <2> QED BY <2>1 DEF Place
<1> QED BY <1>1, <1>2, <1>4, <1>5

\* An earlier image has a place among those of a longer list.
LEMMA PlaceInside ==
  ASSUME NEW i \in Nat, NEW j \in ImagesTo(i)
  PROVE  j \in 1 .. i /\ Place(j) \in 1 .. Place(i)
<1>1. j \in 1 .. i
  BY DEF ImagesTo
<1>2. j \in Nat /\ i \in Nat
  BY <1>1
<1>3. ImagesTo(j) \subseteq ImagesTo(i) /\ j \in ImagesTo(j)
  BY <1>1 DEF ImagesTo
<1>4. IsFiniteSet(ImagesTo(i)) /\ IsFiniteSet(ImagesTo(j)) /\ Place(i) \in Nat /\ Place(j) \in Nat
  BY <1>2, PlaceType
<1>5. Place(j) <= Place(i)
  BY <1>3, <1>4, FS_Subset DEF Place
<1>6. Place(j) # 0
  BY <1>3, <1>4, FS_EmptySet DEF Place
<1> QED BY <1>1, <1>4, <1>5, <1>6

\* Places never fall.
LEMMA PlaceGrows ==
  ASSUME NEW i \in Nat, NEW j \in Nat, i <= j
  PROVE  Place(i) <= Place(j)
<1>1. ImagesTo(i) \subseteq ImagesTo(j)
  BY DEF ImagesTo
<1> QED BY <1>1, PlaceType, FS_Subset DEF Place

\* The largest of some numbers.
LEMMA MaxIs ==
  ASSUME NEW S \in SUBSET Int, NEW m \in S, \A y \in S : m >= y
  PROVE  Max(S) = m
<1>1. \A x \in S : (\A y \in S : x >= y) => x = m
  OBVIOUS
<1>2. Max(S) \in S /\ \A y \in S : Max(S) >= y
  BY DEF Max
<1> QED BY <1>1, <1>2

\* The images of a name, and the place of the last one, with one entry more.
LEMMA NamedNext ==
  ASSUME NEW i \in Nat, NEW name
  PROVE  /\ Named(name, 0) = {}
         /\ Listing[i + 1].image /\ Listing[i + 1].name = name =>
              Named(name, i + 1) # {} /\ Max(Named(name, i + 1)) = i + 1
         /\ ~(Listing[i + 1].image /\ Listing[i + 1].name = name) =>
              Named(name, i + 1) = Named(name, i)
<1>1. Named(name, 0) = {}
  BY PlaceNext DEF Named
<1>2. ASSUME Listing[i + 1].image, Listing[i + 1].name = name
      PROVE  Named(name, i + 1) # {} /\ Max(Named(name, i + 1)) = i + 1
  <2>1. i + 1 \in Named(name, i + 1)
    BY <1>2, PlaceNext DEF Named
  <2>2. Named(name, i + 1) \in SUBSET Int /\ \A y \in Named(name, i + 1) : i + 1 >= y
    BY DEF Named, ImagesTo
  <2> QED BY <2>1, <2>2, MaxIs
<1>3. ASSUME ~(Listing[i + 1].image /\ Listing[i + 1].name = name)
      PROVE  Named(name, i + 1) = Named(name, i)
  BY <1>3, PlaceNext DEF Named
<1> QED BY <1>1, <1>2, <1>3

\* A new image goes to the next place.
LEMMA ScanImageDir ==
  ASSUME EntriesInv, DirInv, ScanImage
  PROVE  DirInv'
<1> DEFINE L == Len(Listing)
<1>a. PICK i : i = Done
  OBVIOUS
<1> DEFINE e == FS(Listing[i + 1].dir, Listing[i + 1].name)
<1>0. /\ pc = "scan" /\ scan # <<>> /\ Head(scan).image /\ scan' = Tail(scan) /\ config' = config
      /\ config \in Configs
      /\ pc' = IF Len(entries \o <<FS(Head(scan).dir, Head(scan).name)>>) > MaxEntries
                 THEN "overrun" ELSE "scan"
      /\ entries' = entries \o <<FS(Head(scan).dir, Head(scan).name)>>
      /\ default_menu_entry' = IF Head(scan).name = config.default THEN Len(entries)
                                                                   ELSE default_menu_entry
      /\ IF Head(scan).name = config.next
           THEN next_menu_entry' = Len(entries) /\ use_next' = TRUE
           ELSE UNCHANGED <<next_menu_entry, use_next>>
  BY DEF ScanImage, set_menu_entry, DirInv
<1>1. /\ scan \in Seq(DirEntry) /\ Len(scan) <= L /\ Len(entries) = Place(i) /\ Scanned(i)
      /\ \A k \in 1 .. Len(scan) : scan[k] = Listing[i + k]
  BY <1>a, <1>0 DEF DirInv, ScanInv
<1>2. L \in Nat /\ Listing' = Listing
  BY <1>0, ListingType DEF Listing
<1>3. /\ Head(scan) = Listing[i + 1] /\ i \in Nat /\ i + 1 <= L
      /\ Tail(scan) \in Seq(DirEntry) /\ Len(Tail(scan)) = Len(scan) - 1
      /\ \A k \in 1 .. Len(scan) - 1 : Tail(scan)[k] = scan[k + 1]
  BY <1>a, <1>0, <1>1, <1>2 DEF Done
<1>4. Done' = i + 1
  BY <1>a, <1>0, <1>1, <1>2, <1>3 DEF Done
<1>5. PICK S : entries \in Seq(S)
  BY DEF EntriesInv
<1>6. /\ Len(entries') = Len(entries) + 1 /\ Len(entries) \in Nat
      /\ \A k \in 1 .. Len(entries) : entries'[k] = entries[k]
      /\ entries'[Len(entries) + 1] = e
  BY <1>0, <1>3, <1>5, AppendOne
<1>7. \A name, k : ImagesTo(k)' = ImagesTo(k) /\ Place(k)' = Place(k)
                   /\ Named(name, k)' = Named(name, k)
  BY <1>2 DEF ImagesTo, Place, Named
<1>8. ImagesTo(i + 1) = ImagesTo(i) \cup {i + 1} /\ Place(i + 1) = Place(i) + 1 /\ Place(i) \in Nat
  BY <1>0, <1>3, PlaceNext, PlaceType
<1> HIDE DEF e, L
<1>9. \A j \in ImagesTo(i + 1) : entries'[Place(j)] = FS(Listing[j].dir, Listing[j].name)
  <2> SUFFICES ASSUME NEW j \in ImagesTo(i + 1)
               PROVE  entries'[Place(j)] = FS(Listing[j].dir, Listing[j].name)
    OBVIOUS
  <2>1. CASE j = i + 1
    BY <1>1, <1>6, <1>8, <2>1 DEF e
  <2>2. CASE j \in ImagesTo(i)
    <3>1. Place(j) \in 1 .. Place(i)
      BY <1>3, <2>2, PlaceInside
    <3> QED BY <1>1, <1>6, <2>2, <3>1 DEF Scanned
  <2> QED BY <1>8, <2>1, <2>2
<1>10. default_menu_entry' = IF Named(config.default, i + 1) = {} THEN 0
                             ELSE Place(Max(Named(config.default, i + 1))) - 1
  <2>1. CASE Listing[i + 1].name = config.default
    <3>1. Named(config.default, i + 1) # {} /\ Max(Named(config.default, i + 1)) = i + 1
      BY <1>0, <1>3, <2>1, NamedNext
    <3>2. default_menu_entry' = Place(i)
      BY <1>0, <1>1, <1>3, <2>1
    <3> QED BY <1>8, <3>1, <3>2
  <2>2. CASE Listing[i + 1].name # config.default
    <3>1. Named(config.default, i + 1) = Named(config.default, i)
      BY <1>3, <2>2, NamedNext
    <3>2. default_menu_entry' = default_menu_entry
      BY <1>0, <1>3, <2>2
    <3> QED BY <1>1, <3>1, <3>2 DEF Scanned
  <2> QED BY <2>1, <2>2
<1>11. use_next' => /\ Named(config.next, i + 1) # {}
                    /\ next_menu_entry' = Place(Max(Named(config.next, i + 1))) - 1
  <2>1. CASE Listing[i + 1].name = config.next
    <3>1. Named(config.next, i + 1) # {} /\ Max(Named(config.next, i + 1)) = i + 1
      BY <1>0, <1>3, <2>1, NamedNext
    <3>2. next_menu_entry' = Place(i)
      BY <1>0, <1>1, <1>3, <2>1
    <3> QED BY <1>8, <3>1, <3>2
  <2>2. CASE Listing[i + 1].name # config.next
    <3>1. Named(config.next, i + 1) = Named(config.next, i)
      BY <1>3, <2>2, NamedNext
    <3>2. next_menu_entry' = next_menu_entry /\ use_next' = use_next
      BY <1>0, <1>3, <2>2
    <3> QED BY <1>1, <3>1, <3>2 DEF Scanned
  <2> QED BY <2>1, <2>2
<1>12. Scanned(i + 1)'
  BY <1>0, <1>2, <1>7, <1>9, <1>10, <1>11 DEF Scanned
<1>13. ScanInv'
  <2>1. Len(scan') <= Len(Listing') /\ scan' \in Seq(DirEntry)
    BY <1>0, <1>1, <1>2, <1>3 DEF L
  <2>2. \A k \in 1 .. Len(scan') : scan'[k] = Listing'[Done' + k]
    <3> SUFFICES ASSUME NEW k \in 1 .. Len(scan') PROVE scan'[k] = Listing[i + 1 + k]
      BY <1>2, <1>4
    <3>1. k \in 1 .. Len(scan) - 1 /\ k + 1 \in 1 .. Len(scan)
      BY <1>0, <1>1, <1>3
    <3>2. scan'[k] = scan[k + 1] /\ scan[k + 1] = Listing[i + (k + 1)]
      BY <1>0, <1>1, <1>3, <3>1
    <3>3. i + (k + 1) = i + 1 + k
      BY <1>3, <3>1
    <3> QED BY <3>2, <3>3
  <2>3. Len(entries') = Place(i + 1)'
    BY <1>1, <1>6, <1>7, <1>8
  <2>4. Scanned(Done)' /\ Place(Done)' = Place(i + 1)'
    BY <1>4, <1>12 DEF Scanned, Place, ImagesTo, Named
  <2> QED BY <2>1, <2>2, <2>3, <2>4 DEF ScanInv
<1>14. pc' = "overrun" => (Bootable + 3 > MaxEntries)'
  <2> SUFFICES ASSUME pc' = "overrun" PROVE (Bootable + 3 > MaxEntries)'
    OBVIOUS
  <2>1. Place(i + 1) > MaxEntries
    BY <1>0, <1>1, <1>6, <1>8
  <2>2. Place(i + 1) <= Place(L) /\ Place(L) \in Nat /\ MaxEntries \in Nat
    <3>1. i + 1 \in Nat /\ L \in Nat /\ i + 1 <= L
      BY <1>2, <1>3 DEF L
    <3>2. Place(i + 1) <= Place(L)
      BY ONLY <3>1, PlaceGrows
    <3>3. Place(L) \in Nat
      BY ONLY <3>1, PlaceType
    <3> QED BY ONLY <3>2, <3>3, MobootAssumption
  <2>3. Bootable' >= Place(L)
    BY <1>2, <1>7, <2>2 DEF Bootable, L
  <2>4. Bootable' = IF Place(L) = 0 THEN 1 ELSE Place(L)
    BY <1>2, <1>7 DEF Bootable, L
  <2> QED BY <1>8, <2>1, <2>2, <2>4
<1>15. pc' \notin AfterScan
  BY <1>0 DEF AfterScan, InMenuLoop
<1> QED BY <1>0, <1>13, <1>14, <1>15 DEF DirInv

\* Another file has no place.
LEMMA ScanOtherDir ==
  ASSUME DirInv, ScanOther
  PROVE  DirInv'
<1> DEFINE L == Len(Listing)
<1>a. PICK i : i = Done
  OBVIOUS
<1>0. /\ pc = "scan" /\ pc' = "scan" /\ scan # <<>> /\ ~Head(scan).image /\ scan' = Tail(scan)
      /\ config \in Configs
      /\ UNCHANGED <<config, entries, default_menu_entry, next_menu_entry, use_next>>
  BY DEF ScanOther, DirInv
<1>1. /\ scan \in Seq(DirEntry) /\ Len(scan) <= L /\ Len(entries) = Place(i) /\ Scanned(i)
      /\ \A k \in 1 .. Len(scan) : scan[k] = Listing[i + k]
  BY <1>a, <1>0 DEF DirInv, ScanInv
<1>2. L \in Nat /\ Listing' = Listing
  BY <1>0, ListingType DEF Listing
<1>3. /\ Head(scan) = Listing[i + 1] /\ i \in Nat
      /\ Tail(scan) \in Seq(DirEntry) /\ Len(Tail(scan)) = Len(scan) - 1
      /\ \A k \in 1 .. Len(scan) - 1 : Tail(scan)[k] = scan[k + 1]
  BY <1>a, <1>0, <1>1, <1>2 DEF Done
<1>4. Done' = i + 1
  BY <1>a, <1>0, <1>1, <1>2, <1>3 DEF Done
<1>5. \A name, k : ImagesTo(k)' = ImagesTo(k) /\ Place(k)' = Place(k)
                   /\ Named(name, k)' = Named(name, k)
  BY <1>2 DEF ImagesTo, Place, Named
<1>6. /\ ImagesTo(i + 1) = ImagesTo(i) /\ Place(i + 1) = Place(i)
      /\ \A name : Named(name, i + 1) = Named(name, i)
  BY <1>0, <1>3, PlaceNext, NamedNext
<1> HIDE DEF L
<1>7. Scanned(i + 1)' /\ Len(entries') = Place(i + 1)'
  BY <1>0, <1>1, <1>2, <1>5, <1>6 DEF Scanned
<1>8. Len(scan') <= Len(Listing') /\ scan' \in Seq(DirEntry)
  BY <1>0, <1>1, <1>2, <1>3 DEF L
<1>9. \A k \in 1 .. Len(scan') : scan'[k] = Listing'[Done' + k]
  <2> SUFFICES ASSUME NEW k \in 1 .. Len(scan') PROVE scan'[k] = Listing[i + 1 + k]
    BY <1>2, <1>4
  <2>1. k \in 1 .. Len(scan) - 1 /\ k + 1 \in 1 .. Len(scan)
    BY <1>0, <1>1, <1>3
  <2>2. scan'[k] = scan[k + 1] /\ scan[k + 1] = Listing[i + (k + 1)]
    BY <1>0, <1>1, <1>3, <2>1
  <2>3. i + (k + 1) = i + 1 + k
    BY <1>3, <2>1
  <2> QED BY <2>2, <2>3
<1>10. Scanned(Done)' /\ Len(entries') = Place(Done)'
  BY <1>4, <1>7 DEF Scanned, Place, ImagesTo, Named
<1>11. ScanInv'
  BY <1>8, <1>9, <1>10 DEF ScanInv
<1>12. pc' \notin AfterScan
  BY <1>0 DEF AfterScan, InMenuLoop
<1> QED BY <1>0, <1>11, <1>12 DEF DirInv

\* Where the parts of a concatenation are.
LEMMA Concatenated ==
  ASSUME NEW S, NEW T, NEW s \in Seq(S), NEW t \in Seq(T)
  PROVE  /\ s \o t \in Seq(S \cup T) /\ Len(s \o t) = Len(s) + Len(t)
         /\ \A k \in 1 .. Len(s) : (s \o t)[k] = s[k]
         /\ \A k \in 1 .. Len(t) : (s \o t)[Len(s) + k] = t[k]
<1>1. s \in Seq(S \cup T) /\ t \in Seq(S \cup T)
  OBVIOUS
<1> QED BY <1>1

\* The three other entries follow the images, or the entry with the fixed path.
LEMMA ScanDoneDir ==
  ASSUME EntriesInv, DirInv, ScanDone
  PROVE  DirInv'
<1> DEFINE others == <<Other("recover"), Other("reboot"), Other("shutdown")>>
           fixed == FS("boot", "default")
           new == (IF entries = <<>> THEN <<fixed>> ELSE <<>>) \o others
           n == Place(Len(Listing))
<1>0. /\ pc = "scan" /\ scan = <<>> /\ config \in Configs
      /\ pc' = (IF Len(entries \o new) > MaxEntries THEN "overrun" ELSE "loop")
      /\ entries' = entries \o new
      /\ UNCHANGED <<config, default_menu_entry, next_menu_entry, use_next>>
  BY DEF ScanDone, set_menu_entry, DirInv
<1>1. Len(Listing) \in Nat /\ Listing' = Listing /\ n \in Nat
  BY <1>0, ListingType, PlaceType DEF Listing
<1>2. Done = Len(Listing)
  BY <1>0, <1>1 DEF Done
<1>3. Len(entries) = n /\ Scanned(Len(Listing))
  <2>1. Len(entries) = Place(Done) /\ Scanned(Done)
    BY <1>0 DEF DirInv, ScanInv
  <2> QED BY <1>2, <2>1
<1>4. PICK S : entries \in Seq(S)
  BY DEF EntriesInv
<1>5. /\ others \in Seq({Other("recover"), Other("reboot"), Other("shutdown")}) /\ Len(others) = 3
      /\ others[1] = Other("recover") /\ others[2] = Other("reboot")
      /\ others[3] = Other("shutdown")
  OBVIOUS
<1>6. PICK T : others \in Seq(T)
  BY <1>5
<1> HIDE DEF others, fixed
<1>7. /\ Bootable = (IF n = 0 THEN 1 ELSE n) /\ Bootable' = Bootable
      /\ \A name, k : ImagesTo(k)' = ImagesTo(k) /\ Place(k)' = Place(k)
                      /\ Named(name, k)' = Named(name, k)
      /\ n' = n
  BY <1>1 DEF Bootable, ImagesTo, Place, Named
<1>8. /\ Len(entries') = Bootable + 3
      /\ \A k \in 1 .. n : entries'[k] = entries[k]
      /\ n = 0 => entries'[1] = fixed
      /\ \A k \in 1 .. 3 : entries'[Bootable + k] = others[k]
  <2>1. CASE entries = <<>>
    <3>1. entries' = <<fixed>> \o others /\ n = 0
      BY <1>0, <1>3, <1>6, <2>1
    <3>2. <<fixed>> \in Seq({fixed}) /\ Len(<<fixed>>) = 1 /\ <<fixed>>[1] = fixed
      OBVIOUS
    <3>3. /\ Len(entries') = 1 + Len(others)
          /\ \A k \in 1 .. 1 : entries'[k] = <<fixed>>[k]
          /\ \A k \in 1 .. Len(others) : entries'[1 + k] = others[k]
      BY <1>6, <3>1, <3>2, Concatenated
    <3> QED BY <1>5, <1>7, <3>1, <3>2, <3>3
  <2>2. CASE entries # <<>>
    <3>1. entries' = entries \o others
      BY <1>0, <1>6, <2>2
    <3>2. /\ Len(entries') = Len(entries) + Len(others)
          /\ \A k \in 1 .. Len(entries) : entries'[k] = entries[k]
          /\ \A k \in 1 .. Len(others) : entries'[Len(entries) + k] = others[k]
      BY <1>4, <1>6, <3>1, Concatenated
    <3>3. n # 0
      BY <1>3, <1>4, <2>2
    <3> QED BY <1>3, <1>5, <1>7, <3>2, <3>3
  <2> QED BY <2>1, <2>2
<1>9. Scanned(Len(Listing))'
  <2>1. \A j \in ImagesTo(Len(Listing)) : entries'[Place(j)] = entries[Place(j)]
    BY <1>1, <1>8, PlaceInside
  <2>2. PICK l : l = Len(Listing)
    OBVIOUS
  <2>3. Scanned(l) /\ \A j \in ImagesTo(l) : entries'[Place(j)] = entries[Place(j)]
    BY <1>3, <2>1, <2>2
  <2>4. Scanned(l)'
    BY <1>0, <1>1, <1>7, <2>3 DEF Scanned
  <2>5. l = Len(Listing')
    BY <1>1, <2>2
  <2> QED BY <2>4, <2>5 DEF Scanned, Place, ImagesTo, Named
<1>10. MenuComplete'
  <2>1. /\ Len(entries') = Bootable' + 3 /\ (n' = 0 => entries'[1] = fixed)
        /\ entries'[Bootable' + 1] = others[1] /\ entries'[Bootable' + 2] = others[2]
        /\ entries'[Bootable' + 3] = others[3]
    BY <1>7, <1>8
  <2> QED BY <1>5, <1>9, <2>1 DEF MenuComplete, fixed
<1>11. pc' = "overrun" => (Bootable + 3 > MaxEntries)'
  BY <1>0, <1>7, <1>8
<1>12. ScanInv'
  BY <1>0 DEF ScanInv
<1> QED BY <1>0, <1>10, <1>11, <1>12 DEF DirInv

\* A step after the scan leaves the menu alone.
LEMMA DirStays ==
  ASSUME DirInv, UNCHANGED <<entries, default_menu_entry, next_menu_entry, config>>,
         use_next' => use_next,
         \/ pc' = pc /\ scan' = scan
         \/ pc \in AfterScan /\ pc' \in AfterScan
         \/ pc' \in BeforeScan \cup Ended
  PROVE  DirInv'
<1>1. Listing' = Listing /\ (Len(Listing))' = Len(Listing)
  BY DEF Listing
<1>2. /\ \A name, k : ImagesTo(k)' = ImagesTo(k) /\ Place(k)' = Place(k)
                      /\ Named(name, k)' = Named(name, k)
      /\ Bootable' = Bootable
  BY <1>1 DEF ImagesTo, Place, Named, Bootable
<1>3. \A k : Scanned(k) => Scanned(k)'
  BY <1>1, <1>2 DEF Scanned
<1>4. MenuComplete => MenuComplete'
  <2> SUFFICES ASSUME MenuComplete PROVE MenuComplete'
    OBVIOUS
  <2>1. PICK l : l = Len(Listing)
    OBVIOUS
  <2>2. Scanned(l)' /\ l = Len(Listing')
    BY <1>1, <1>3, <2>1 DEF MenuComplete
  <2>3. Scanned(Len(Listing))'
    BY <2>2 DEF Scanned, Place, ImagesTo, Named
  <2>4. Place(Len(Listing))' = Place(Len(Listing))
    BY <1>1 DEF Place, ImagesTo
  <2> QED BY <1>2, <2>3, <2>4 DEF MenuComplete
<1>5. /\ pc' \in AfterScan => pc' # "scan" /\ pc' # "overrun" /\ pc' \notin BeforeScan \cup Ended
      /\ pc' \in BeforeScan \cup Ended => pc' # "scan" /\ pc' # "overrun"
  BY DEF AfterScan, InMenuLoop, BeforeScan, Ended
<1>6. ScanInv'
  <2> SUFFICES ASSUME pc' = "scan" PROVE ScanInv'
    BY DEF ScanInv
  <2>1. pc = "scan" /\ scan' = scan
    BY <1>5
  <2>2. PICK d : d = Done
    OBVIOUS
  <2>3. d = Done'
    BY <1>1, <2>1, <2>2 DEF Done
  <2>4. Scanned(d) /\ Len(entries) = Place(d)
    BY <2>1, <2>2 DEF DirInv, ScanInv
  <2>5. Scanned(d)' /\ Len(entries') = Place(d)'
    BY <1>2, <1>3, <2>4
  <2>6. Scanned(Done)' /\ Len(entries') = Place(Done)'
    BY <2>3, <2>5 DEF Scanned, Place, ImagesTo, Named
  <2> QED BY <1>1, <2>1, <2>2, <2>3, <2>6 DEF DirInv, ScanInv
<1>7. pc' \in AfterScan => MenuComplete'
  BY <1>4, <1>5 DEF DirInv
<1>8. pc' = "overrun" => (Bootable + 3 > MaxEntries)'
  BY <1>2, <1>5 DEF DirInv
<1> QED BY <1>6, <1>7, <1>8 DEF DirInv

\* Mounting /boot, before which nothing has been scanned.
LEMMA MountDir ==
  ASSUME EntriesInv, DirInv, MountBoot
  PROVE  DirInv'
<1>0. /\ pc = "mount" /\ pc' \in {"scan"} \cup Ended /\ scan' = Listing /\ config \in Configs
      /\ UNCHANGED <<config, entries, default_menu_entry, next_menu_entry, use_next>>
  BY DEF MountBoot, DirInv, Listing, Ended
<1>1. entries = <<>> /\ default_menu_entry = 0 /\ ~use_next
  BY <1>0 DEF EntriesInv, BeforeScan
<1>2. Listing' = Listing /\ Listing \in Seq(DirEntry) /\ Len(Listing) \in Nat
  BY <1>0, ListingType DEF Listing
<1>3. Done' = 0
  BY <1>0, <1>2 DEF Done
<1>4. Place(0) = 0 /\ ImagesTo(0) = {} /\ \A name : Named(name, 0) = {}
  BY PlaceNext, NamedNext
<1>5. Place(0)' = 0 /\ ImagesTo(0)' = {} /\ \A name : Named(name, 0)' = {}
  BY <1>2, <1>4 DEF Place, ImagesTo, Named
<1>6. Scanned(0)' /\ Len(entries') = Place(0)'
  BY <1>0, <1>1, <1>5 DEF Scanned
<1>7. Scanned(Done)' /\ Len(entries') = Place(Done)'
  BY <1>3, <1>6 DEF Scanned, Place, ImagesTo, Named
<1>8. \A k \in 1 .. Len(scan') : scan'[k] = Listing'[Done' + k]
  BY <1>0, <1>2, <1>3
<1>9. ScanInv'
  BY <1>0, <1>2, <1>7, <1>8 DEF ScanInv
<1>10. pc' \notin AfterScan /\ pc' # "overrun"
  BY <1>0 DEF AfterScan, InMenuLoop, Ended
<1> QED BY <1>0, <1>9, <1>10 DEF DirInv

\* Every step keeps the menu and the directories in agreement.
LEMMA DirStep ==
  ASSUME EntriesInv, DirInv, [MobootNext]_mobootVars
  PROVE  DirInv'
<1> USE DEF scanVars, bootVars, menuVars
<1>1. CASE MountRamdisk \/ NoRamdisk
  <2>1. /\ pc' \in BeforeScan
        /\ UNCHANGED <<entries, default_menu_entry, next_menu_entry, config, use_next>>
    BY <1>1 DEF MountRamdisk, NoRamdisk, gpiokeys_wait_select, BeforeScan
  <2> QED BY <2>1, DirStays
<1>2. CASE MountBoot
  BY <1>2, MountDir
<1>3. CASE ScanImage
  BY <1>3, ScanImageDir
<1>4. CASE ScanOther
  BY <1>4, ScanOtherDir
<1>5. CASE ScanDone
  BY <1>5, ScanDoneDir
<1>6. CASE Loop \/ InMenu(MenuStep) \/ Chosen
  <2>1. /\ pc \in AfterScan /\ pc' \in AfterScan /\ (use_next' => use_next)
        /\ UNCHANGED <<entries, default_menu_entry, next_menu_entry, config>>
    <3>1. CASE Loop
      BY <3>1 DEF Loop, moboot_menu, AfterScan, InMenuLoop
    <3>2. CASE InMenu(MenuStep)
      BY <3>2 DEF InMenu, MenuStep, Draw, Turn, Poll, Released, AfterScan, InMenuLoop
    <3>3. CASE Chosen
      BY <3>3 DEF Chosen, AfterScan
    <3> QED BY <1>6, <3>1, <3>2, <3>3
  <2> QED BY <2>1, DirStays
<1>7. CASE InMenu(Clock)
  BY <1>7, DirStays DEF InMenu, Clock
<1>8. CASE reboot_device \/ fs_load_file \/ LoadExtras \/ bootlinux_uimage_mem \/ BootFailed
  <2>1. /\ pc \in {"reboot", "load", "extras", "check", "failed", "failed_select"}
        /\ pc' \in {"off", "loop", "extras", "check", "double_free", "linux", "failed",
                    "failed_select"} \cup Ended
        /\ UNCHANGED <<entries, default_menu_entry, next_menu_entry, config, use_next>>
    <3>1. CASE reboot_device \/ BootFailed
      BY <3>1 DEF reboot_device, BootFailed, gpiokeys_wait_select
    <3>2. CASE fs_load_file
      BY <3>2 DEF fs_load_file
    <3>3. CASE LoadExtras
      BY <3>3 DEF LoadExtras, Ended
    <3>4. CASE bootlinux_uimage_mem
      BY <3>4 DEF bootlinux_uimage_mem, Ended
    <3> QED BY <1>8, <3>1, <3>2, <3>3, <3>4
  <2>2. pc \in AfterScan /\ pc' \in AfterScan \cup Ended
    BY <2>1 DEF AfterScan
  <2> QED BY <2>1, <2>2, DirStays
<1>9. CASE UNCHANGED mobootVars
  BY <1>9, DirStays DEF mobootVars
<1> QED
  BY <1>1, <1>2, <1>3, <1>4, <1>5, <1>6, <1>7, <1>8, <1>9 DEF MobootNext

\* For any directories the menu shows each image of both once and in their order, the
\* cursor starts at the last image of the configured name, and the array overruns
\* only if the images and the three other entries are more than it has room for.
THEOREM MenuShowsDirectories == MobootSpec => []MenuIsDirectory
<1>1. MobootInit => UnattendedInv /\ DirInv
  <2> SUFFICES ASSUME MobootInit PROVE UnattendedInv /\ DirInv
    OBVIOUS
  <2>1. pc = "start" /\ config \in Configs
    BY DEF MobootInit
  <2>2. DirInv
    BY <2>1 DEF DirInv, ScanInv, AfterScan, InMenuLoop
  <2> QED BY <2>2, UnattendedStart
<1>2. UnattendedInv /\ DirInv /\ [MobootNext]_mobootVars => (UnattendedInv /\ DirInv)'
  BY UnattendedStep, DirStep DEF UnattendedInv
<1>3. UnattendedInv /\ DirInv => MenuIsDirectory
  BY DEF DirInv, MenuIsDirectory, AfterScan, InMenuLoop
<1> QED BY <1>1, <1>2, <1>3, PTL DEF MobootSpec

-----------------------------------------------------------------------------
(* Loading, checking and moving an image.                                  *)

\* What is known of the constants.
LEMMA Sizes ==
  /\ Word \in Nat \ {0} /\ BlockWords \in Nat \ {0} /\ SCRATCH_SIZE \in Nat
  /\ Memory \subseteq 0 .. Word - 1 /\ IsFiniteSet(Memory)
  /\ SCRATCH_ADDR \in Nat /\ RAMDISK_ADDR \in Nat /\ TAGS_ADDR \in Nat
  /\ \A k \in 1 .. SCRATCH_SIZE : SCRATCH_ADDR + k - 1 \in Memory
  /\ SCRATCH_SIZE <= Word
<1>1. /\ Word \in Nat \ {0} /\ BlockWords \in Nat \ {0} /\ SCRATCH_SIZE \in Nat
      /\ Memory \subseteq 0 .. Word - 1 /\ IsFiniteSet(Memory)
      /\ {SCRATCH_ADDR, RAMDISK_ADDR, TAGS_ADDR} \subseteq Memory
      /\ SCRATCH_ADDR .. SCRATCH_ADDR + SCRATCH_SIZE - 1 \subseteq Memory
  <2>1. Word \in Nat \ {0}
    BY UimageAssumption
  <2> QED BY <2>1, MobootAssumption
<1>2. SCRATCH_ADDR \in Nat /\ RAMDISK_ADDR \in Nat /\ TAGS_ADDR \in Nat
  <2>1. SCRATCH_ADDR \in Memory /\ RAMDISK_ADDR \in Memory /\ TAGS_ADDR \in Memory
    BY <1>1
  <2>2. \A x \in Memory : x \in Nat
    BY <1>1
  <2> QED BY <2>1, <2>2
<1>3. \A k \in 1 .. SCRATCH_SIZE : SCRATCH_ADDR + k - 1 \in Memory
  BY <1>1, <1>2
<1>4. SCRATCH_SIZE <= Word
  <2>1. CASE SCRATCH_SIZE = 0
    BY <1>1, <2>1
  <2>2. CASE SCRATCH_SIZE # 0
    <3>1. SCRATCH_ADDR + SCRATCH_SIZE - 1 \in Memory
      BY <1>1, <1>3, <2>2
    <3> QED BY <1>1, <1>2, <3>1
  <2> QED BY <2>1, <2>2
<1> QED BY <1>1, <1>2, <1>3, <1>4

\* No more is loaded than there is, or than fits.
LEMMA LoadableType ==
  ASSUME Entry.arg \in DOMAIN Files
  PROVE  /\ Files[Entry.arg] \in Seq(Range(Files[Entry.arg]))
         /\ Loadable \in 0 .. SCRATCH_SIZE /\ Loadable \in 0 .. Len(Files[Entry.arg])
<1>1. Files[Entry.arg] \in Seq(Range(Files[Entry.arg]))
  BY MobootAssumption
<1>2. Len(Files[Entry.arg]) \in Nat
  BY <1>1
<1>3. \A a, b \in Nat : Min({a, b}) \in 0 .. a /\ Min({a, b}) \in 0 .. b
  <2> SUFFICES ASSUME NEW a \in Nat, NEW b \in Nat
               PROVE  Min({a, b}) \in 0 .. a /\ Min({a, b}) \in 0 .. b
    OBVIOUS
  <2>1. \E x \in {a, b} : \A y \in {a, b} : x <= y
    OBVIOUS
  <2>2. Min({a, b}) \in {a, b} /\ \A y \in {a, b} : Min({a, b}) <= y
    BY <2>1 DEF Min
  <2> QED BY <2>2
<1> QED BY <1>1, <1>2, <1>3, Sizes DEF Loadable

\* Every word that could be read is the file's.
LEMMA ReadWords ==
  ASSUME NEW S, NEW f \in Seq(S), NEW n \in 0 .. Len(f), n <= SCRATCH_SIZE, NEW m, NEW bad
  PROVE  LET new == ReadInto(m, SCRATCH_ADDR, SubSeq(f, 1, n), bad)
         IN  /\ DOMAIN new = Memory
             /\ \A k \in 1 .. n : (k - 1) \div BlockWords \notin bad =>
                  new[SCRATCH_ADDR + k - 1] = f[k]
<1> DEFINE g == SubSeq(f, 1, n)
           whole == (Len(g) \div BlockWords) * BlockWords
           isBad(k) == (k - 1) \div BlockWords \in bad
           read == [k \in 1 .. Len(g) |-> IF k > whole /\ isBad(k) THEN Junk ELSE g[k]]
           skip == {k \in 1 .. whole : isBad(k)}
           new == ReadInto(m, SCRATCH_ADDR, g, bad)
<1>1. n \in Nat /\ Len(g) = n /\ \A k \in 1 .. n : g[k] = f[k]
  OBVIOUS
<1>2. new = [x \in Memory |-> IF x - SCRATCH_ADDR + 1 \in DOMAIN read \ skip
                                THEN read[x - SCRATCH_ADDR + 1] ELSE m[x]]
  BY DEF ReadInto, Store
<1> HIDE DEF g, new, whole
<1>3. ASSUME NEW k \in 1 .. n, (k - 1) \div BlockWords \notin bad
      PROVE  new[SCRATCH_ADDR + k - 1] = f[k]
  <2>0. k \in 1 .. SCRATCH_SIZE /\ SCRATCH_ADDR \in Nat
    BY <1>1, Sizes
  <2>a. (SCRATCH_ADDR + k - 1) - SCRATCH_ADDR + 1 = k
    BY <2>0
  <2>b. \A j \in 1 .. SCRATCH_SIZE : SCRATCH_ADDR + j - 1 \in Memory
    BY Sizes
  <2>1. SCRATCH_ADDR + k - 1 \in Memory /\ (SCRATCH_ADDR + k - 1) - SCRATCH_ADDR + 1 = k
    BY <2>0, <2>a, <2>b
  <2>2. k \in DOMAIN read /\ read[k] = g[k]
    BY <1>1, <1>3
  <2>3. k \notin skip /\ g[k] = f[k]
    BY <1>1, <1>3
  <2> HIDE DEF read, skip
  <2> QED BY <1>2, <2>1, <2>2, <2>3
<1>4. DOMAIN new = Memory
  BY <1>2
<1> QED BY <1>3, <1>4 DEF new, g

\* Storing words leaves the memory a memory, with those words in it and all others as they were.
LEMMA StoreDomain ==
  ASSUME NEW m, NEW a, NEW seq, NEW skip
  PROVE  DOMAIN Store(m, a, seq, skip) = Memory
BY DEF Store

LEMMA StoreNew ==
  ASSUME NEW m, NEW a \in Nat, NEW n \in Nat, NEW seq, DOMAIN seq = 1 .. n,
         NEW i \in 1 .. n, a + i - 1 \in Memory
  PROVE  Store(m, a, seq, {})[a + i - 1] = seq[i]
<1>1. (a + i - 1) - a + 1 = i
  OBVIOUS
<1> QED BY <1>1 DEF Store

LEMMA StoreOther ==
  ASSUME NEW m, NEW a \in Nat, NEW n \in Nat, NEW seq, DOMAIN seq = 1 .. n,
         NEW x \in Memory, x \notin Area(a, n)
  PROVE  Store(m, a, seq, {})[x] = m[x]
<1>1. x - a + 1 \notin 1 .. n
  BY Sizes DEF Area
<1> QED BY <1>1 DEF Store

\* Two memories with the same words in an area have the same blocks in it.
LEMMA SameBlock ==
  ASSUME NEW m1, NEW m2, NEW a \in Nat, NEW n \in Nat,
         \A x \in Area(a, n) : At(m1, x) = At(m2, x)
  PROVE  Block(m1, a, n) = Block(m2, a, n)
<1>1. \A k \in 1 .. n : a + k - 1 \in Area(a, n)
  BY DEF Area
<1> QED BY <1>1 DEF Block

\* The kernel, the RAM disk and the tags are put where they belong.
LEMMA Moves ==
  ASSUME NEW m, DOMAIN m = Memory, NEW k, NEW r,
         k.addr \in Nat, k.size \in Nat, k.load \in Nat, r.addr \in Nat, r.size \in Nat,
         Apart(k, r)
  PROVE  LET m1 == Store(m, k.load, Block(m, k.addr, k.size), {})
             m2 == Store(m1, RAMDISK_ADDR, Block(m1, r.addr, r.size), {})
             m3 == Store(m2, TAGS_ADDR, <<"tags">>, {})
         IN  /\ Block(m3, k.load, k.size) = Block(m, k.addr, k.size)
             /\ Block(m3, RAMDISK_ADDR, r.size) = Block(m, r.addr, r.size)
<1> DEFINE bk == Block(m, k.addr, k.size)
           m1 == Store(m, k.load, bk, {})
           br == Block(m1, r.addr, r.size)
           m2 == Store(m1, RAMDISK_ADDR, br, {})
           m3 == Store(m2, TAGS_ADDR, <<"tags">>, {})
           K == Area(k.load, k.size)
           R == Area(RAMDISK_ADDR, r.size)
<1>1. /\ K \subseteq Memory /\ R \subseteq Memory /\ K \cap R = {}
      /\ K \cap Area(r.addr, r.size) = {} /\ TAGS_ADDR \notin K \cup R
  BY DEF Apart, Disjoint
<1>2. DOMAIN bk = 1 .. k.size /\ DOMAIN br = 1 .. r.size /\ DOMAIN <<"tags">> = 1 .. 1
  BY DEF Block
<1>3. 1 \in Nat /\ Area(TAGS_ADDR, 1) = {TAGS_ADDR} /\ TAGS_ADDR \in Nat /\ RAMDISK_ADDR \in Nat
  BY Sizes DEF Area
<1> HIDE DEF bk, br
<1>4. /\ DOMAIN m1 = Memory
      /\ \A i \in 1 .. k.size : k.load + i - 1 \in Memory => m1[k.load + i - 1] = bk[i]
      /\ \A x \in Memory : x \notin K => m1[x] = m[x]
  BY <1>2, StoreDomain, StoreNew, StoreOther
<1>5. /\ DOMAIN m2 = Memory
      /\ \A i \in 1 .. r.size : RAMDISK_ADDR + i - 1 \in Memory => m2[RAMDISK_ADDR + i - 1] = br[i]
      /\ \A x \in Memory : x \notin R => m2[x] = m1[x]
  <2> HIDE DEF m1
  <2>1. DOMAIN m2 = Memory
    BY StoreDomain
  <2>2. ASSUME NEW i \in 1 .. r.size, RAMDISK_ADDR + i - 1 \in Memory
        PROVE  m2[RAMDISK_ADDR + i - 1] = br[i]
    <3>1. DOMAIN br = 1 .. r.size /\ r.size \in Nat /\ RAMDISK_ADDR \in Nat
      BY <1>2, <1>3
    <3>2. (RAMDISK_ADDR + i - 1) - RAMDISK_ADDR + 1 = i
      BY <1>3
    <3> QED BY ONLY <2>2, <3>1, <3>2 DEF Store
  <2>3. ASSUME NEW x \in Memory, x \notin R PROVE m2[x] = m1[x]
    BY <1>2, <1>3, <2>3, StoreOther
  <2> QED BY <2>1, <2>2, <2>3
<1>6. DOMAIN m3 = Memory /\ \A x \in Memory : x # TAGS_ADDR => m3[x] = m2[x]
  <2> DEFINE tags == <<"tags">>
  <2>1. DOMAIN tags = 1 .. 1
    BY <1>2
  <2> HIDE DEF m2, tags
  <2>2. ASSUME NEW x \in Memory, x # TAGS_ADDR PROVE Store(m2, TAGS_ADDR, tags, {})[x] = m2[x]
    <3>1. x - TAGS_ADDR + 1 \notin 1 .. 1
      BY <2>2, Sizes
    <3> QED BY ONLY <2>1, <2>2, <3>1 DEF Store
  <2> QED BY <2>2, StoreDomain DEF tags
<1> HIDE DEF m1, m2, m3
<1>7. br = Block(m, r.addr, r.size)
  <2>1. \A x \in Area(r.addr, r.size) : At(m1, x) = At(m, x)
    BY <1>1, <1>4 DEF At
  <2> QED BY <2>1, SameBlock DEF br
<1>8. Block(m3, k.load, k.size) = bk
  <2>1. \A i \in 1 .. k.size : k.load + i - 1 \in K
    BY DEF Area
  <2>2. \A i \in 1 .. k.size : At(m3, k.load + i - 1) = bk[i]
    BY <1>1, <1>4, <1>5, <1>6, <2>1 DEF At
  <2>3. Block(m3, k.load, k.size) = [i \in 1 .. k.size |-> bk[i]]
    BY <2>2 DEF Block
  <2>4. bk = [i \in 1 .. k.size |-> bk[i]]
    BY DEF bk, Block
  <2> QED BY <2>3, <2>4
<1>9. Block(m3, RAMDISK_ADDR, r.size) = br
  <2>1. \A i \in 1 .. r.size : RAMDISK_ADDR + i - 1 \in R
    BY <1>3 DEF Area
  <2>2. \A i \in 1 .. r.size : At(m3, RAMDISK_ADDR + i - 1) = br[i]
    BY <1>1, <1>5, <1>6, <2>1 DEF At
  <2>3. Block(m3, RAMDISK_ADDR, r.size) = [i \in 1 .. r.size |-> br[i]]
    BY <2>2 DEF Block
  <2>4. br = [i \in 1 .. r.size |-> br[i]]
    BY DEF br, Block
  <2> QED BY <2>3, <2>4
<1> QED BY <1>7, <1>8, <1>9 DEF m3, m2, m1, br, bk

\* Numbers in memory are 32 bits wide.
LEMMA NumberType ==
  ASSUME NEW w
  PROVE  ntohl(w) \in 0 .. Word - 1
BY UimageAssumption DEF ntohl

\* The sizes in headers are 32 bits wide.
LEMMA HeaderType ==
  ASSUME NEW w \in DOMAIN Header
  PROVE  Header[w].size \in Nat /\ Header[w].load \in Nat
BY UimageAssumption

\* The table ends at its first 0.
LEMMA FirstZero ==
  ASSUME NEW m, NEW hdr \in Nat, Cardinality(DOMAIN m) \in Nat,
         NEW c \in 0 .. Cardinality(DOMAIN m), ntohl(At(m, uimage_data(hdr) + c)) = 0,
         \A k \in 0 .. c - 1 : ntohl(At(m, uimage_data(hdr) + k)) # 0
  PROVE  uimage_multi_count(m, hdr) = c
<1> DEFINE z(k) == ntohl(At(m, uimage_data(hdr) + k)) = 0
           P(n) == z(n) /\ \A k \in 0 .. n - 1 : ~z(k)
           N == Cardinality(DOMAIN m)
           n == CHOOSE n \in 0 .. N : P(n)
<1>1. P(c) /\ c \in 0 .. N
  OBVIOUS
<1>2. uimage_multi_count(m, hdr) = n
  BY DEF uimage_multi_count
<1> HIDE DEF z
<1>3. P(n) /\ n \in 0 .. N
  <2> HIDE DEF P, N
  <2> QED BY <1>1
<1> HIDE DEF n
<1>4. ~(n < c) /\ ~(c < n)
  BY <1>1, <1>3
<1> QED BY <1>1, <1>2, <1>3, <1>4

\* Memories that agree on an area with a table and its 0 have the same table.
LEMMA SameTable ==
  ASSUME NEW m1, NEW m2, DOMAIN m1 = DOMAIN m2, NEW hdr \in Nat, NEW n \in Nat,
         \A x \in Area(hdr, n) : At(m1, x) = At(m2, x),
         Cardinality(DOMAIN m2) \in Nat, n <= Cardinality(DOMAIN m2),
         NEW c \in 0 .. n - 2, ntohl(At(m2, uimage_data(hdr) + c)) = 0,
         \A k \in 0 .. c - 1 : ntohl(At(m2, uimage_data(hdr) + k)) # 0
  PROVE  /\ uimage_multi_count(m1, hdr) = c /\ uimage_multi_count(m2, hdr) = c
         /\ \A i \in 1 .. c : /\ uimage_multi_size(m1, hdr, i) = uimage_multi_size(m2, hdr, i)
                              /\ uimage_multi_size(m2, hdr, i) \in 1 .. Word - 1
         /\ \A i : uimage_multi_image(m1, hdr, i) = uimage_multi_image(m2, hdr, i)
<1>1. \A k \in 0 .. c : uimage_data(hdr) + k \in Area(hdr, n)
  BY DEF uimage_data, Area
<1>2. \A k \in 0 .. c : At(m1, uimage_data(hdr) + k) = At(m2, uimage_data(hdr) + k)
  BY <1>1
<1>3. c \in 0 .. Cardinality(DOMAIN m2) /\ c \in 0 .. c /\ \A k \in 0 .. c - 1 : k \in 0 .. c
  OBVIOUS
<1>4. uimage_multi_count(m2, hdr) = c
  BY <1>3, FirstZero
<1>5. uimage_multi_count(m1, hdr) = c
  <2>1. ntohl(At(m1, uimage_data(hdr) + c)) = 0
    BY <1>2, <1>3
  <2>2. \A k \in 0 .. c - 1 : ntohl(At(m1, uimage_data(hdr) + k)) # 0
    BY <1>2, <1>3
  <2> QED BY <1>3, <2>1, <2>2, FirstZero
<1>6. ASSUME NEW i \in 1 .. c
      PROVE  /\ uimage_multi_size(m1, hdr, i) = uimage_multi_size(m2, hdr, i)
             /\ uimage_multi_size(m2, hdr, i) \in 1 .. Word - 1
  <2>1. /\ i - 1 \in 0 .. c - 1 /\ i - 1 \in 0 .. c
        /\ uimage_data(hdr) + (i - 1) = uimage_data(hdr) + i - 1
    BY DEF uimage_data
  <2>2. uimage_multi_size(m1, hdr, i) = ntohl(At(m1, uimage_data(hdr) + (i - 1)))
        /\ uimage_multi_size(m2, hdr, i) = ntohl(At(m2, uimage_data(hdr) + (i - 1)))
    BY <2>1 DEF uimage_multi_size
  <2>3. uimage_multi_size(m2, hdr, i) # 0
    BY <2>1, <2>2
  <2>4. uimage_multi_size(m2, hdr, i) \in 0 .. Word - 1 /\ Word \in Nat
    BY <2>2, NumberType, Sizes
  <2> QED BY <1>2, <2>1, <2>2, <2>3, <2>4
<1>7. ASSUME NEW i PROVE uimage_multi_image(m1, hdr, i) = uimage_multi_image(m2, hdr, i)
  <2>1. [j \in 1 .. c |-> uimage_multi_size(m1, hdr, j)]
          = [j \in 1 .. c |-> uimage_multi_size(m2, hdr, j)]
    BY <1>6
  <2> QED BY <1>4, <1>5, <2>1 DEF uimage_multi_image
<1> QED BY <1>4, <1>5, <1>6, <1>7

\* Memories that agree on an image agree that it is valid.
LEMMA SameValid ==
  ASSUME NEW m1, NEW m2, NEW a \in Nat, NEW len, At(m1, a) = At(m2, a),
         \A x \in Area(uimage_data(a), uimage_hdr(m1, a).size) : At(m1, x) = At(m2, x),
         uimage_valid(m1, a, len)
  PROVE  uimage_valid(m2, a, len)
<1>1. uimage_hdr(m1, a) = uimage_hdr(m2, a) /\ At(m2, a) \in DOMAIN Header
  BY DEF uimage_hdr, uimage_valid, uimage_valid_magic
<1>2. uimage_data(a) \in Nat /\ uimage_hdr(m1, a).size \in Nat
  BY <1>1, HeaderType DEF uimage_data, uimage_hdr
<1>3. Block(m1, uimage_data(a), uimage_hdr(m1, a).size)
        = Block(m2, uimage_data(a), uimage_hdr(m1, a).size)
  BY <1>2, SameBlock
<1> QED BY <1>1, <1>3 DEF uimage_valid, uimage_valid_magic, uimage_valid_size, uimage_valid_dcrc

\* Some natural numbers have a least one.
LEMMA LeastNat ==
  ASSUME NEW T, T \subseteq Nat, T # {}
  PROVE  \E x \in T : \A y \in T : x <= y
<1> DEFINE R == {p \in Nat \X Nat : p[1] < p[2]}
<1>1. IsWellFoundedOn(R, Nat)
  BY NatLessThanWellFounded DEF OpToRel
<1>2. PICK x \in T : \A y \in T : ~(<<y, x>> \in R)
  <2> HIDE DEF R
  <2> QED BY <1>1, WFMin
<1>3. ASSUME NEW y \in T PROVE x <= y
  <2>1. x \in Nat /\ y \in Nat
    OBVIOUS
  <2>2. <<y, x>> \in Nat \X Nat /\ <<y, x>>[1] = y /\ <<y, x>>[2] = x
    BY <2>1
  <2>3. ~(y < x)
    BY <1>2, <2>2
  <2> QED BY <2>1, <2>3
<1> QED BY <1>2, <1>3

\* Some numbers up to a bound have a largest.
LEMMA MaxInside ==
  ASSUME NEW n \in Nat, NEW S \in SUBSET (1 .. n), S # {}
  PROVE  Max(S) \in S
<1> DEFINE T == {k \in Nat : \E i \in S : k = n - i}
<1>0. \A i \in S : i \in Int /\ i <= n
  OBVIOUS
<1>a. \A i \in S : n - i \in T
  BY <1>0
<1>1. T \subseteq Nat /\ T # {}
  BY <1>a
<1>2. PICK t \in T : \A y \in T : t <= y
  BY <1>1, LeastNat
<1>3. PICK x \in S : t = n - x
  BY <1>2
<1>5. ASSUME NEW y \in S PROVE x >= y
  <2>1. n - x <= n - y
    BY <1>2, <1>3, <1>a
  <2> QED BY <1>0, <2>1
<1> QED BY <1>5 DEF Max

\* Two memories have the same data behind a header.
SameData(m1, m2, hdr) ==
  \A x \in Area(uimage_data(hdr), uimage_hdr(m2, hdr).size) : At(m1, x) = At(m2, x)

\* Memories that agree on an area, and one of which has in it an image that is accepted, with
\* the images in that inside it: they have the same images.
LEMMA SameImages ==
  ASSUME NEW m1, NEW m2, DOMAIN m1 = DOMAIN m2, NEW hdr \in Nat, NEW n \in Nat \ {0},
         \A x \in Area(hdr, n) : At(m1, x) = At(m2, x), n <= Word,
         Cardinality(DOMAIN m2) \in Nat, n <= Cardinality(DOMAIN m2),
         uimage_check(m1, hdr, n), ImagesInside(m2, hdr, n)
  PROVE  /\ uimage_count(m1, hdr) = uimage_count(m2, hdr)
         /\ uimage_check(m2, hdr, n)
         /\ \A i \in 1 .. uimage_count(m2, hdr) :
              LET sub == uimage_image(m2, hdr, i)
              IN  /\ uimage_image(m1, hdr, i) = sub /\ sub \in Nat
                  /\ At(m1, sub) = At(m2, sub) /\ At(m2, sub) \in DOMAIN Header
                  /\ SameData(m1, m2, sub)
<1>1. hdr \in Area(hdr, n) /\ At(m1, hdr) = At(m2, hdr) /\ uimage_valid(m1, hdr, n)
      /\ Word \in Nat \ {0}
  BY Sizes DEF Area, uimage_check
<1>2. /\ uimage_hdr(m1, hdr) = uimage_hdr(m2, hdr) /\ At(m2, hdr) \in DOMAIN Header
      /\ IsMulti(m1, hdr) = IsMulti(m2, hdr)
  BY <1>1 DEF uimage_hdr, uimage_valid, uimage_valid_magic, IsMulti
<1>3. uimage_hdr(m1, hdr).size = n - 1
  <2>1. uimage_hdr(m1, hdr).size = (n - 1) % Word
    BY <1>1 DEF uimage_valid, uimage_valid_size
  <2>2. n - 1 \in 0 .. Word - 1
    BY <1>1
  <2> QED BY <1>1, <2>1, <2>2
<1>4. \A x \in Area(uimage_data(hdr), n - 1) : At(m1, x) = At(m2, x)
  BY DEF Area, uimage_data
<1>5. uimage_valid(m2, hdr, n)
  BY <1>1, <1>3, <1>4, SameValid
<1>6. CASE ~IsMulti(m2, hdr)
  <2>1. uimage_count(m1, hdr) = 1 /\ uimage_count(m2, hdr) = 1
        /\ \A i : uimage_image(m1, hdr, i) = hdr /\ uimage_image(m2, hdr, i) = hdr
    BY <1>2, <1>6 DEF uimage_count, uimage_image
  <2>2. uimage_check(m2, hdr, n)
    BY <1>5, <1>6 DEF uimage_check
  <2> QED BY <1>1, <1>2, <1>3, <1>4, <2>1, <2>2 DEF SameData
<1>7. CASE IsMulti(m2, hdr)
  <2>1. PICK c \in 0 .. n - 2 :
          /\ ntohl(At(m2, uimage_data(hdr) + c)) = 0
          /\ \A k \in 0 .. c - 1 : ntohl(At(m2, uimage_data(hdr) + k)) # 0
    BY <1>7 DEF ImagesInside
  <2>2. /\ uimage_multi_count(m1, hdr) = c /\ uimage_multi_count(m2, hdr) = c
        /\ \A i \in 1 .. c : /\ uimage_multi_size(m1, hdr, i) = uimage_multi_size(m2, hdr, i)
                             /\ uimage_multi_size(m2, hdr, i) \in 1 .. Word - 1
        /\ \A i : uimage_multi_image(m1, hdr, i) = uimage_multi_image(m2, hdr, i)
    BY <2>1, SameTable
  <2>3. uimage_count(m1, hdr) = c /\ uimage_count(m2, hdr) = c
        /\ \A i : /\ uimage_image(m1, hdr, i) = uimage_multi_image(m2, hdr, i)
                  /\ uimage_image(m2, hdr, i) = uimage_multi_image(m2, hdr, i)
    BY <1>2, <1>7, <2>2 DEF uimage_count, uimage_image
  <2>4. ASSUME NEW i \in 1 .. c
        PROVE  LET sub == uimage_multi_image(m2, hdr, i)
               IN  /\ sub \in Nat /\ At(m1, sub) = At(m2, sub) /\ At(m2, sub) \in DOMAIN Header
                   /\ SameData(m1, m2, sub)
                   /\ uimage_valid(m2, sub, uimage_multi_size(m2, hdr, i)) /\ ~IsMulti(m2, sub)
    <3> DEFINE sub == uimage_multi_image(m2, hdr, i)
               size == uimage_multi_size(m2, hdr, i)
    <3>1. sub \in Area(hdr, n) /\ sub + size - 1 \in Area(hdr, n)
      BY <1>7, <2>2 DEF ImagesInside
    <3>2. size \in 1 .. Word - 1
      BY <2>2
    <3>3. uimage_valid(m1, sub, size) /\ ~IsMulti(m1, sub)
      BY <1>2, <1>7, <2>2 DEF uimage_check
    <3> HIDE DEF sub, size
    <3>4. sub \in Nat /\ At(m1, sub) = At(m2, sub) /\ sub + size - 1 \in Nat
      BY <3>1 DEF Area
    <3>5. uimage_hdr(m1, sub) = uimage_hdr(m2, sub) /\ At(m2, sub) \in DOMAIN Header
      BY <3>3, <3>4 DEF uimage_hdr, uimage_valid, uimage_valid_magic
    <3>6. uimage_hdr(m1, sub).size = size - 1
      <4>1. uimage_hdr(m1, sub).size = (size - 1) % Word
        BY <3>3 DEF uimage_valid, uimage_valid_size
      <4>2. size - 1 \in 0 .. Word - 1
        BY <1>1, <3>2
      <4> QED BY <1>1, <4>1, <4>2
    <3>7. Area(uimage_data(sub), size - 1) \subseteq Area(hdr, n)
      BY <1>1, <3>1, <3>2, <3>4 DEF Area, uimage_data
    <3>8. \A x \in Area(uimage_data(sub), uimage_hdr(m1, sub).size) : At(m1, x) = At(m2, x)
      BY <3>6, <3>7
    <3>9. uimage_valid(m2, sub, size)
      BY <3>3, <3>4, <3>8, SameValid
    <3>10. ~IsMulti(m2, sub)
      BY <3>3, <3>5 DEF IsMulti
    <3> QED BY <3>4, <3>5, <3>8, <3>9, <3>10 DEF sub, size, SameData
  <2>5. uimage_check(m2, hdr, n)
    BY <1>5, <2>2, <2>4 DEF uimage_check
  <2> QED BY <2>3, <2>4, <2>5
<1> QED BY <1>6, <1>7

\* The parts that uimage_parse() finds are then the same.
LEMMA SamePart ==
  ASSUME NEW m1, NEW m2, NEW hdr, NEW count \in Nat, NEW type,
         uimage_count(m1, hdr) = count, uimage_count(m2, hdr) = count,
         \A i \in 1 .. count :
           LET sub == uimage_image(m2, hdr, i)
           IN  /\ uimage_image(m1, hdr, i) = sub /\ sub \in Nat
               /\ At(m1, sub) = At(m2, sub) /\ At(m2, sub) \in DOMAIN Header
               /\ SameData(m1, m2, sub)
  PROVE  LET p == Part(m2, hdr, type)
         IN  /\ Part(m1, hdr, type) = p /\ p.addr \in Nat /\ p.size \in Nat /\ p.load \in Nat
             /\ \A x \in Area(p.addr, p.size) : At(m1, x) = At(m2, x)
<1> DEFINE at(m) == {i \in 1 .. count : uimage_hdr(m, uimage_image(m, hdr, i)).type = type}
           sub(m) == uimage_image(m, hdr, Max(at(m)))
           part(m) == [addr |-> uimage_data(sub(m)), size |-> uimage_hdr(m, sub(m)).size,
                       load |-> uimage_hdr(m, sub(m)).load, ep |-> uimage_hdr(m, sub(m)).ep]
           none == [addr |-> 0, size |-> 0, load |-> 0, ep |-> 0]
<1>1. /\ Part(m1, hdr, type) = IF at(m1) = {} THEN none ELSE part(m1)
      /\ Part(m2, hdr, type) = IF at(m2) = {} THEN none ELSE part(m2)
  BY DEF Part
<1>2. \A i \in 1 .. count :
        uimage_hdr(m1, uimage_image(m1, hdr, i)) = uimage_hdr(m2, uimage_image(m2, hdr, i))
  BY DEF uimage_hdr
<1>3. at(m1) = at(m2)
  BY <1>2
<1>4. CASE at(m2) = {}
  <2>1. Part(m1, hdr, type) = none /\ Part(m2, hdr, type) = none
    BY <1>1, <1>3, <1>4
  <2>2. Area(0, 0) = {}
    BY DEF Area
  <2> QED BY <2>1, <2>2
<1>5. CASE at(m2) # {}
  <2>1. PICK j : j = Max(at(m2))
    OBVIOUS
  <2>2. j \in 1 .. count
    <3>1. Max(at(m2)) \in at(m2)
      BY <1>5, MaxInside
    <3> HIDE DEF at
    <3> QED BY <2>1, <3>1 DEF at
  <2>3. PICK s : s = uimage_image(m2, hdr, j)
    OBVIOUS
  <2>4. sub(m1) = s /\ sub(m2) = s
    BY <1>3, <2>1, <2>2, <2>3
  <2>5. /\ s \in Nat /\ At(m1, s) = At(m2, s) /\ At(m2, s) \in DOMAIN Header
        /\ \A x \in Area(uimage_data(s), uimage_hdr(m2, s).size) : At(m1, x) = At(m2, x)
    BY <2>2, <2>3 DEF SameData
  <2> DEFINE p == [addr |-> uimage_data(s), size |-> uimage_hdr(m2, s).size,
                  load |-> uimage_hdr(m2, s).load, ep |-> uimage_hdr(m2, s).ep]
  <2>6. uimage_hdr(m1, s) = uimage_hdr(m2, s)
    BY <2>5 DEF uimage_hdr
  <2>7. part(m1) = p /\ part(m2) = p
    BY <2>4, <2>6
  <2>8. Part(m1, hdr, type) = p /\ Part(m2, hdr, type) = p
    BY <1>1, <1>3, <1>5, <2>7
  <2>9. p.addr \in Nat /\ p.size \in Nat /\ p.load \in Nat
    BY <2>5, HeaderType DEF uimage_data, uimage_hdr
  <2>10. \A x \in Area(p.addr, p.size) : At(m1, x) = At(m2, x)
    BY <2>5
  <2> HIDE DEF p
  <2> QED BY <2>8, <2>9, <2>10
<1> QED BY <1>4, <1>5

-----------------------------------------------------------------------------
(* The loaded file, and the image that runs.                               *)

Flags == {f \in {"verbose", "sercon"} : Extra[f] = "yes"}

\* The words that have been read are in the scratch memory until the kernel is moved.
LinuxInv ==
  /\ DOMAIN mem = Memory
  /\ pc \in {"extras", "check"} =>
       /\ Entry.arg \in DOMAIN Files /\ rv = Loadable
       /\ \A k \in WordsRead : mem[SCRATCH_ADDR + k - 1] = Files[Entry.arg][k]
  /\ pc = "check" => boot_flags = Flags
  /\ LinuxGetsFile

\* The scratch memory is a part of the memory.
LEMMA ScratchFits ==
  ASSUME NEW n \in 0 .. SCRATCH_SIZE
  PROVE  Cardinality(Memory) \in Nat /\ n <= Cardinality(Memory)
<1>1. Cardinality(Memory) \in Nat
  BY Sizes, FS_CardinalityType
<1>2. SCRATCH_ADDR .. SCRATCH_ADDR + SCRATCH_SIZE - 1 \in SUBSET Memory /\ IsFiniteSet(Memory)
  BY MobootAssumption
<1>3. Cardinality(SCRATCH_ADDR .. SCRATCH_ADDR + SCRATCH_SIZE - 1) <= Cardinality(Memory)
  BY <1>2, FS_Subset
<1>4. SCRATCH_ADDR \in Int /\ SCRATCH_ADDR + SCRATCH_SIZE - 1 \in Int /\ SCRATCH_SIZE \in Nat
  BY Sizes
<1>5. Cardinality(SCRATCH_ADDR .. SCRATCH_ADDR + SCRATCH_SIZE - 1) =
        IF SCRATCH_ADDR > SCRATCH_ADDR + SCRATCH_SIZE - 1 THEN 0
        ELSE SCRATCH_ADDR + SCRATCH_SIZE - 1 - SCRATCH_ADDR + 1
  BY <1>4, FS_Interval
<1> QED BY <1>1, <1>3, <1>4, <1>5

\* An accepted image whose header is w is what w vouches for.
LEMMA AcceptedIsVouched ==
  ASSUME NEW m, DOMAIN m = Memory, NEW n \in 1 .. SCRATCH_SIZE, NEW w, At(m, SCRATCH_ADDR) = w,
         uimage_check(m, SCRATCH_ADDR, n)
  PROVE  /\ w \in DOMAIN Header /\ Header[w].size = n - 1
         /\ \A k \in 1 .. n : Vouched(w)[k] = m[SCRATCH_ADDR + k - 1]
         /\ DOMAIN Only(w) = Memory
         /\ \A x \in Area(SCRATCH_ADDR, n) : At(m, x) = At(Only(w), x)
<1> DEFINE a == SCRATCH_ADDR
<1>1. a \in Nat /\ SCRATCH_SIZE <= Word /\ Word \in Nat \ {0} /\ SCRATCH_SIZE \in Nat
      /\ \A k \in 1 .. SCRATCH_SIZE : a + k - 1 \in Memory
  BY Sizes
<1>2. w \in DOMAIN Header /\ Header[w].size = (n - 1) % Word
      /\ Block(m, a + 1, Header[w].size) = Header[w].dcrc
  BY DEF uimage_check, uimage_valid, uimage_valid_magic, uimage_valid_size, uimage_valid_dcrc,
         uimage_hdr, uimage_data
<1>3. n - 1 \in 0 .. Word - 1
  BY <1>1
<1>4. Header[w].size = n - 1
  BY <1>1, <1>2, <1>3
<1> HIDE DEF a
<1>5. ASSUME NEW k \in 1 .. n PROVE a + k - 1 \in Memory /\ Vouched(w)[k] = m[a + k - 1]
  <2>1. a + k - 1 \in Memory
    BY <1>1
  <2>2. Vouched(w)[k] = IF k = 1 THEN w ELSE Header[w].dcrc[k - 1]
    BY <1>4 DEF Vouched
  <2>3. CASE k = 1
    <3>1. a + 1 - 1 = a
      BY <1>1
    <3> QED BY <2>1, <2>2, <2>3, <3>1 DEF At, a
  <2>4. CASE k # 1
    <3>1. k - 1 \in 1 .. n - 1 /\ (a + 1) + (k - 1) - 1 = a + k - 1
      BY <1>1, <2>4
    <3>2. Header[w].dcrc = [j \in 1 .. n - 1 |-> At(m, (a + 1) + j - 1)]
      BY <1>2, <1>4 DEF Block
    <3>3. Header[w].dcrc[k - 1] = At(m, a + k - 1)
      BY <3>1, <3>2
    <3> QED BY <2>1, <2>2, <2>4, <3>3 DEF At
  <2> QED BY <2>1, <2>3, <2>4
<1>6. DOMAIN Only(w) = Memory
  BY StoreDomain DEF Only
<1>7. ASSUME NEW x \in Area(a, n) PROVE At(m, x) = At(Only(w), x)
  <2>1. x - a + 1 \in 1 .. n /\ a + (x - a + 1) - 1 = x /\ x \in Int
    BY <1>1 DEF Area
  <2>2. x \in Memory /\ Vouched(w)[x - a + 1] = m[x]
    BY <1>5, <2>1
  <2>3. DOMAIN Vouched(w) = 1 .. n
    BY <1>4 DEF Vouched
  <2>4. Only(w)[x] = Vouched(w)[x - a + 1]
    BY <2>1, <2>2, <2>3 DEF Only, Store, a
  <2> QED BY <1>6, <2>2, <2>4 DEF At
<1> QED BY <1>2, <1>4, <1>5, <1>6, <1>7 DEF a

\* An image that is accepted, parsed and moved runs: it does not matter what else is in memory.
LEMMA ImageRuns ==
  ASSUME NEW m, DOMAIN m = Memory, NEW n \in 1 .. SCRATCH_SIZE, NEW o, DOMAIN o = Memory,
         \A x \in Area(SCRATCH_ADDR, n) : At(m, x) = At(o, x),
         uimage_check(m, SCRATCH_ADDR, n), ImagesInside(o, SCRATCH_ADDR, n),
         uimage_parse(m, SCRATCH_ADDR).ok, uimage_parse(m, SCRATCH_ADDR).kernel.size # 0,
         LET k == uimage_parse(m, SCRATCH_ADDR).kernel
             r == uimage_parse(m, SCRATCH_ADDR).ramdisk
             m1 == Store(m, k.load, Block(m, k.addr, k.size), {})
             m2 == Store(m1, RAMDISK_ADDR, Block(m1, r.addr, r.size), {})
         IN  mem' = Store(m2, TAGS_ADDR, <<"tags">>, {}) /\ kernel_ep' = k.ep
  PROVE  Runs(o, n)'
<1> DEFINE a == SCRATCH_ADDR
           k == Part(m, a, "kernel")
           r == Part(m, a, "ramdisk")
           m1 == Store(m, k.load, Block(m, k.addr, k.size), {})
           m2 == Store(m1, RAMDISK_ADDR, Block(m1, r.addr, r.size), {})
           m3 == Store(m2, TAGS_ADDR, <<"tags">>, {})
<1>1. a \in Nat /\ n \in Nat \ {0} /\ n <= Word /\ n \in 0 .. SCRATCH_SIZE
  BY Sizes
<1>2. Cardinality(DOMAIN o) \in Nat /\ n <= Cardinality(DOMAIN o) /\ DOMAIN m = DOMAIN o
  BY <1>1, ScratchFits
<1>3. /\ uimage_count(m, a) = uimage_count(o, a) /\ uimage_check(o, a, n)
      /\ \A i \in 1 .. uimage_count(o, a) :
           LET sub == uimage_image(o, a, i)
           IN  /\ uimage_image(m, a, i) = sub /\ sub \in Nat
               /\ At(m, sub) = At(o, sub) /\ At(o, sub) \in DOMAIN Header
               /\ SameData(m, o, sub)
  BY <1>1, <1>2, SameImages
<1>4. uimage_count(o, a) \in Nat
  <2>1. CASE ~IsMulti(o, a)
    BY <2>1 DEF uimage_count
  <2>2. CASE IsMulti(o, a)
    <3>1. PICK c \in 0 .. n - 2 :
            /\ ntohl(At(o, uimage_data(a) + c)) = 0
            /\ \A j \in 0 .. c - 1 : ntohl(At(o, uimage_data(a) + j)) # 0
      BY <2>2 DEF ImagesInside
    <3>2. c \in 0 .. Cardinality(DOMAIN o) /\ c \in Nat
      BY <1>1, <1>2
    <3>3. uimage_multi_count(o, a) = c
      BY <1>1, <1>2, <3>1, <3>2, FirstZero
    <3> QED BY <2>2, <3>2, <3>3 DEF uimage_count
  <2> QED BY <2>1, <2>2
<1>5. \A type : LET p == Part(o, a, type)
                IN  /\ Part(m, a, type) = p /\ p.addr \in Nat /\ p.size \in Nat /\ p.load \in Nat
                    /\ \A x \in Area(p.addr, p.size) : At(m, x) = At(o, x)
  <2> HIDE DEF a
  <2> QED BY <1>3, <1>4, SamePart
<1>6. uimage_parse(o, a) = uimage_parse(m, a)
  <2>1. Supported(m, a) = Supported(o, a)
    BY <1>3 DEF Supported, uimage_hdr
  <2>2. Part(m, a, "kernel") = Part(o, a, "kernel") /\ Part(m, a, "ramdisk") = Part(o, a, "ramdisk")
    BY <1>5
  <2> QED BY <2>1, <2>2 DEF uimage_parse
<1>7. uimage_parse(m, a).kernel = k /\ uimage_parse(m, a).ramdisk = r
  BY DEF uimage_parse
<1>8. mem' = m3 /\ kernel_ep' = k.ep
  BY <1>7
<1>9. /\ k.addr \in Nat /\ k.size \in Nat /\ k.load \in Nat /\ r.addr \in Nat /\ r.size \in Nat
      /\ \A x \in Area(k.addr, k.size) : At(m, x) = At(o, x)
      /\ \A x \in Area(r.addr, r.size) : At(m, x) = At(o, x)
  BY <1>5
<1> HIDE DEF k, r
<1>10. Block(m, k.addr, k.size) = Block(o, k.addr, k.size)
       /\ Block(m, r.addr, r.size) = Block(o, r.addr, r.size)
  BY <1>9, SameBlock
<1>11. Apart(k, r) => /\ Block(m3, k.load, k.size) = Block(m, k.addr, k.size)
                      /\ Block(m3, RAMDISK_ADDR, r.size) = Block(m, r.addr, r.size)
  BY <1>9, Moves
<1> HIDE DEF m3
<1>12. Apart(k, r) => /\ Block(mem', k.load, k.size) = Block(o, k.addr, k.size)
                      /\ Block(mem', RAMDISK_ADDR, r.size) = Block(o, r.addr, r.size)
  BY <1>8, <1>10, <1>11
<1>13. uimage_parse(o, a).kernel = k /\ uimage_parse(o, a).ramdisk = r
       /\ uimage_parse(o, a).ok /\ k.size # 0
  BY <1>6, <1>7
<1>14. uimage_check(o, a, n)
  BY <1>3
<1> QED BY <1>8, <1>12, <1>13, <1>14 DEF Runs

\* bootlinux_uimage_mem() enters the kernel only with what LinuxGetsFile says.
LEMMA BootGetsFile ==
  ASSUME LinuxInv, bootlinux_uimage_mem, pc' = "linux"
  PROVE  LinuxGetsFile'
<1> DEFINE f == Files[Entry.arg]
           w == f[1]
           n == Loadable
           k == uimage_parse(mem, SCRATCH_ADDR).kernel
           r == uimage_parse(mem, SCRATCH_ADDR).ramdisk
           m1 == Store(mem, k.load, Block(mem, k.addr, k.size), {})
           m2 == Store(m1, RAMDISK_ADDR, Block(m1, r.addr, r.size), {})
<1>1. /\ pc = "check" /\ uimage_check(mem, SCRATCH_ADDR, rv)
      /\ uimage_parse(mem, SCRATCH_ADDR).ok /\ k.size # 0
      /\ mem' = Store(m2, TAGS_ADDR, <<"tags">>, {}) /\ kernel_ep' = k.ep
  BY DEF bootlinux_uimage_mem
<1>2. /\ Entry' = Entry /\ Extra' = Extra /\ Loadable' = Loadable /\ WordsRead' = WordsRead
      /\ boot_flags' = boot_flags
  BY DEF bootlinux_uimage_mem, scanVars, Entry, Extra, Loadable, WordsRead
<1>3. /\ Entry.arg \in DOMAIN Files /\ rv = n /\ boot_flags = Flags /\ DOMAIN mem = Memory
      /\ \A i \in WordsRead : mem[SCRATCH_ADDR + i - 1] = f[i]
  BY <1>1 DEF LinuxInv
<1>4. n \in 0 .. SCRATCH_SIZE /\ SCRATCH_SIZE \in Nat /\ SCRATCH_ADDR \in Nat /\ Word \in Nat \ {0}
  BY <1>3, LoadableType, Sizes
<1>5. n = 0 => \E h \in DOMAIN Header : Header[h].size = Word - 1
  <2> SUFFICES ASSUME n = 0 PROVE \E h \in DOMAIN Header : Header[h].size = Word - 1
    OBVIOUS
  <2>1. /\ At(mem, SCRATCH_ADDR) \in DOMAIN Header
        /\ Header[At(mem, SCRATCH_ADDR)].size = (0 - 1) % Word
    BY <1>1, <1>3 DEF uimage_check, uimage_valid, uimage_valid_magic, uimage_valid_size, uimage_hdr
  <2>2. (0 - 1) % Word = Word - 1
    BY <1>4
  <2> QED BY <2>1, <2>2
<1>6. ASSUME 1 \in WordsRead
      PROVE  /\ w \in DOMAIN Header /\ Header[w].size = n - 1
             /\ \A i \in WordsRead : f[i] = Vouched(w)[i]
             /\ ImagesInside(Only(w), SCRATCH_ADDR, n) => Runs(Only(w), n)'
  <2>1. n \in 1 .. SCRATCH_SIZE /\ \A i \in WordsRead : i \in 1 .. n
    BY <1>4, <1>6 DEF WordsRead
  <2>2. At(mem, SCRATCH_ADDR) = w
    <3>1. SCRATCH_ADDR + 1 - 1 = SCRATCH_ADDR
      BY <1>4
    <3>2. mem[SCRATCH_ADDR] = w
      BY <1>3, <1>6, <3>1
    <3>3. SCRATCH_ADDR \in Memory
      BY MobootAssumption
    <3> QED BY <1>3, <3>2, <3>3 DEF At
  <2>3. uimage_check(mem, SCRATCH_ADDR, n)
    BY <1>1, <1>3
  <2> HIDE DEF n, w
  <2>4. /\ w \in DOMAIN Header /\ Header[w].size = n - 1
        /\ \A i \in 1 .. n : Vouched(w)[i] = mem[SCRATCH_ADDR + i - 1]
        /\ DOMAIN Only(w) = Memory
        /\ \A x \in Area(SCRATCH_ADDR, n) : At(mem, x) = At(Only(w), x)
    BY <1>3, <2>1, <2>2, <2>3, AcceptedIsVouched
  <2>5. \A i \in WordsRead : f[i] = Vouched(w)[i]
    BY <1>3, <2>1, <2>4
  <2>6. ASSUME ImagesInside(Only(w), SCRATCH_ADDR, n) PROVE Runs(Only(w), n)'
    <3>1. PICK o, j : o = Only(w) /\ j = n
      OBVIOUS
    <3>2. Runs(o, j)'
      BY <1>1, <1>3, <2>1, <2>3, <2>4, <2>6, <3>1, ImageRuns
    <3>3. Only(w)' = Only(w) /\ n' = n
      BY <1>2 DEF Only, Vouched, Store, w, n
    <3> QED BY <3>1, <3>2, <3>3 DEF Runs
  <2> QED BY <2>4, <2>5, <2>6
<1>7. /\ ImagesInside(Only(w), SCRATCH_ADDR, n)' = ImagesInside(Only(w), SCRATCH_ADDR, n)
      /\ w' = w /\ f' = f /\ n' = n /\ Only(w)' = Only(w) /\ \A i : (Vouched(w)[i])' = Vouched(w)[i]
  <2>1. w' = w /\ f' = f /\ n' = n
    BY <1>2
  <2> HIDE DEF w, f, n
  <2>2. Only(w)' = Only(w) /\ \A i : (Vouched(w)[i])' = Vouched(w)[i]
    BY <2>1 DEF Only, Vouched, Store
  <2>3. PICK o, j : o = Only(w) /\ j = n
    OBVIOUS
  <2>4. ImagesInside(o, SCRATCH_ADDR, j)' = ImagesInside(o, SCRATCH_ADDR, j)
    BY DEF ImagesInside, IsMulti, uimage_hdr, uimage_multi_count, uimage_multi_image,
           uimage_multi_size, At, ntohl, uimage_data, Area
  <2> QED BY <2>1, <2>2, <2>3, <2>4
<1> QED BY <1>1, <1>2, <1>3, <1>5, <1>6, <1>7 DEF LinuxGetsFile, Flags

\* Steps that leave the file and the memory alone, or get away from them.
LEMMA LinuxStays ==
  ASSUME LinuxInv, mem' = mem,
         \/ UNCHANGED <<pc, entries, act, rv, unread, boot_flags, kernel_ep>>
         \/ pc' \notin {"extras", "check", "linux"}
  PROVE  LinuxInv'
<1>1. DOMAIN mem' = Memory
  BY DEF LinuxInv
<1>2. CASE pc' \notin {"extras", "check", "linux"}
  BY <1>1, <1>2 DEF LinuxInv, LinuxGetsFile
<1>3. CASE UNCHANGED <<pc, entries, act, rv, unread, boot_flags, kernel_ep>>
  <2>1. Entry' = Entry /\ Extra' = Extra /\ Loadable' = Loadable /\ WordsRead' = WordsRead
        /\ Flags' = Flags
    BY <1>3 DEF Entry, Extra, Loadable, WordsRead, Flags
  <2>2. LinuxGetsFile'
    <3> SUFFICES ASSUME pc' = "linux" PROVE LinuxGetsFile'
      BY DEF LinuxGetsFile
    <3>1. LinuxGetsFile /\ pc = "linux"
      BY <1>3 DEF LinuxInv
    <3>2. \A o, j : Runs(o, j)' = Runs(o, j)
      BY <1>3 DEF Runs
    <3>3. \A o, j : Runs(o, j) => Runs(o, j)'
      BY <3>2
    <3> QED BY <1>3, <2>1, <3>1, <3>3 DEF LinuxGetsFile
  <2> QED BY <1>1, <1>3, <2>1, <2>2 DEF LinuxInv
<1> QED BY <1>2, <1>3

\* fs_load_file() puts the words that it can read into the scratch memory.
LEMMA LoadKeeps ==
  ASSUME LinuxInv, fs_load_file
  PROVE  LinuxInv'
<1>1. CASE Entry.arg \notin DOMAIN Files
  <2>1. mem' = mem /\ pc' = "failed"
    BY <1>1 DEF fs_load_file
  <2> QED BY <2>1, LinuxStays
<1>2. CASE Entry.arg \in DOMAIN Files
  <2> DEFINE f == Files[Entry.arg]
             n == Loadable
  <2>1. PICK bad :
          /\ mem' = ReadInto(mem, SCRATCH_ADDR, SubSeq(f, 1, n), bad)
          /\ unread' = bad /\ rv' = n /\ pc' = "extras"
    BY <1>2 DEF fs_load_file
  <2>2. Entry' = Entry /\ n' = n
    BY DEF fs_load_file, scanVars, Entry, Loadable
  <2>3. f \in Seq(Range(f)) /\ n \in 0 .. Len(f) /\ n <= SCRATCH_SIZE
    BY <1>2, LoadableType, Sizes
  <2>4. WordsRead' = {i \in 1 .. n : (i - 1) \div BlockWords \notin bad}
    BY <2>1, <2>2 DEF WordsRead
  <2> HIDE DEF f, n
  <2>5. /\ DOMAIN mem' = Memory
        /\ \A i \in 1 .. n : (i - 1) \div BlockWords \notin bad => mem'[SCRATCH_ADDR + i - 1] = f[i]
    BY <2>1, <2>3, ReadWords
  <2>6. \A i \in WordsRead' : mem'[SCRATCH_ADDR + i - 1] = f[i]
    BY <2>4, <2>5
  <2>7. f' = f /\ Loadable' = n
    BY <2>2 DEF f, n
  <2> QED BY <1>2, <2>1, <2>2, <2>5, <2>6, <2>7 DEF LinuxInv, LinuxGetsFile, f
<1> QED BY <1>1, <1>2

\* Loading the other files sets the flags.
LEMMA ExtrasKeep ==
  ASSUME LinuxInv, LoadExtras
  PROVE  LinuxInv'
<1>1. /\ pc = "extras" /\ pc' \in {"check", "double_free", "stray"} /\ boot_flags' = Flags
      /\ UNCHANGED <<mem, rv, entries, act, unread>>
  BY DEF LoadExtras, scanVars, Flags
<1>2. Entry' = Entry /\ Loadable' = Loadable /\ WordsRead' = WordsRead /\ Flags' = Flags
  BY <1>1 DEF Entry, Extra, Loadable, WordsRead, Flags
<1> QED BY <1>1, <1>2 DEF LinuxInv, LinuxGetsFile

\* Every step keeps what is known of the loaded file.
LEMMA LinuxStep ==
  ASSUME LinuxInv, [MobootNext]_mobootVars
  PROVE  LinuxInv'
<1> USE DEF scanVars, bootVars, menuVars
<1>1. CASE MountRamdisk \/ NoRamdisk \/ MountBoot
  BY <1>1, LinuxStays DEF MountRamdisk, NoRamdisk, MountBoot, gpiokeys_wait_select
<1>2. CASE ScanImage \/ ScanOther \/ ScanDone
  BY <1>2, LinuxStays DEF ScanImage, ScanOther, ScanDone, set_menu_entry
<1>3. CASE Loop \/ Chosen
  BY <1>3, LinuxStays DEF Loop, moboot_menu, Chosen
<1>4. CASE InMenu(MenuStep)
  BY <1>4, LinuxStays DEF InMenu, MenuStep, Draw, Turn, Poll, Released
<1>5. CASE InMenu(Clock)
  BY <1>5, LinuxStays DEF InMenu, Clock
<1>6. CASE reboot_device \/ BootFailed
  BY <1>6, LinuxStays DEF reboot_device, BootFailed, gpiokeys_wait_select
<1>7. CASE fs_load_file
  BY <1>7, LoadKeeps
<1>8. CASE LoadExtras
  BY <1>8, ExtrasKeep
<1>9. CASE bootlinux_uimage_mem
  <2>1. CASE pc' = "linux"
    <3>1. LinuxGetsFile'
      BY <1>9, <2>1, BootGetsFile
    <3>2. DOMAIN mem' = Memory
      BY <1>9, <2>1, StoreDomain DEF bootlinux_uimage_mem
    <3> QED BY <2>1, <3>1, <3>2 DEF LinuxInv
  <2>2. CASE pc' # "linux"
    <3>1. pc' \in {"failed", "fault"} /\ DOMAIN mem' = Memory
      BY <1>9, <2>2, StoreDomain DEF bootlinux_uimage_mem, LinuxInv
    <3> QED BY <3>1 DEF LinuxInv, LinuxGetsFile
  <2> QED BY <2>1, <2>2
<1>10. CASE UNCHANGED mobootVars
  BY <1>10, LinuxStays DEF mobootVars
<1> QED
  BY <1>1, <1>2, <1>3, <1>4, <1>5, <1>6, <1>7, <1>8, <1>9, <1>10 DEF MobootNext

\* For any files, headers and memory: when the kernel is entered, what runs is what the
\* header of the chosen file vouches for, whatever an earlier image has left in memory and
\* whichever blocks could not be read, if the header could and the image's parts are inside it.
THEOREM LinuxIsChosenFile == MobootSpec => []LinuxGetsFile
<1>1. MobootInit => LinuxInv
  BY StoreDomain DEF MobootInit, LinuxInv, LinuxGetsFile
<1>2. LinuxInv /\ [MobootNext]_mobootVars => LinuxInv'
  BY LinuxStep
<1>3. LinuxInv => LinuxGetsFile
  BY DEF LinuxInv
<1> QED BY <1>1, <1>2, <1>3, PTL DEF MobootSpec
=============================================================================
