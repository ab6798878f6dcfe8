------------------------------ MODULE MCMoboot ------------------------------
(* Moboot with a few images: a kernel alone (A), kernel and RAM disk (B), a  *)
(* kernel that would be moved over the RAM disk's source (C), A with a word  *)
(* too many, an empty file, an unsupported one, one that does not fit, one   *)
(* that does not fit and whose header has the size of what does, B with a    *)
(* wrong word, one whose only image ends behind it, and one that is not      *)
(* there.                                                                    *)
EXTENDS Moboot, TLC

\* A kernel is entered one word behind its load address.
Hdr(size, dcrc, type, supported, load) ==
  [hcrc |-> TRUE, size |-> size, dcrc |-> dcrc, type |-> type, supported |-> supported,
   load |-> load, ep |-> load + 1]

\* Memory: 0 tags, 1 and 2 kernel, 3 RAM disk, 4 to 11 scratch.
MCHeader ==
  "hA" :> Hdr(2, <<"a1", "a2">>, "kernel", TRUE, 1)
  @@ "hB" :> Hdr(7, <<"2", "2", "0", "hk", "k1", "hr", "r1">>, "multi", TRUE, 0)
  @@ "hC" :> Hdr(7, <<"2", "2", "0", "hl", "k1", "hr", "r1">>, "multi", TRUE, 0)
  @@ "hU" :> Hdr(2, <<"a1", "a2">>, "kernel", FALSE, 1)
  @@ "hH" :> Hdr(8, <<"a1", "a2", "a1", "a2", "a1", "a2", "a1", "a2">>, "kernel", TRUE, 1)
  @@ "hS" :> Hdr(7, <<"a1", "a2", "a1", "a2", "a1", "a2", "a1">>, "kernel", TRUE, 1)
  @@ "hT" :> Hdr(3, <<"2", "0", "hk">>, "multi", TRUE, 0)
  @@ "hk" :> Hdr(1, <<"k1">>, "kernel", TRUE, 1)
  @@ "hl" :> Hdr(1, <<"k1">>, "kernel", TRUE, 11)
  @@ "hr" :> Hdr(1, <<"r1">>, "ramdisk", TRUE, 0)

MCNumber == "2" :> 2 @@ "0" :> 0 @@ "none" :> 0

MCFiles ==
  <<"boot", "A">> :> <<"hA", "a1", "a2">>
  @@ <<"boot", "B">> :> <<"hB", "2", "2", "0", "hk", "k1", "hr", "r1">>
  @@ <<"ramdisk", "B">> :> <<"hC", "2", "2", "0", "hl", "k1", "hr", "r1">>
  @@ <<"boot", "long">> :> <<"hA", "a1", "a2", "a2">>
  @@ <<"boot", "huge">> :> <<"hH", "a1", "a2", "a1", "a2", "a1", "a2", "a1", "a2">>
  @@ <<"boot", "top">> :> <<"hS", "a1", "a2", "a1", "a2", "a1", "a2", "a1", "a2">>
  @@ <<"boot", "wrong">> :> <<"hB", "2", "2", "0", "hk", "k2", "hr", "r1">>
  @@ <<"boot", "cut">> :> <<"hT", "2", "0", "hk">>
  @@ <<"boot", "empty">> :> <<>>
  @@ <<"boot", "U">> :> <<"hU", "a1", "a2">>

Extra3(v, s, p) == [verbose |-> v, sercon |-> s, splash |-> p]
MCExtras ==
  "A" :> Extra3("yes", "no", "absent")
  @@ "B" :> Extra3("absent", "absent", "yes")
  @@ "long" :> Extra3("absent", "empty", "absent")
  @@ "empty" :> Extra3("absent", "absent", "absent")
  @@ "U" :> Extra3("absent", "yes", "absent")
  @@ "huge" :> Extra3("absent", "absent", "absent")
  @@ "top" :> Extra3("yes", "yes", "yes")
  @@ "wrong" :> Extra3("absent", "absent", "yes")
  @@ "cut" :> Extra3("absent", "absent", "absent")
  @@ "default" :> Extra3("absent", "absent", "absent")

Img(dir, names) == [k \in 1 .. Len(names) |-> [image |-> TRUE, dir |-> dir, name |-> names[k]]]
NotImg == <<[image |-> FALSE, dir |-> "boot", name |-> "moboot"]>>
\* On most devices the settings are short and there is no background.
Conf(boot, ramdisk, default, next, timeout, stale) ==
  [boot |-> boot, ramdisk |-> ramdisk, default |-> default, next |-> next,
   timeout |-> timeout, stale |-> stale, long |-> FALSE, background |-> FALSE, nduid |-> TRUE]

MCConfigs ==
  {Conf(Img("boot", <<"A">>) \o NotImg \o Img("boot", <<"B">>), Img("ramdisk", <<"B">>),
        "B", "", 2, <<>>),
   [Conf(Img("boot", <<"long", "empty", "huge">>), <<>>, "empty", "none", 0,
         MCFiles[<<"boot", "A">>]) EXCEPT !.long = TRUE],
   [Conf(Img("boot", <<"U", "empty", "A">>), <<>>, "A", "U", 2, <<>>) EXCEPT !.background = TRUE],
   Conf(Img("boot", <<"A", "B", "long">>), Img("ramdisk", <<"B">>), "", "", 2, <<>>),
   [Conf(Img("boot", <<"wrong", "top", "empty">>), <<>>, "", "", 0, MCFiles[<<"boot", "B">>])
      EXCEPT !.nduid = FALSE],
   Conf(Img("boot", <<"cut">>), <<>>, "cut", "", 0, <<"k1", "k1", "k1", "k1", "k1">>),
   Conf(NotImg, <<>>, "A", "A", 1, MCFiles[<<"boot", "B">>])}

MCKeySets == {{}, {"up"}, {"down"}, {"select"}, {"up", "down"}}
=============================================================================
