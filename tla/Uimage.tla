------------------------------- MODULE Uimage -------------------------------
(***************************************************************************)
(* Checking and parsing a uImage in memory: src/lib/uimage/uimage.c.  A    *)
(* memory m is a function from addresses to words.  A header is one word,  *)
(* and so is an entry of the table of sizes of a multi-file image.  A      *)
(* checksum is the data it is computed from.                               *)
(***************************************************************************)
EXTENDS Integers, Sequences, FiniteSetsExt

CONSTANTS
  Header,    \* header word -> [hcrc, size, dcrc, type, supported, load, ep]
  Number,    \* word -> its value, for the words that tables of sizes are made of
  Word,      \* 2^32
  Beyond     \* the word that is read where there is no memory

ASSUME UimageAssumption ==
  /\ Word \in Nat \ {0} /\ Beyond \notin DOMAIN Header
  /\ \A w \in DOMAIN Header : Header[w].size \in 0 .. Word - 1 /\ Header[w].load \in 0 .. Word - 1
  /\ \A w \in DOMAIN Number : Number[w] \in 0 .. Word - 1
  /\ Beyond \in DOMAIN Number /\ Number[Beyond] = 0

At(m, a) == IF a \in DOMAIN m THEN m[a] ELSE Beyond
Block(m, a, n) == [k \in 1 .. n |-> At(m, a + k - 1)]

\* The words of headers and data are no sizes: as numbers they are large.  A table that
\* has no 0 ends where the memory does.
ntohl(w) == IF w \in DOMAIN Number THEN Number[w] ELSE Word - 1

uimage_data(hdr) == hdr + 1

uimage_valid_magic(m, hdr) == At(m, hdr) \in DOMAIN Header
uimage_hdr(m, hdr) == Header[At(m, hdr)]

\* As below, but the length may be larger: what lies behind the image is ignored.
uimage_valid_size_Faulty(m, hdr, len) == uimage_hdr(m, hdr).size >= len - 1

\* len is unsigned: for one that is less than a header, len - 1 wraps around.
uimage_valid_size(m, hdr, len) == uimage_hdr(m, hdr).size = (len - 1) % Word

uimage_valid_dcrc(m, hdr) ==
  Block(m, uimage_data(hdr), uimage_hdr(m, hdr).size) = uimage_hdr(m, hdr).dcrc

\* uimage_invalid(), negated.
uimage_valid(m, hdr, len) ==
  /\ uimage_valid_magic(m, hdr)
  /\ uimage_hdr(m, hdr).hcrc
  /\ uimage_valid_size(m, hdr, len)
  /\ uimage_valid_dcrc(m, hdr)

\* The table of a multi-file image ends with a 0.
uimage_multi_count(m, hdr) ==
  CHOOSE n \in 0 .. Cardinality(DOMAIN m) :
    /\ ntohl(At(m, uimage_data(hdr) + n)) = 0
    /\ \A k \in 0 .. n - 1 : ntohl(At(m, uimage_data(hdr) + k)) # 0

uimage_multi_size(m, hdr, index) == ntohl(At(m, uimage_data(hdr) + index - 1))

\* A pointer has 32 bits.
uimage_multi_image(m, hdr, index) ==
  LET sizes == [i \in 1 .. uimage_multi_count(m, hdr) |-> uimage_multi_size(m, hdr, i)]
      skip == uimage_multi_count(m, hdr) + 1 + SumFunctionOnSet(sizes, 1 .. index - 1)
  IN  (uimage_data(hdr) + skip) % Word

IsMulti(m, hdr) == uimage_hdr(m, hdr).type = "multi"
uimage_count(m, hdr) == IF IsMulti(m, hdr) THEN uimage_multi_count(m, hdr) ELSE 1
uimage_image(m, hdr, i) == IF IsMulti(m, hdr) THEN uimage_multi_image(m, hdr, i) ELSE hdr

\* uimage_check(), TRUE for an image that is accepted.
uimage_check(m, hdr, len) ==
  /\ uimage_valid(m, hdr, len)
  /\ IsMulti(m, hdr) =>
       \A i \in 1 .. uimage_multi_count(m, hdr) :
         LET subhdr == uimage_multi_image(m, hdr, i)
         IN  /\ uimage_valid(m, subhdr, uimage_multi_size(m, hdr, i))
             /\ ~IsMulti(m, subhdr)

Supported(m, hdr) ==
  \A i \in 1 .. uimage_count(m, hdr) :
    LET h == uimage_hdr(m, uimage_image(m, hdr, i))
    IN  h.supported /\ h.type \in {"kernel", "ramdisk"}

\* The part of a type that the loop of uimage_parse() leaves behind: the last one.
Part(m, hdr, type) ==
  LET at == {i \in 1 .. uimage_count(m, hdr) : uimage_hdr(m, uimage_image(m, hdr, i)).type = type}
      sub == uimage_image(m, hdr, Max(at))
  IN  IF at = {} THEN [addr |-> 0, size |-> 0, load |-> 0, ep |-> 0]
      ELSE [addr |-> uimage_data(sub), size |-> uimage_hdr(m, sub).size,
            load |-> uimage_hdr(m, sub).load, ep |-> uimage_hdr(m, sub).ep]

\* What uimage_parse() returns for an image that has been checked.
uimage_parse(m, hdr) ==
  [ok |-> Supported(m, hdr), kernel |-> Part(m, hdr, "kernel"),
   ramdisk |-> Part(m, hdr, "ramdisk")]
=============================================================================
