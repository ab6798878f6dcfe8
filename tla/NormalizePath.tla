---------------------------- MODULE NormalizePath ----------------------------
(***************************************************************************)
(* fs_normalize_path() of src/lib/fs/fs.c, which every path given to the   *)
(* file system layer goes through.  It rewrites the string in place: the   *)
(* loop reads at pos and writes at outpos in the same array, so a step     *)
(* is one turn of the loop, and the last step is the code behind it.       *)
(*                                                                         *)
(* Names that end in _Faulty are variants with a bug; no action uses them. *)
(***************************************************************************)
EXTENDS Integers, Sequences

Seqs == INSTANCE SequencesExt

CONSTANTS
  Slash, Dot, NUL,
  Letters,  \* the other characters
  MaxLen    \* bound: length of a path; the callers' buffers hold 511

ASSUME PathAssumption ==
  /\ MaxLen \in Nat
  /\ Slash # Dot /\ Slash # NUL /\ Dot # NUL
  /\ Slash \notin Letters /\ Dot \notin Letters /\ NUL \notin Letters

Chars == Letters \cup {Slash, Dot}

States == {"INITIAL", "FIELD_START", "IN_FIELD", "SEP", "SEEN_SEP", "DOT", "SEEN_DOT",
           "DOTDOT", "SEEN_DOTDOT"}

VARIABLES
  given,    \* the string before the call, and len, its length
  len,
  path,     \* the array, up to the terminator of the given string
  pos, outpos, state, done,
  returned  \* the function has returned

normVars == <<given, len, path, pos, outpos, state, done, returned>>

-----------------------------------------------------------------------------
c == path[pos]

emit(n, ch) == path' = [path EXCEPT ![n] = ch]

Goto(s) == state' = s /\ UNCHANGED <<path, pos, outpos, done>>

\* Consume a character without writing one.
Eat(s) == state' = s /\ pos' = pos + 1 /\ UNCHANGED <<path, outpos, done>>

Stop == done' = TRUE /\ UNCHANGED <<path, pos, outpos, state>>

INITIAL ==
  /\ state = "INITIAL"
  /\ Goto(IF c = Slash THEN "SEP" ELSE IF c = Dot THEN "DOT" ELSE "FIELD_START")

FIELD_START ==
  /\ state = "FIELD_START"
  /\ \/ c = Dot /\ Goto("DOT")
     \/ c = NUL /\ Stop
     \/ c \notin {Dot, NUL} /\ Goto("IN_FIELD")

IN_FIELD ==
  /\ state = "IN_FIELD"
  /\ \/ c = Slash /\ Goto("SEP")
     \/ c = NUL /\ Stop
     \/ /\ c \notin {Slash, NUL}
        /\ emit(outpos, c) /\ outpos' = outpos + 1 /\ pos' = pos + 1
        /\ UNCHANGED <<state, done>>

SEP ==
  /\ state = "SEP"
  /\ emit(outpos, Slash) /\ outpos' = outpos + 1 /\ pos' = pos + 1
  /\ state' = "SEEN_SEP"
  /\ UNCHANGED done

\* As below, but the second slash is not consumed.
SEEN_SEP_Faulty ==
  /\ state = "SEEN_SEP"
  /\ \/ c = Slash /\ Goto("SEEN_SEP")
     \/ c = NUL /\ Stop
     \/ c \notin {Slash, NUL} /\ Goto("FIELD_START")

SEEN_SEP ==
  /\ state = "SEEN_SEP"
  /\ \/ c = Slash /\ Eat("SEEN_SEP")
     \/ c = NUL /\ Stop
     \/ c \notin {Slash, NUL} /\ Goto("FIELD_START")

DOT == state = "DOT" /\ Eat("SEEN_DOT")

SEEN_DOT ==
  /\ state = "SEEN_DOT"
  /\ \/ c = Dot /\ Goto("DOTDOT")
     \/ c = Slash /\ Eat("SEEN_SEP")
     \/ c = NUL /\ Stop
     \/ /\ c \notin {Dot, Slash, NUL}
        /\ emit(outpos, Dot) /\ outpos' = outpos + 1
        /\ state' = "IN_FIELD"
        /\ UNCHANGED <<pos, done>>

DOTDOT == state = "DOTDOT" /\ Eat("SEEN_DOTDOT")

\* As below, but the slash in front of the previous field is not looked for.
Backtrack_Faulty(p) == p = IF outpos > 0 THEN outpos - 1 ELSE 0

\* Where the field emitted before outpos begins: the separator behind it is
\* dropped, then everything back to the separator in front of it.
Backtrack(p) ==
  IF outpos = 0 THEN p = 0
  ELSE /\ p \in 0 .. outpos - 1
       /\ p > 0 => path[p - 1] = Slash
       /\ \A i \in p + 1 .. outpos - 1 : path[i - 1] # Slash

\* As below, but the character that follows is written too, and not consumed.
SEEN_DOTDOT_Faulty ==
  /\ state = "SEEN_DOTDOT"
  /\ \/ /\ c \in {Slash, NUL}
        /\ outpos' \in 0 .. outpos /\ Backtrack(outpos')
        /\ pos' = pos + 1 /\ state' = "SEEN_SEP" /\ done' = (c = NUL)
        /\ UNCHANGED path
     \/ /\ c \notin {Slash, NUL}
        /\ path' = [path EXCEPT ![outpos] = Dot, ![outpos + 1] = Dot, ![outpos + 2] = c]
        /\ outpos' = outpos + 3 /\ state' = "IN_FIELD"
        /\ UNCHANGED <<pos, done>>

SEEN_DOTDOT ==
  /\ state = "SEEN_DOTDOT"
  /\ \/ /\ c \in {Slash, NUL}
        /\ outpos' \in 0 .. outpos /\ Backtrack(outpos')
        /\ pos' = pos + 1 /\ state' = "SEEN_SEP" /\ done' = (c = NUL)
        /\ UNCHANGED path
     \/ /\ c \notin {Slash, NUL}
        /\ path' = [path EXCEPT ![outpos] = Dot, ![outpos + 1] = Dot]
        /\ outpos' = outpos + 2 /\ state' = "IN_FIELD"
        /\ UNCHANGED <<pos, done>>

\* The code behind the loop: no slash at the end, and a terminator.
Finish ==
  LET p == IF outpos > 0 /\ path[outpos - 1] = Slash THEN outpos - 1 ELSE outpos
  IN  /\ done /\ ~returned
      /\ emit(p, NUL) /\ outpos' = p + 1
      /\ returned' = TRUE
      /\ UNCHANGED <<given, len, pos, state, done>>

-----------------------------------------------------------------------------
NormInit ==
  /\ len \in 0 .. MaxLen
  /\ given \in [0 .. len - 1 -> Chars]
  /\ path = [i \in 0 .. len |-> IF i = len THEN NUL ELSE given[i]]
  /\ pos = 0 /\ outpos = 0 /\ state = "INITIAL" /\ done = FALSE /\ returned = FALSE

Turn ==
  /\ ~done
  /\ \/ INITIAL \/ FIELD_START \/ IN_FIELD \/ SEP \/ SEEN_SEP \/ DOT \/ SEEN_DOT
     \/ DOTDOT \/ SEEN_DOTDOT
  /\ UNCHANGED <<given, len, returned>>

NormNext == Turn \/ Finish

\* Nothing interrupts the function for good.
NormSpec == NormInit /\ [][NormNext]_normVars /\ WF_normVars(NormNext)

-----------------------------------------------------------------------------
(* Reference: what the function is to compute, field by field.             *)

\* Fields, which are what stands between slashes.
Names == Seq(Chars \ {Slash})

\* What is known of a string: the slash that it begins with, if any, the fields kept and the
\* field that it ends with.
Parts == [root : {<<>>, <<Slash>>}, fields : Seq(Names), field : Names]

\* The last field is complete.  A .. that finds no field to drop drops the leading slash.
Keep(r) ==
  CASE r.field \in {<<>>, <<Dot>>} -> [r EXCEPT !.field = <<>>]
    [] r.field = <<Dot, Dot>> ->
         IF r.fields = <<>> THEN [r EXCEPT !.root = <<>>, !.field = <<>>]
                            ELSE [r EXCEPT !.fields = Seqs!Front(@), !.field = <<>>]
    [] OTHER -> [r EXCEPT !.fields = Append(@, r.field), !.field = <<>>]

\* The parts with one character more.
Extend(r, s) ==
  CASE Seqs!Last(s) # Slash -> [r EXCEPT !.field = Append(@, Seqs!Last(s))]
    [] s = <<Slash>> -> [r EXCEPT !.root = s]
    [] OTHER -> Keep(r)

Split[s \in Seq(Chars)] ==
  IF s = <<>> THEN [root |-> <<>>, fields |-> <<>>, field |-> <<>>]
              ELSE Extend(Split[Seqs!Front(s)], s)

\* Every field with a slash behind it.
Text[fs \in Seq(Names)] ==
  IF fs = <<>> THEN <<>> ELSE Text[Seqs!Front(fs)] \o Seqs!Last(fs) \o <<Slash>>

Kept(r) == r.root \o Text[r.fields]

\* There is no slash at the end.
Reference(s) ==
  LET t == Kept(Keep(Split[s]))
  IN  IF t = <<>> THEN t ELSE Seqs!Front(t)

\* The characters of an array in front of position n.
UpTo(array, n) == [i \in 1 .. n |-> array[i - 1]]

-----------------------------------------------------------------------------
(* Properties.                                                             *)

\* Characters that the current state has consumed and not yet written.
Pending == CASE state \in {"SEEN_DOT", "DOTDOT"} -> 1
             [] state = "SEEN_DOTDOT" -> 2
             [] OTHER -> 0

\* The rewriting in place is safe for every path: what is still to be read has
\* not been overwritten, dots that are held back have room to be written, and
\* neither position leaves the array (the terminator included).
InPlace ==
  /\ len \in Nat /\ given \in [0 .. len - 1 -> Chars]
  /\ path \in [0 .. len -> Chars \cup {NUL}]
  /\ pos \in Nat /\ outpos \in Nat /\ state \in States
  /\ done \in BOOLEAN /\ returned \in BOOLEAN
  /\ outpos <= len + 1 /\ (outpos = len + 1 => returned)
  /\ ~done => /\ pos <= len /\ outpos + Pending <= pos
              /\ \A i \in pos .. len : path[i] = IF i = len THEN NUL ELSE given[i]
              /\ state \in {"SEP", "DOT", "DOTDOT"} => pos < len

\* The string left in the array is the given one without empty fields and
\* fields of one dot, with every .. resolved and no slash at the end.
NormalizedIsReference ==
  returned => UpTo(path, outpos - 1) = Reference(UpTo(given, len))

\* The state machine comes to an end for every path.
Terminates == <>returned
=============================================================================
