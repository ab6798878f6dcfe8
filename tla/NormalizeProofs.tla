--------------------------- MODULE NormalizeProofs ---------------------------
(***************************************************************************)
(* fs_normalize_path() rewrites its argument in place safely, for strings  *)
(* of every length over every alphabet.  InPlace is inductive as it        *)
(* stands: a turn writes only at outpos, or at outpos and the place behind *)
(* it, and what a state has consumed without writing leaves that room.     *)
(* Then, with InPlace, that it computes the reference.                     *)
(***************************************************************************)
EXTENDS NormalizePath, ListProofs, SequenceTheorems, TLAPS

\* The terminator is met exactly at the end of the string.
LEMMA AtPos ==
  ASSUME InPlace, ~done
  PROVE  /\ c \in Chars \cup {NUL}
         /\ c # NUL => pos < len
         /\ c = NUL => pos = len
PROOF
<1>1. pos \in 0 .. len /\ path[pos] = IF pos = len THEN NUL ELSE given[pos]
  BY DEF InPlace
<1>2. pos < len => given[pos] \in Chars
  BY <1>1 DEF InPlace
<1>3. NUL \notin Chars
  BY PathAssumption DEF Chars
<1> QED
  BY <1>1, <1>2, <1>3 DEF c, InPlace

\* A turn that writes nothing and consumes at most one character.
LEMMA ReadOnlyTurn ==
  ASSUME InPlace, ~done, UNCHANGED <<given, len, returned, path, outpos>>,
         state' \in States, done' = FALSE,
         pos' \in {pos, pos + 1}, pos' <= len, outpos + Pending' <= pos',
         state' \in {"SEP", "DOT", "DOTDOT"} => pos' < len
  PROVE  InPlace'
PROOF
<1>1. /\ pos \in Nat /\ pos' \in Nat /\ len \in Nat
      /\ \A i \in pos' .. len : path[i] = IF i = len THEN NUL ELSE given[i]
  BY DEF InPlace
<1> QED
  BY <1>1 DEF InPlace

\* A turn that ends the loop.
LEMMA LastTurn ==
  ASSUME InPlace, ~done, UNCHANGED <<given, len, returned, path>>,
         state' \in States, done' = TRUE, pos' \in Nat, outpos' \in 0 .. outpos
  PROVE  InPlace'
PROOF
<1>1. outpos <= len
  BY DEF InPlace, Pending
<1> QED
  BY <1>1 DEF InPlace

\* A turn that writes up to two characters, behind what has been consumed.
LEMMA WritingTurn ==
  ASSUME InPlace, ~done, UNCHANGED <<given, len, returned>>,
         state' \in States, done' = FALSE,
         NEW n \in 1 .. 2, outpos' = outpos + n, outpos' + Pending' <= pos',
         pos' \in {pos, pos + 1}, pos' <= len,
         path' \in [0 .. len -> Chars \cup {NUL}],
         \A i \in 0 .. len : i \notin outpos .. outpos + n - 1 => path'[i] = path[i],
         state' \notin {"SEP", "DOT", "DOTDOT"}, Pending' = 0
  PROVE  InPlace'
PROOF
<1>1. /\ pos \in Nat /\ pos' \in Nat /\ len \in Nat /\ outpos \in Nat
      /\ \A i \in pos' .. len : path[i] = IF i = len THEN NUL ELSE given[i]
  BY DEF InPlace
<1>2. \A i \in pos' .. len : i \in 0 .. len /\ i \notin outpos .. outpos + n - 1
  BY <1>1
<1>3. \A i \in pos' .. len : path'[i] = IF i = len THEN NUL ELSE given[i]
  BY <1>1, <1>2
<1>4. /\ len' \in Nat /\ given' \in [0 .. len' - 1 -> Chars]
      /\ path' \in [0 .. len' -> Chars \cup {NUL}]
      /\ outpos' \in Nat /\ state' \in States
  BY <1>1 DEF InPlace
<1>5. outpos' <= len' + 1 /\ outpos' # len' + 1 /\ pos' <= len'
  BY <1>1
<1>6. done' \in BOOLEAN /\ returned' \in BOOLEAN
  BY Zenon DEF InPlace
<1>7. \A i \in pos' .. len' : path'[i] = IF i = len' THEN NUL ELSE given'[i]
  BY <1>3
<1> QED
  BY <1>1, <1>4, <1>5, <1>6, <1>7, Zenon DEF InPlace

\* Before the call nothing is overwritten.
LEMMA InitInPlace == NormInit => InPlace
PROOF
<1> SUFFICES ASSUME NormInit PROVE InPlace
  OBVIOUS
<1>1. len \in Nat
  BY PathAssumption DEF NormInit
<1>2. \A i \in 0 .. len : path[i] = IF i = len THEN NUL ELSE given[i]
  BY DEF NormInit
<1>3. path \in [0 .. len -> Chars \cup {NUL}]
  BY <1>1 DEF NormInit
<1>4. Pending = 0
  BY DEF NormInit, Pending
<1>5. /\ len \in Nat /\ given \in [0 .. len - 1 -> Chars]
      /\ pos \in Nat /\ outpos \in Nat /\ state \in States
      /\ outpos <= len + 1 /\ outpos # len + 1 /\ pos <= len /\ outpos + Pending <= pos
      /\ state \notin {"SEP", "DOT", "DOTDOT"}
  BY <1>1, <1>4 DEF NormInit, States
<1>6. done \in BOOLEAN /\ returned \in BOOLEAN
  BY Zenon DEF NormInit
<1>7. \A i \in pos .. len : path[i] = IF i = len THEN NUL ELSE given[i]
  BY <1>1, <1>2, <1>5
<1> QED
  BY <1>3, <1>5, <1>6, <1>7, Zenon DEF InPlace

\* Every turn of the loop keeps InPlace.
LEMMA TurnInPlace ==
  ASSUME InPlace, Turn
  PROVE  InPlace'
PROOF
<1> USE PathAssumption
<1>0. /\ ~done /\ done = FALSE /\ UNCHANGED <<given, len, returned>>
      /\ pos \in Nat /\ outpos \in Nat /\ len \in Nat /\ state \in States
      /\ pos <= len /\ outpos + Pending <= pos
      /\ path \in [0 .. len -> Chars \cup {NUL}]
      /\ state \in {"SEP", "DOT", "DOTDOT"} => pos < len
  BY DEF Turn, InPlace
<1>c. /\ c \in Chars \cup {NUL} /\ NUL \notin Chars
      /\ c # NUL => pos < len
      /\ c = NUL => pos = len
  BY <1>0, AtPos DEF Chars
<1>1. CASE INITIAL
  <2>1. Pending = 0 /\ Pending' = 0
    BY <1>1 DEF INITIAL, Goto, Pending
  <2> QED
    BY <1>0, <1>c, <1>1, <2>1, ReadOnlyTurn DEF INITIAL, Goto, States
<1>2. CASE FIELD_START
  <2>1. CASE c = NUL /\ Stop
    BY <1>0, <2>1, LastTurn DEF Stop
  <2>2. CASE c # NUL
    <3>1. Pending = 0 /\ Pending' = 0
      BY <1>2, <2>2 DEF FIELD_START, Goto, Pending
    <3> QED
      BY <1>0, <1>c, <1>2, <2>2, <3>1, ReadOnlyTurn DEF FIELD_START, Goto, States
  <2> QED
    BY <1>2, <2>1, <2>2 DEF FIELD_START
<1>3. CASE IN_FIELD
  <2>1. CASE c = NUL /\ Stop
    BY <1>0, <2>1, LastTurn DEF Stop
  <2>2. CASE c = Slash /\ Goto("SEP")
    <3>1. Pending = 0 /\ Pending' = 0
      BY <1>3, <2>2 DEF IN_FIELD, Goto, Pending
    <3> QED
      BY <1>0, <1>c, <2>2, <3>1, ReadOnlyTurn DEF Goto, States
  <2>3. CASE /\ c \notin {Slash, NUL} /\ emit(outpos, c)
             /\ outpos' = outpos + 1 /\ pos' = pos + 1 /\ UNCHANGED <<state, done>>
    <3>1. Pending = 0 /\ Pending' = 0 /\ state' \notin {"SEP", "DOT", "DOTDOT"}
      BY <1>3, <2>3 DEF IN_FIELD, Pending
    <3>2. path' \in [0 .. len -> Chars \cup {NUL}]
      BY <1>0, <1>c, <2>3 DEF emit
    <3>3. \A i \in 0 .. len : i \notin outpos .. outpos + 1 - 1 => path'[i] = path[i]
      BY <1>0, <2>3 DEF emit
    <3>4. pos' <= len /\ outpos' + Pending' <= pos' /\ 1 \in 1 .. 2
      BY <1>0, <1>c, <2>3, <3>1
    <3> QED
      BY <1>0, <2>3, <3>1, <3>2, <3>3, <3>4, WritingTurn
  <2> QED
    BY <1>3, <2>1, <2>2, <2>3 DEF IN_FIELD
<1>4. CASE SEP
  <2>1. Pending = 0 /\ Pending' = 0 /\ state' \notin {"SEP", "DOT", "DOTDOT"}
    BY <1>4 DEF SEP, Pending
  <2>2. path' \in [0 .. len -> Chars \cup {NUL}]
    BY <1>0, <1>4 DEF SEP, emit, Chars
  <2>3. \A i \in 0 .. len : i \notin outpos .. outpos + 1 - 1 => path'[i] = path[i]
    BY <1>0, <1>4 DEF SEP, emit
  <2>4. /\ pos' = pos + 1 /\ pos' <= len /\ outpos' = outpos + 1 /\ outpos' + Pending' <= pos'
        /\ 1 \in 1 .. 2 /\ done' = FALSE /\ state' \in States
    BY <1>0, <1>4, <2>1 DEF SEP, States
  <2> QED
    BY <1>0, <2>1, <2>2, <2>3, <2>4, WritingTurn
<1>5. CASE SEEN_SEP
  <2>1. CASE c = NUL /\ Stop
    BY <1>0, <2>1, LastTurn DEF Stop
  <2>2. CASE c # NUL
    <3>1. Pending = 0 /\ Pending' = 0
      BY <1>5, <2>2 DEF SEEN_SEP, Goto, Eat, Pending
    <3>2. CASE Eat("SEEN_SEP")
      <4>1. /\ state' \in States /\ pos' \in {pos, pos + 1} /\ pos' <= len
            /\ outpos + Pending' <= pos' /\ state' \notin {"SEP", "DOT", "DOTDOT"}
        BY <1>0, <1>c, <2>2, <3>1, <3>2 DEF Eat, States
      <4>2. done' = FALSE /\ UNCHANGED <<path, outpos>>
        BY <1>0, <3>2, Zenon DEF Eat
      <4> QED
        BY <1>0, <4>1, <4>2, ReadOnlyTurn
    <3>3. CASE Goto("FIELD_START")
      BY <1>0, <1>c, <2>2, <3>1, <3>3, ReadOnlyTurn DEF Goto, States
    <3> QED
      BY <1>5, <2>2, <3>2, <3>3 DEF SEEN_SEP
  <2> QED
    BY <1>5, <2>1, <2>2 DEF SEEN_SEP
<1>6. CASE DOT
  <2>1. Pending = 0 /\ Pending' = 1
    BY <1>6 DEF DOT, Eat, Pending
  <2>2. /\ state' \in States /\ pos' \in {pos, pos + 1} /\ pos' <= len
        /\ outpos + Pending' <= pos' /\ state' \notin {"SEP", "DOT", "DOTDOT"}
    BY <1>0, <1>6, <2>1 DEF DOT, Eat, States
  <2>3. done' = FALSE /\ UNCHANGED <<path, outpos>>
    BY <1>0, <1>6, Zenon DEF DOT, Eat
  <2> QED
    BY <1>0, <2>2, <2>3, ReadOnlyTurn
<1>7. CASE SEEN_DOT
  <2>0. Pending = 1
    BY <1>7 DEF SEEN_DOT, Pending
  <2>1. CASE c = NUL /\ Stop
    BY <1>0, <2>1, LastTurn DEF Stop
  <2>2. CASE c = Dot /\ Goto("DOTDOT")
    <3>1. Pending' = 1
      BY <2>2 DEF Goto, Pending
    <3> QED
      BY <1>0, <1>c, <2>0, <2>2, <3>1, ReadOnlyTurn DEF Goto, States
  <2>3. CASE c = Slash /\ Eat("SEEN_SEP")
    <3>1. Pending' = 0
      BY <2>3 DEF Eat, Pending
    <3>2. /\ state' \in States /\ pos' \in {pos, pos + 1} /\ pos' <= len
          /\ outpos + Pending' <= pos' /\ state' \notin {"SEP", "DOT", "DOTDOT"}
      BY <1>0, <1>c, <2>0, <2>3, <3>1 DEF Eat, States
    <3>3. done' = FALSE /\ UNCHANGED <<path, outpos>>
      BY <1>0, <2>3, Zenon DEF Eat
    <3> QED
      BY <1>0, <3>2, <3>3, ReadOnlyTurn
  <2>4. CASE /\ emit(outpos, Dot) /\ outpos' = outpos + 1
             /\ state' = "IN_FIELD" /\ UNCHANGED <<pos, done>>
    <3>1. Pending' = 0 /\ state' \notin {"SEP", "DOT", "DOTDOT"}
      BY <2>4 DEF Pending
    <3>2. path' \in [0 .. len -> Chars \cup {NUL}]
      BY <1>0, <2>4 DEF emit, Chars
    <3>3. \A i \in 0 .. len : i \notin outpos .. outpos + 1 - 1 => path'[i] = path[i]
      BY <1>0, <2>4 DEF emit
    <3>4. /\ pos' <= len /\ outpos' + Pending' <= pos' /\ 1 \in 1 .. 2
          /\ done' = FALSE /\ state' \in States
      BY <1>0, <2>0, <2>4, <3>1 DEF States
    <3> QED
      BY <1>0, <2>4, <3>1, <3>2, <3>3, <3>4, WritingTurn
  <2> QED
    BY <1>7, <2>1, <2>2, <2>3, <2>4 DEF SEEN_DOT
<1>8. CASE DOTDOT
  <2>1. Pending = 1 /\ Pending' = 2
    BY <1>8 DEF DOTDOT, Eat, Pending
  <2>2. /\ state' \in States /\ pos' \in {pos, pos + 1} /\ pos' <= len
        /\ outpos + Pending' <= pos' /\ state' \notin {"SEP", "DOT", "DOTDOT"}
    BY <1>0, <1>8, <2>1 DEF DOTDOT, Eat, States
  <2>3. done' = FALSE /\ UNCHANGED <<path, outpos>>
    BY <1>0, <1>8, Zenon DEF DOTDOT, Eat
  <2> QED
    BY <1>0, <2>2, <2>3, ReadOnlyTurn
<1>9. CASE SEEN_DOTDOT
  <2>0. Pending = 2
    BY <1>9 DEF SEEN_DOTDOT, Pending
  <2>1. CASE /\ c \in {Slash, NUL} /\ outpos' \in 0 .. outpos
             /\ pos' = pos + 1 /\ state' = "SEEN_SEP" /\ done' = (c = NUL) /\ UNCHANGED path
    <3>1. CASE c = NUL
      <4>1. done' = TRUE
        BY <2>1, <3>1, Zenon
      <4>2. state' \in States /\ pos' \in Nat
        BY <1>0, <2>1 DEF States
      <4> QED
        BY <1>0, <2>1, <4>1, <4>2, LastTurn
    <3>2. CASE c # NUL
      <4>0. done' = FALSE /\ done' \in BOOLEAN /\ returned' \in BOOLEAN
        BY <1>0, <2>1, <3>2, Zenon DEF InPlace
      <4>1. pos' <= len /\ Pending' = 0
        BY <1>0, <1>c, <2>1, <3>2 DEF Pending
      <4>2. outpos' \in Nat /\ outpos' <= pos' /\ pos' \in Nat
        BY <1>0, <2>0, <2>1
      <4>3. \A i \in pos' .. len : path'[i] = IF i = len THEN NUL ELSE given[i]
        BY <1>0, <2>1 DEF InPlace
      <4>4. /\ len' \in Nat /\ given' \in [0 .. len' - 1 -> Chars]
            /\ path' \in [0 .. len' -> Chars \cup {NUL}]
            /\ state' \in States /\ state' \notin {"SEP", "DOT", "DOTDOT"}
        BY <1>0, <2>1 DEF InPlace, States
      <4>5. /\ outpos' <= len' + 1 /\ outpos' # len' + 1 /\ pos' <= len'
            /\ outpos' + Pending' <= pos'
        <5>1. outpos' \in Nat /\ pos' \in Nat /\ len \in Nat /\ len' = len /\ Pending' = 0
          BY <1>0, <4>1, <4>2
        <5>2. outpos' <= len' + 1 /\ outpos' # len' + 1 /\ pos' <= len'
          BY <5>1, <4>1, <4>2
        <5>3. outpos' + Pending' <= pos'
          BY <5>1, <4>2, <2>1 DEF Pending
        <5> QED
          BY <5>2, <5>3
      <4>6. \A i \in pos' .. len' : path'[i] = IF i = len' THEN NUL ELSE given'[i]
        BY <1>0, <4>3
      <4> QED
        BY <4>0, <4>2, <4>4, <4>5, <4>6, Zenon DEF InPlace
    <3> QED
      BY <3>1, <3>2
  <2>2. CASE /\ path' = [path EXCEPT ![outpos] = Dot, ![outpos + 1] = Dot]
             /\ outpos' = outpos + 2 /\ state' = "IN_FIELD" /\ UNCHANGED <<pos, done>>
    <3>1. Pending' = 0 /\ state' \notin {"SEP", "DOT", "DOTDOT"}
      BY <2>2 DEF Pending
    <3>2. path' \in [0 .. len -> Chars \cup {NUL}]
      BY <1>0, <2>2 DEF Chars
    <3>3. \A i \in 0 .. len : i \notin outpos .. outpos + 2 - 1 => path'[i] = path[i]
      BY <1>0, <2>2
    <3>4. /\ pos' <= len /\ outpos' + Pending' <= pos' /\ 2 \in 1 .. 2
          /\ done' = FALSE /\ state' \in States
      BY <1>0, <2>0, <2>2, <3>1 DEF States
    <3> QED
      BY <1>0, <2>2, <3>1, <3>2, <3>3, <3>4, WritingTurn
  <2> QED
    BY <1>9, <2>1, <2>2 DEF SEEN_DOTDOT
<1> QED
  BY <1>1, <1>2, <1>3, <1>4, <1>5, <1>6, <1>7, <1>8, <1>9 DEF Turn

\* The terminator that the code behind the loop writes is inside the array.
LEMMA FinishInPlace ==
  ASSUME InPlace, Finish
  PROVE  InPlace'
PROOF
<1> DEFINE p == IF outpos > 0 /\ path[outpos - 1] = Slash THEN outpos - 1 ELSE outpos
<1>1. /\ done /\ ~returned /\ path' = [path EXCEPT ![p] = NUL] /\ outpos' = p + 1
      /\ returned' = TRUE /\ UNCHANGED <<given, len, pos, state, done>>
  BY DEF Finish, emit
<1>2. p \in 0 .. len
  BY <1>1 DEF InPlace
<1>3. path' \in [0 .. len -> Chars \cup {NUL}]
  BY <1>1, <1>2 DEF InPlace
<1> HIDE DEF p
<1> QED
  BY <1>1, <1>2, <1>3 DEF InPlace

\* fs_normalize_path() never writes ahead of what it has read, nor outside the
\* string and its terminator, whatever the path is and however long.
THEOREM NormalizesInPlace == NormSpec => []InPlace
PROOF
<1>1. ASSUME InPlace, [NormNext]_normVars PROVE InPlace'
  <2>1. CASE Turn
    BY <1>1, <2>1, TurnInPlace
  <2>2. CASE Finish
    BY <1>1, <2>2, FinishInPlace
  <2>3. CASE UNCHANGED normVars
    BY <1>1, <2>3 DEF InPlace, Pending, normVars
  <2> QED
    BY <1>1, <2>1, <2>2, <2>3 DEF NormNext
<1> QED
  BY <1>1, InitInPlace, PTL DEF NormSpec

-----------------------------------------------------------------------------
(* Sequences.                                                              *)

\* What is left of a sequence without its last element.
LEMMA FrontFacts ==
  ASSUME NEW S, NEW s \in Seq(S), s # <<>>
  PROVE  /\ Seqs!Front(s) \in Seq(S) /\ Len(Seqs!Front(s)) = Len(s) - 1 /\ Len(s) \in Nat \ {0}
         /\ Seqs!Last(s) \in S
         /\ \A i \in 1 .. Len(s) - 1 : Seqs!Front(s)[i] = s[i]
<1>1. PICK n \in Nat \ {0} : n = Len(s)
  OBVIOUS
<1>2. s[n] \in S /\ n - 1 \in Nat /\ n - 1 <= n
  BY <1>1
<1>3. PICK f : f = SubSeq(s, 1, n - 1)
  OBVIOUS
<1>4. f \in Seq(S) /\ Len(f) = n - 1 /\ \A i \in 1 .. n - 1 : f[i] = s[i]
  BY <1>1, <1>2, <1>3
<1> QED BY <1>1, <1>2, <1>3, <1>4 DEF Seqs!Front, Seqs!Last

\* Appending and taking away the last element.
LEMMA FrontOfAppend ==
  ASSUME NEW S, NEW s \in Seq(S), NEW x \in S
  PROVE  /\ Append(s, x) \in Seq(S) /\ Append(s, x) # <<>>
         /\ Seqs!Front(Append(s, x)) = s /\ Seqs!Last(Append(s, x)) = x
<1>1. Append(s, x) \in Seq(S) /\ Append(s, x) # <<>> /\ Len(Append(s, x)) = Len(s) + 1
  BY AppendProperties
<1>2. Seqs!Last(Append(s, x)) = x
  BY <1>1 DEF Seqs!Last
<1>3. PICK a \in Seq(S) : a = Append(s, x) /\ a # <<>> /\ Len(a) = Len(s) + 1
  BY <1>1
<1>4. PICK t \in Seq(S) : /\ t = Seqs!Front(a) /\ Len(t) = Len(a) - 1
                          /\ \A i \in 1 .. Len(a) - 1 : t[i] = a[i]
  <2>1. /\ Seqs!Front(a) \in Seq(S) /\ Len(Seqs!Front(a)) = Len(a) - 1
        /\ \A i \in 1 .. Len(a) - 1 : Seqs!Front(a)[i] = a[i]
    BY ONLY a \in Seq(S), <1>3, FrontFacts
  <2> QED BY <2>1, Zenon
<1>5. Len(t) = Len(s) /\ \A i \in 1 .. Len(s) : t[i] = s[i]
  BY <1>3, <1>4
<1>6. t = s
  BY <1>5
<1> QED BY <1>1, <1>2, <1>3, <1>4, <1>6

\* A sequence is its front with its last element appended.
LEMMA AppendOfFront ==
  ASSUME NEW S, NEW s \in Seq(S), s # <<>>
  PROVE  s = Append(Seqs!Front(s), Seqs!Last(s))
<1>1. PICK t \in Seq(S) : /\ t = Seqs!Front(s) /\ Len(t) = Len(s) - 1
                          /\ \A i \in 1 .. Len(s) - 1 : t[i] = s[i]
  BY FrontFacts
<1>2. PICK x \in S : x = Seqs!Last(s) /\ x = s[Len(s)]
  BY FrontFacts DEF Seqs!Last
<1>3. Len(Append(t, x)) = Len(s) /\ \A i \in 1 .. Len(s) : Append(t, x)[i] = s[i]
  BY <1>1, <1>2
<1>4. Append(t, x) = s
  BY <1>3
<1> QED BY <1>1, <1>2, <1>4

\* The sequences that are shorter than a given one.
Shorter(S) == [s \in Seq(S) |-> {t \in Seq(S) : Len(t) < Len(s)}]

\* Of some sequences one is shortest.
LEMMA ShortestSequence ==
  ASSUME NEW S, NEW T \in SUBSET Seq(S), T # {}
  PROVE  \E x \in T : \A y \in T : y \notin Shorter(S)[x]
<1> DEFINE L == {Len(s) : s \in T}
<1>1. L \in SUBSET Nat /\ L # {}
  <2>1. \A s \in T : s \in Seq(S)
    OBVIOUS
  <2>2. \A s \in T : Len(s) \in Nat
    BY <2>1
  <2> QED BY <2>2
<1>2. PICK l \in L : \A y \in L : ~(y < l)
  BY <1>1, LeastNat
<1>3. PICK x \in T : l = Len(x)
  OBVIOUS
<1>4. \A y \in T : ~(Len(y) < Len(x))
  BY <1>2, <1>3
<1> QED BY <1>4 DEF Shorter

\* The front of a sequence is shorter.
LEMMA FrontIsShorter ==
  ASSUME NEW S, NEW s \in Seq(S), s # <<>>
  PROVE  Seqs!Front(s) \in Seq(S) /\ Seqs!Front(s) \in Shorter(S)[s]
<1>1. PICK t \in Seq(S) : t = Seqs!Front(s) /\ Len(t) = Len(s) - 1
  BY FrontFacts
<1> QED BY <1>1 DEF Shorter

-----------------------------------------------------------------------------
(* The reference: its recursive definitions unfold.                        *)

\* A field that is kept as it is.
Proper(f) == f \notin {<<>>, <<Dot>>, <<Dot, Dot>>}

\* What the parts of a string are made of.
LEMMA PartsFacts ==
  ASSUME NEW r \in Parts
  PROVE  /\ r.root \in {<<>>, <<Slash>>} /\ r.fields \in Seq(Names) /\ r.field \in Names
         /\ r = [root |-> r.root, fields |-> r.fields, field |-> r.field]
BY DEF Parts

\* Keep() for each kind of field.
LEMMA KeepFacts ==
  ASSUME NEW r \in Parts
  PROVE  /\ Keep(r) \in Parts /\ Keep(r).field = <<>>
         /\ r.field \in {<<>>, <<Dot>>} =>
              Keep(r).root = r.root /\ Keep(r).fields = r.fields
         /\ r.field = <<Dot, Dot>> /\ r.fields = <<>> =>
              Keep(r).root = <<>> /\ Keep(r).fields = <<>>
         /\ r.field = <<Dot, Dot>> /\ r.fields # <<>> =>
              Keep(r).root = r.root /\ Keep(r).fields = Seqs!Front(r.fields)
         /\ Proper(r.field) =>
              Keep(r).root = r.root /\ Keep(r).fields = Append(r.fields, r.field)
<1> DEFINE K == Keep(r)
<1>1. /\ r.root \in {<<>>, <<Slash>>} /\ r.fields \in Seq(Names) /\ r.field \in Names
      /\ r = [root |-> r.root, fields |-> r.fields, field |-> r.field] /\ <<>> \in Names
  BY PartsFacts DEF Names
<1>2. <<>> # <<Dot, Dot>> /\ <<Dot>> # <<Dot, Dot>>
  OBVIOUS
<1>3. CASE r.field \in {<<>>, <<Dot>>}
  <2>1. K = [r EXCEPT !.field = <<>>]
    BY <1>3 DEF Keep
  <2>2. K = [root |-> r.root, fields |-> r.fields, field |-> <<>>]
    BY <1>1, <2>1
  <2>3. K \in Parts
    BY <1>1, <2>2 DEF Parts
  <2> HIDE DEF K
  <2>4. K.root = r.root /\ K.fields = r.fields /\ K.field = <<>>
    BY <2>2
  <2> QED BY <1>2, <1>3, <2>3, <2>4 DEF Proper, K
<1>4. CASE r.field = <<Dot, Dot>> /\ r.fields = <<>>
  <2>1. K = [root |-> <<>>, fields |-> <<>>, field |-> <<>>]
    BY <1>1, <1>2, <1>4 DEF Keep
  <2>2. K \in Parts
    BY <1>1, <2>1 DEF Parts
  <2> QED BY <1>2, <1>4, <2>1, <2>2 DEF Proper
<1>5. CASE r.field = <<Dot, Dot>> /\ r.fields # <<>>
  <2>1. K = [root |-> r.root, fields |-> Seqs!Front(r.fields), field |-> <<>>]
    BY <1>1, <1>2, <1>5 DEF Keep
  <2>2. PICK f \in Seq(Names) : f = Seqs!Front(r.fields)
    BY <1>1, <1>5, FrontFacts
  <2>3. K \in Parts
    BY <1>1, <2>1, <2>2 DEF Parts
  <2> QED BY <1>2, <1>5, <2>1, <2>3 DEF Proper
<1>6. CASE Proper(r.field)
  <2>1. K = [root |-> r.root, fields |-> Append(r.fields, r.field), field |-> <<>>]
    BY <1>1, <1>6 DEF Keep, Proper
  <2>2. PICK f \in Seq(Names) : f = Append(r.fields, r.field)
    BY <1>1, FrontOfAppend
  <2>3. K \in Parts
    BY <1>1, <2>1, <2>2 DEF Parts
  <2> HIDE DEF K
  <2>4. K.root = r.root /\ K.fields = f /\ K.field = <<>>
    BY <2>1, <2>2
  <2> QED BY <1>6, <2>2, <2>3, <2>4 DEF Proper, K
<1> QED BY <1>3, <1>4, <1>5, <1>6 DEF Proper

\* One character more.
LEMMA ExtendFacts ==
  ASSUME NEW r \in Parts, NEW s \in Seq(Chars), s # <<>>
  PROVE  Extend(r, s) \in Parts
<1>1. /\ r.root \in {<<>>, <<Slash>>} /\ r.fields \in Seq(Names) /\ r.field \in Names
      /\ r = [root |-> r.root, fields |-> r.fields, field |-> r.field]
  BY PartsFacts
<1>2. PICK ch \in Chars : ch = Seqs!Last(s)
  BY FrontFacts
<1>3. CASE ch # Slash
  <2>1. PICK f \in Names : f = Append(r.field, ch)
    BY <1>1, <1>3, FrontOfAppend DEF Names
  <2>2. Extend(r, s) = [r EXCEPT !.field = f]
    <3>1. s # <<Slash>>
      BY <1>2, <1>3 DEF Seqs!Last
    <3> QED BY <1>2, <1>3, <2>1, <3>1 DEF Extend
  <2>3. Extend(r, s) = [root |-> r.root, fields |-> r.fields, field |-> f]
    BY <1>1, <2>2
  <2> QED BY <1>1, <2>3 DEF Parts
<1>4. CASE ch = Slash /\ s = <<Slash>>
  <2>1. Extend(r, s) = [root |-> <<Slash>>, fields |-> r.fields, field |-> r.field]
    BY <1>1, <1>2, <1>4 DEF Extend
  <2> QED BY <1>1, <2>1 DEF Parts
<1>5. CASE ch = Slash /\ s # <<Slash>>
  <2>1. Extend(r, s) = Keep(r)
    BY <1>2, <1>5 DEF Extend
  <2> QED BY <2>1, KeepFacts
<1> QED BY <1>3, <1>4, <1>5

\* The parts of the empty string.
Nothing == [root |-> <<>>, fields |-> <<>>, field |-> <<>>]

\* Split satisfies its definition.
LEMMA SplitUnfolds ==
  ASSUME NEW s \in Seq(Chars)
  PROVE  /\ Split[s] \in Parts
         /\ Split[s] = IF s = <<>> THEN Nothing ELSE Extend(Split[Seqs!Front(s)], s)
<1> DEFINE D == Seq(Chars)
           By(g, x) == IF x = <<>> THEN Nothing ELSE Extend(g[Seqs!Front(x)], x)
           T == [g \in [D -> Parts] |-> [x \in D |-> By(g, x)]]
<1>1. Nothing \in Parts
  <2>1. <<>> \in Seq(Names) /\ <<>> \in Names
    BY DEF Names
  <2> QED BY <2>1 DEF Nothing, Parts
<1>2. \A g \in [D -> Parts], x \in D : By(g, x) \in Parts
  <2> TAKE g \in [D -> Parts], x \in D
  <2>1. CASE x # <<>>
    <3>1. Seqs!Front(x) \in D
      BY <2>1, FrontFacts
    <3>2. PICK p \in Parts : p = g[Seqs!Front(x)]
      BY <3>1
    <3> QED BY <2>1, <3>2, ExtendFacts
  <2> QED BY <1>1, <2>1
<1>3. T \in [[D -> Parts] -> [D -> Parts]]
  BY <1>2
<1>4. ASSUME NEW g \in [D -> Parts], NEW h \in [D -> Parts], NEW x \in D,
             \A y \in D : y \in Shorter(Chars)[x] => g[y] = h[y]
      PROVE  T[g][x] = T[h][x]
  <2>1. By(g, x) = By(h, x)
    BY <1>4, FrontIsShorter
  <2>2. T[g][x] = By(g, x) /\ T[h][x] = By(h, x)
    BY <1>4
  <2> QED BY <2>1, <2>2
<1>5. PICK f \in [D -> Parts] : f = T[f]
  <2> HIDE DEF T
  <2>1. WellFounded(D, Parts, Shorter(Chars), T)
    BY <1>1, <1>3, <1>4, ShortestSequence DEF WellFounded
  <2> QED BY <2>1, RecursionHasSolution
<1>6. f = [x \in D |-> By(f, x)]
  BY <1>5
<1>7. Split = CHOOSE g : g = [x \in D |-> By(g, x)]
  BY DEF Split, Nothing
<1> HIDE DEF Split
<1>8. Split = [x \in D |-> By(Split, x)]
  BY <1>6, <1>7
<1>9. Split[s] = By(Split, s)
  BY <1>8
<1>10. Split[s] \in Parts
  <2> DEFINE B == {x \in D : Split[x] \notin Parts}
  <2> SUFFICES ASSUME B # {} PROVE FALSE
    OBVIOUS
  <2>1. PICK x \in B : \A y \in B : y \notin Shorter(Chars)[x]
    BY ShortestSequence
  <2>2. x \in D /\ Split[x] = By(Split, x) /\ x # <<>>
    BY <1>1, <1>8
  <2>3. Seqs!Front(x) \in D /\ Split[Seqs!Front(x)] \in Parts
    BY <2>1, <2>2, FrontIsShorter
  <2> QED BY <2>2, <2>3, ExtendFacts
<1> QED BY <1>9, <1>10

\* The alphabets.
LEMMA CharsFacts ==
  /\ Slash \in Chars /\ Dot \in Chars /\ NUL \notin Chars /\ Slash # Dot
  /\ \A f \in Names : f \in Seq(Chars) /\ \A i \in 1 .. Len(f) : f[i] # Slash
<1>1. ASSUME NEW f \in Names PROVE f \in Seq(Chars) /\ \A i \in 1 .. Len(f) : f[i] # Slash
  <2>1. f \in Seq(Chars \ {Slash})
    BY DEF Names
  <2>2. f \in Seq(Chars)
    BY <2>1, SeqMonotonic
  <2>3. \A i \in 1 .. Len(f) : f[i] \in Chars \ {Slash}
    BY <2>1
  <2> QED BY <2>2, <2>3
<1> QED BY <1>1, PathAssumption DEF Chars

\* Text satisfies its definition.
LEMMA TextUnfolds ==
  ASSUME NEW s \in Seq(Names)
  PROVE  /\ Text[s] \in Seq(Chars)
         /\ Text[s] = IF s = <<>> THEN <<>>
                      ELSE Text[Seqs!Front(s)] \o Seqs!Last(s) \o <<Slash>>
<1> DEFINE D == Seq(Names)
           R == Seq(Chars)
           By(g, x) == IF x = <<>> THEN <<>> ELSE g[Seqs!Front(x)] \o Seqs!Last(x) \o <<Slash>>
           T == [g \in [D -> R] |-> [x \in D |-> By(g, x)]]
<1>1. <<>> \in R /\ <<Slash>> \in R
  BY CharsFacts
<1>2. ASSUME NEW x \in D, x # <<>>, NEW t \in R PROVE t \o Seqs!Last(x) \o <<Slash>> \in R
  <2>1. PICK f \in Seq(Chars) : f = Seqs!Last(x)
    BY <1>2, FrontFacts, CharsFacts
  <2>2. t \o f \in Seq(Chars)
    BY ConcatProperties
  <2> QED BY <1>1, <2>1, <2>2, ConcatProperties
<1>3. \A g \in [D -> R], x \in D : By(g, x) \in R
  <2> TAKE g \in [D -> R], x \in D
  <2>1. CASE x # <<>>
    <3>1. Seqs!Front(x) \in D
      BY <2>1, FrontFacts
    <3>2. PICK t \in R : t = g[Seqs!Front(x)]
      BY <3>1
    <3> QED BY <1>2, <2>1, <3>2
  <2> QED BY <1>1, <2>1
<1>4. T \in [[D -> R] -> [D -> R]]
  BY <1>3
<1>5. ASSUME NEW g \in [D -> R], NEW h \in [D -> R], NEW x \in D,
             \A y \in D : y \in Shorter(Names)[x] => g[y] = h[y]
      PROVE  T[g][x] = T[h][x]
  <2>1. By(g, x) = By(h, x)
    BY <1>5, FrontIsShorter
  <2>2. T[g][x] = By(g, x) /\ T[h][x] = By(h, x)
    BY <1>5
  <2> QED BY <2>1, <2>2
<1>6. PICK f \in [D -> R] : f = T[f]
  <2> HIDE DEF T
  <2>1. WellFounded(D, R, Shorter(Names), T)
    BY <1>1, <1>4, <1>5, ShortestSequence DEF WellFounded
  <2> QED BY <2>1, RecursionHasSolution
<1>7. f = [x \in D |-> By(f, x)]
  BY <1>6
<1>8. Text = CHOOSE g : g = [x \in D |-> By(g, x)]
  BY DEF Text
<1> HIDE DEF Text
<1>9. Text = [x \in D |-> By(Text, x)]
  BY <1>7, <1>8
<1>10. Text[s] = By(Text, s)
  BY <1>9
<1>11. Text[s] \in R
  <2> DEFINE B == {x \in D : Text[x] \notin R}
  <2> SUFFICES ASSUME B # {} PROVE FALSE
    OBVIOUS
  <2>1. PICK x \in B : \A y \in B : y \notin Shorter(Names)[x]
    BY ShortestSequence
  <2>2. x \in D /\ Text[x] = By(Text, x) /\ x # <<>>
    BY <1>1, <1>9
  <2>3. Seqs!Front(x) \in D /\ Text[Seqs!Front(x)] \in R
    BY <2>1, <2>2, FrontIsShorter
  <2> QED BY <1>2, <2>2, <2>3
<1> QED BY <1>10, <1>11

\* The text ends with a slash.
LEMMA TextEnds ==
  ASSUME NEW fs \in Seq(Names), fs # <<>>
  PROVE  /\ Seqs!Front(fs) \in Seq(Names) /\ Seqs!Last(fs) \in Names
         /\ Text[Seqs!Front(fs)] \in Seq(Chars)
         /\ Text[fs] = Append(Text[Seqs!Front(fs)] \o Seqs!Last(fs), Slash)
<1>1. Seqs!Front(fs) \in Seq(Names) /\ Seqs!Last(fs) \in Names
  BY FrontFacts
<1>2. PICK t \in Seq(Chars) : t = Text[Seqs!Front(fs)]
  BY <1>1, TextUnfolds
<1>3. PICK f \in Names : f = Seqs!Last(fs)
  BY <1>1
<1>4. f \in Seq(Chars) /\ Slash \in Chars
  BY CharsFacts
<1>5. t \o f \in Seq(Chars)
  BY <1>4, ConcatProperties
<1>6. Append(t \o f, Slash) = (t \o f) \o <<Slash>>
  BY <1>4, <1>5, AppendIsConcat
<1> QED BY <1>1, <1>2, <1>3, <1>6, TextUnfolds

\* Either nothing is kept or it ends with a slash.
SlashEnds(t) == t = <<>> \/ t[Len(t)] = Slash

\* What is kept, for each kind of parts.
LEMMA KeptFacts ==
  ASSUME NEW r \in Parts
  PROVE  /\ Kept(r) \in Seq(Chars) /\ SlashEnds(Kept(r))
         /\ r.fields = <<>> => Kept(r) = r.root
         /\ r.fields # <<>> =>
              LET q == [r EXCEPT !.fields = Seqs!Front(r.fields)]
              IN  Kept(r) = Append(Kept(q) \o Seqs!Last(r.fields), Slash)
<1>1. r.root \in {<<>>, <<Slash>>} /\ r.fields \in Seq(Names) /\ Slash \in Chars
  BY PartsFacts, CharsFacts
<1>0. <<>> \in Seq(Chars) /\ <<Slash>> \in Seq(Chars)
  BY <1>1
<1>2. PICK z \in Seq(Chars) : z = r.root /\ (z = <<>> \/ z = <<Slash>>)
  BY <1>0, <1>1, Zenon
<1>3. CASE r.fields = <<>>
  <2>1. Text[r.fields] = <<>>
    BY <1>1, <1>3, TextUnfolds
  <2>2. Kept(r) = z
    BY <1>2, <2>1, ConcatEmptySeq DEF Kept
  <2>3. SlashEnds(z)
    BY <1>2 DEF SlashEnds
  <2> QED BY <1>2, <1>3, <2>2, <2>3
<1>4. CASE r.fields # <<>>
  <2> DEFINE q == [r EXCEPT !.fields = Seqs!Front(r.fields)]
  <2>1. PICK t \in Seq(Chars) : t = Text[Seqs!Front(r.fields)]
    BY <1>1, <1>4, TextEnds
  <2>2. PICK f \in Names : f = Seqs!Last(r.fields)
    BY <1>1, <1>4, TextEnds
  <2>3. f \in Seq(Chars)
    BY CharsFacts
  <2>4. Text[r.fields] = Append(t \o f, Slash)
    BY <1>1, <1>4, <2>1, <2>2, TextEnds
  <2>5. t \o f \in Seq(Chars) /\ z \o t \in Seq(Chars) /\ (z \o t) \o f \in Seq(Chars)
    BY <2>3, ConcatProperties
  <2>6. z \o Append(t \o f, Slash) = Append((z \o t) \o f, Slash)
    <3>1. PICK sl \in Seq(Chars) : sl = <<Slash>>
      BY <1>0, Zenon
    <3>2. Append(t \o f, Slash) = (t \o f) \o sl
          /\ Append((z \o t) \o f, Slash) = ((z \o t) \o f) \o sl
      BY <1>1, <2>5, <3>1, AppendIsConcat
    <3>3. PICK tf \in Seq(Chars) : tf = t \o f
      BY <2>5, Zenon
    <3>4. (z \o tf) \o sl = z \o (tf \o sl)
      BY ConcatAssociative
    <3>5. (z \o t) \o f = z \o (t \o f)
      BY <2>3, ConcatAssociative
    <3> QED BY <3>2, <3>3, <3>4, <3>5, Zenon
  <2>7. q.root = z /\ q.fields = Seqs!Front(r.fields)
    BY <1>2, PartsFacts DEF Parts
  <2>8. Kept(q) = z \o t
    BY <2>1, <2>7 DEF Kept
  <2>9. Kept(r) = Append((z \o t) \o f, Slash)
    BY <1>2, <2>4, <2>6 DEF Kept
  <2>10. PICK u \in Seq(Chars) : u = (z \o t) \o f
    BY <2>5
  <2>11. Append(u, Slash) \in Seq(Chars) /\ SlashEnds(Append(u, Slash))
    BY <1>1 DEF SlashEnds
  <2> QED BY <1>4, <2>2, <2>8, <2>9, <2>10, <2>11
<1> QED BY <1>3, <1>4

\* A complete field is kept with a slash behind it.
LEMMA KeptProper ==
  ASSUME NEW r \in Parts, Proper(r.field)
  PROVE  Kept(Keep(r)) = Append(Kept(r) \o r.field, Slash)
<1>1. r.root \in {<<>>, <<Slash>>} /\ r.fields \in Seq(Names) /\ r.field \in Names
  BY PartsFacts
<1>2. PICK k \in Parts : k = Keep(r) /\ k.root = r.root /\ k.fields = Append(r.fields, r.field)
  BY KeepFacts
<1>3. /\ k.fields # <<>> /\ Seqs!Front(k.fields) = r.fields /\ Seqs!Last(k.fields) = r.field
  BY <1>1, <1>2, FrontOfAppend
<1>4. PICK q : q = [k EXCEPT !.fields = r.fields]
  OBVIOUS
<1>5. Kept(q) = Kept(r)
  <2>1. q.root = r.root /\ q.fields = r.fields
    BY <1>2, <1>4 DEF Parts
  <2> QED BY <2>1 DEF Kept
<1> QED BY <1>2, <1>3, <1>4, <1>5, KeptFacts

\* An empty field, or one dot, leaves what is kept.
LEMMA KeptAsItIs ==
  ASSUME NEW r \in Parts, r.field \in {<<>>, <<Dot>>}
  PROVE  Kept(Keep(r)) = Kept(r)
BY KeepFacts DEF Kept

\* Two dots take a field and its slash away, or the leading slash.
LEMMA KeptDotDot ==
  ASSUME NEW r \in Parts, r.field = <<Dot, Dot>>
  PROVE  \/ Kept(r) = <<>> /\ Kept(Keep(r)) = <<>>
         \/ \E f \in Names : Kept(r) = Append(Kept(Keep(r)) \o f, Slash)
<1>1. r.root \in {<<>>, <<Slash>>} /\ r.fields \in Seq(Names) /\ <<>> \in Names
  BY PartsFacts DEF Names
<1>2. PICK k \in Parts : k = Keep(r)
  BY KeepFacts
<1>3. CASE r.fields = <<>>
  <2>1. k.root = <<>> /\ k.fields = <<>>
    BY <1>2, <1>3, KeepFacts
  <2>2. Kept(k) = <<>> /\ Kept(r) = r.root
    BY <1>3, <2>1, KeptFacts
  <2>3. Append(<<>> \o <<>>, Slash) = <<Slash>>
    OBVIOUS
  <2> QED BY <1>1, <1>2, <2>2, <2>3
<1>4. CASE r.fields # <<>>
  <2>1. k.root = r.root /\ k.fields = Seqs!Front(r.fields)
    BY <1>2, <1>4, KeepFacts
  <2>2. PICK q : q = [r EXCEPT !.fields = Seqs!Front(r.fields)]
    OBVIOUS
  <2>3. Kept(q) = Kept(k)
    <3>1. q.root = r.root /\ q.fields = Seqs!Front(r.fields)
      BY <2>2 DEF Parts
    <3> QED BY <2>1, <3>1 DEF Kept
  <2>4. Seqs!Last(r.fields) \in Names
    BY <1>1, <1>4, FrontFacts
  <2> QED BY <1>2, <1>4, <2>2, <2>3, <2>4, KeptFacts
<1> QED BY <1>3, <1>4

-----------------------------------------------------------------------------
(* The state machine against the reference: one lemma per kind of turn.    *)

\* What has been written, in state st with n characters read of which r is known, and ch to
\* be read next: the fields kept, and the current one unless it may still be dropped.
Reading(r, st, ch, n, out) ==
  /\ out = Kept(r) \o (IF st \in {"IN_FIELD", "SEP"} THEN r.field ELSE <<>>)
  /\ st = "INITIAL" => n = 0
  /\ st = "SEEN_SEP" => n > 0
  /\ st \in {"INITIAL", "FIELD_START", "SEEN_SEP", "DOT"} => r.field = <<>>
  /\ st = "FIELD_START" => ch # Slash
  /\ st = "IN_FIELD" => \/ Proper(r.field)
                        \/ ch \notin {Slash, NUL} /\ Proper(Append(r.field, ch))
  /\ st = "SEP" => ch = Slash /\ (n = 0 \/ Proper(r.field))
  /\ st \in {"DOT", "DOTDOT"} => ch = Dot
  /\ st \in {"SEEN_DOT", "DOTDOT"} => r.field = <<Dot>>
  /\ st = "SEEN_DOTDOT" => r.field = <<Dot, Dot>>

\* What has been written when the string is read: all that is kept, or all but the last slash.
ReadAll(t, out) ==
  \/ out = t
  \/ out # <<>> /\ out[Len(out)] # Slash /\ t = Append(out, Slash)

\* The inductive invariant.
NormInv ==
  /\ ~done => /\ ~returned
              /\ Reading(Split[UpTo(given, pos)], state, c, pos, UpTo(path, outpos))
  /\ done /\ ~returned => ReadAll(Kept(Keep(Split[UpTo(given, len)])), UpTo(path, outpos))
  /\ returned => NormalizedIsReference

\* r is known of n characters, and q of these and ch.
Consumes(r, n, ch, q) ==
  /\ r \in Parts /\ q \in Parts /\ n \in Nat /\ ch \in Chars
  /\ n = 0 => r.field = <<>> /\ Kept(r) = <<>>
  /\ ch # Slash => Kept(q) = Kept(r) /\ q.field = Append(r.field, ch)
  /\ ch = Slash /\ n # 0 => q = Keep(r)
  /\ ch = Slash /\ n = 0 => q.field = <<>> /\ Kept(q) = <<Slash>>

\* A turn that only changes the state.
LEMMA TurnGoto ==
  ASSUME NEW r \in Parts, NEW st, NEW ch, NEW n, NEW out, Reading(r, st, ch, n, out), NEW to,
         \/ st = "INITIAL" /\ ch = Slash /\ to = "SEP"
         \/ st \in {"INITIAL", "FIELD_START"} /\ ch = Dot /\ to = "DOT"
         \/ st = "INITIAL" /\ ch \notin {Slash, Dot} /\ to = "FIELD_START"
         \/ st = "FIELD_START" /\ ch \notin {Dot, NUL} /\ to = "IN_FIELD"
         \/ st = "IN_FIELD" /\ ch = Slash /\ to = "SEP"
         \/ st = "SEEN_SEP" /\ ch \notin {Slash, NUL} /\ to = "FIELD_START"
         \/ st = "SEEN_DOT" /\ ch = Dot /\ to = "DOTDOT"
  PROVE  Reading(r, to, ch, n, out)
<1>1. ASSUME st = "FIELD_START", ch \notin {Dot, NUL}, to = "IN_FIELD"
      PROVE  Reading(r, to, ch, n, out)
  <2>1. r.field = <<>> /\ ch # Slash /\ out = Kept(r) \o <<>>
    BY <1>1 DEF Reading
  <2>2. Append(<<>>, ch) = <<ch>> /\ <<ch>> # <<>> /\ <<ch>> # <<Dot>> /\ <<ch>> # <<Dot, Dot>>
    BY <1>1
  <2>3. Proper(Append(r.field, ch))
    BY <2>1, <2>2 DEF Proper
  <2> QED BY <1>1, <2>1, <2>3 DEF Reading
<1>2. ASSUME st = "INITIAL", ch = Slash, to = "SEP" PROVE Reading(r, to, ch, n, out)
  BY <1>2 DEF Reading
<1>3. ASSUME st \in {"INITIAL", "FIELD_START"}, ch = Dot, to = "DOT"
      PROVE  Reading(r, to, ch, n, out)
  BY <1>3 DEF Reading
<1>4. ASSUME st = "INITIAL", ch \notin {Slash, Dot}, to = "FIELD_START"
      PROVE  Reading(r, to, ch, n, out)
  BY <1>4 DEF Reading
<1>5. ASSUME st = "IN_FIELD", ch = Slash, to = "SEP" PROVE Reading(r, to, ch, n, out)
  BY <1>5 DEF Reading
<1>6. ASSUME st = "SEEN_SEP", ch \notin {Slash, NUL}, to = "FIELD_START"
      PROVE  Reading(r, to, ch, n, out)
  BY <1>6 DEF Reading
<1>7. ASSUME st = "SEEN_DOT", ch = Dot, to = "DOTDOT" PROVE Reading(r, to, ch, n, out)
  BY <1>7 DEF Reading
<1> QED BY <1>1, <1>2, <1>3, <1>4, <1>5, <1>6, <1>7

\* A turn that consumes a character and writes none.
LEMMA TurnEat ==
  ASSUME NEW r, NEW st, NEW ch, NEW n, NEW out, Reading(r, st, ch, n, out),
         NEW q, Consumes(r, n, ch, q), NEW to, NEW next,
         \/ st \in {"SEEN_SEP", "SEEN_DOT"} /\ ch = Slash /\ to = "SEEN_SEP"
         \/ st = "DOT" /\ to = "SEEN_DOT"
         \/ st = "DOTDOT" /\ to = "SEEN_DOTDOT"
  PROVE  Reading(q, to, next, n + 1, out)
<1>0. n + 1 > 0 /\ r \in Parts /\ n \in Nat
  BY DEF Consumes
<1>1. CASE st \in {"SEEN_SEP", "SEEN_DOT"} /\ ch = Slash /\ to = "SEEN_SEP"
  <2>1. r.field \in {<<>>, <<Dot>>} /\ out = Kept(r) \o <<>>
    BY <1>1 DEF Reading
  <2>2. n # 0
    <3>1. CASE st = "SEEN_SEP"
      BY <3>1 DEF Reading
    <3>2. CASE st = "SEEN_DOT"
      <4>1. r.field = <<Dot>> /\ <<Dot>> # <<>>
        BY <3>2 DEF Reading
      <4>2. n = 0 => r.field = <<>>
        BY DEF Consumes
      <4> QED BY <4>1, <4>2
    <3> QED BY <1>1, <3>1, <3>2
  <2>3. q = Keep(r)
    BY <1>1, <2>2 DEF Consumes
  <2>4. Kept(q) = Kept(r) /\ q.field = <<>>
    BY <1>0, <2>1, <2>3, KeptAsItIs, KeepFacts
  <2> QED BY <1>0, <1>1, <2>1, <2>4 DEF Reading
<1>2. CASE st = "DOT" /\ to = "SEEN_DOT"
  <2>1. r.field = <<>> /\ ch = Dot /\ out = Kept(r) \o <<>>
    BY <1>2 DEF Reading
  <2>2. Kept(q) = Kept(r) /\ q.field = <<Dot>>
    BY <2>1, CharsFacts DEF Consumes
  <2> QED BY <1>2, <2>1, <2>2 DEF Reading
<1>3. CASE st = "DOTDOT" /\ to = "SEEN_DOTDOT"
  <2>1. r.field = <<Dot>> /\ ch = Dot /\ out = Kept(r) \o <<>>
    BY <1>3 DEF Reading
  <2>2. Kept(q) = Kept(r) /\ q.field = <<Dot, Dot>>
    BY <2>1, CharsFacts DEF Consumes
  <2> QED BY <1>3, <2>1, <2>2 DEF Reading
<1> QED BY <1>1, <1>2, <1>3

\* Writing at the end.
LEMMA AppendConcat ==
  ASSUME NEW S, NEW s \in Seq(S), NEW t \in Seq(S), NEW x \in S
  PROVE  s \o Append(t, x) = Append(s \o t, x)
<1>0. <<x>> \in Seq(S)
  OBVIOUS
<1>1. PICK u \in Seq(S) : u = <<x>>
  BY <1>0, Zenon
<1>2. s \o t \in Seq(S)
  BY ConcatProperties
<1>3. Append(t, x) = t \o u /\ Append(s \o t, x) = (s \o t) \o u
  BY <1>1, <1>2, AppendIsConcat
<1>4. (s \o t) \o u = s \o (t \o u)
  BY ConcatAssociative
<1> QED BY <1>3, <1>4

\* A turn that writes a character.
LEMMA TurnWrite ==
  ASSUME NEW r, NEW st, NEW ch, NEW n, NEW out, Reading(r, st, ch, n, out),
         NEW q, Consumes(r, n, ch, q), NEW to, NEW next,
         \/ st = "IN_FIELD" /\ ch # Slash /\ to = "IN_FIELD"
         \/ st = "SEP" /\ to = "SEEN_SEP"
  PROVE  Reading(q, to, next, n + 1, Append(out, ch))
<1>0. n + 1 > 0 /\ r \in Parts /\ n \in Nat /\ ch \in Chars /\ out = Kept(r) \o r.field
  BY DEF Consumes, Reading
<1>1. r.field \in Names /\ r.field \in Seq(Chars) /\ Kept(r) \in Seq(Chars)
  BY <1>0, PartsFacts, CharsFacts, KeptFacts
<1>2. CASE st = "IN_FIELD" /\ ch # Slash /\ to = "IN_FIELD"
  <2>1. PICK f \in Seq(Chars) : f = r.field
    BY <1>1
  <2>2. Kept(q) = Kept(r) /\ q.field = Append(f, ch)
    BY <1>2, <2>1 DEF Consumes
  <2>3. Append(out, ch) = Kept(q) \o q.field
    <3>1. PICK k \in Seq(Chars) : k = Kept(r)
      BY <1>1
    <3>2. k \o Append(f, ch) = Append(k \o f, ch)
      BY <1>0, AppendConcat
    <3> QED BY <1>0, <2>1, <2>2, <3>1, <3>2
  <2>4. Proper(q.field)
    <3>1. CASE Proper(Append(f, ch))
      BY <2>2, <3>1
    <3>2. CASE Proper(f)
      <4>1. Len(Append(f, ch)) = Len(f) + 1 /\ Len(f) \in Nat
            /\ \A i \in 1 .. Len(f) : Append(f, ch)[i] = f[i]
        BY <1>0
      <4>2. Append(f, ch) # <<>>
        BY <4>1
      <4>3. Append(f, ch) # <<Dot>>
        <5> SUFFICES ASSUME Append(f, ch) = <<Dot>> PROVE FALSE
          OBVIOUS
        <5>1. Len(f) = 0
          BY <4>1
        <5>2. f = <<>>
          BY <5>1
        <5> QED BY <3>2, <5>2 DEF Proper
      <4>4. Append(f, ch) # <<Dot, Dot>>
        <5> SUFFICES ASSUME Append(f, ch) = <<Dot, Dot>> PROVE FALSE
          OBVIOUS
        <5>0. Len(Append(f, ch)) = 2 /\ Append(f, ch)[1] = Dot
          OBVIOUS
        <5>1. Len(f) = 1 /\ 1 \in 1 .. Len(f)
          <6>1. PICK l \in Nat : l = Len(f) /\ l + 1 = 2
            BY <4>1, <5>0
          <6>2. l = 1
            BY ONLY l \in Nat, <6>1
          <6> QED BY <6>1, <6>2
        <5>3. f[1] = Dot
          BY <4>1, <5>0, <5>1
        <5>2. f = <<Dot>>
          BY <5>1, <5>3
        <5> QED BY <3>2, <5>2 DEF Proper
      <4> QED BY <2>2, <4>2, <4>3, <4>4 DEF Proper
    <3> QED BY <1>2, <2>1, <3>1, <3>2 DEF Reading
  <2> QED BY <1>2, <2>3, <2>4 DEF Reading
<1>3. CASE st = "SEP" /\ to = "SEEN_SEP"
  <2>1. ch = Slash /\ (n = 0 \/ Proper(r.field))
    BY <1>3 DEF Reading
  <2>2. Kept(q) = Append(out, Slash) /\ q.field = <<>>
    <3>1. CASE n = 0
      <4>1. out = <<>> /\ Kept(q) = <<Slash>> /\ q.field = <<>>
        BY <1>0, <2>1, <3>1 DEF Consumes
      <4> QED BY <4>1
    <3>2. CASE n # 0
      <4>1. q = Keep(r) /\ Proper(r.field)
        BY <2>1, <3>2 DEF Consumes
      <4> QED BY <1>0, <4>1, KeptProper, KeepFacts
    <3> QED BY <3>1, <3>2
  <2>3. Kept(q) \in Seq(Chars)
    BY KeptFacts DEF Consumes
  <2>4. Kept(q) \o <<>> = Append(out, ch)
    BY <2>1, <2>2, <2>3, ConcatEmptySeq
  <2> QED BY <1>0, <1>3, <2>2, <2>4 DEF Reading
<1> QED BY <1>2, <1>3

\* A turn that writes the dots that were held back.
LEMMA TurnDots ==
  ASSUME NEW r \in Parts, NEW st, NEW ch, NEW n, NEW out, Reading(r, st, ch, n, out), NEW new,
         ch \in Chars \ {Slash},
         \/ st = "SEEN_DOT" /\ ch # Dot /\ new = Append(out, Dot)
         \/ st = "SEEN_DOTDOT" /\ new = Append(Append(out, Dot), Dot)
  PROVE  Reading(r, "IN_FIELD", ch, n, new)
<1>1. Kept(r) \in Seq(Chars) /\ Dot \in Chars
  BY KeptFacts, CharsFacts
<1>2. PICK k \in Seq(Chars) : k = Kept(r)
  BY <1>1
<1>a. <<Dot>> \in Seq(Chars) /\ <<Dot, Dot>> \in Seq(Chars)
  BY <1>1
<1>b. ch \notin {Slash, NUL}
  BY CharsFacts
<1>3. CASE st = "SEEN_DOT" /\ ch # Dot /\ new = Append(out, Dot)
  <2>1. r.field = <<Dot>> /\ out = k \o <<>>
    BY <1>2, <1>3 DEF Reading
  <2>2. new = k \o <<Dot>>
    BY <1>1, <1>3, <2>1
  <2>3. PICK f \in Seq(Chars) : f = <<Dot>>
    BY <1>1, <1>a, Zenon
  <2>4. Len(Append(f, ch)) = 2 /\ Append(f, ch)[2] = ch
    BY <2>3
  <2>5. Append(f, ch) # <<>> /\ Append(f, ch) # <<Dot>> /\ Append(f, ch) # <<Dot, Dot>>
    <3>1. Len(<<>>) = 0 /\ Len(<<Dot>>) = 1 /\ <<Dot, Dot>>[2] = Dot
      OBVIOUS
    <3>2. PICK g : g = Append(f, ch) /\ Len(g) = 2 /\ g[2] = ch
      BY <2>4
    <3>3. ch # Dot
      BY <1>3
    <3>4. g # <<>>
      BY <3>1, <3>2
    <3>5. g # <<Dot>>
      BY <3>1, <3>2
    <3>6. ASSUME g = <<Dot, Dot>> PROVE FALSE
      <4>1. g[2] = Dot
        BY ONLY <3>1, <3>6, Zenon
      <4> QED BY ONLY <3>2, <3>3, <4>1, Zenon
    <3> QED BY <3>2, <3>4, <3>5, <3>6
  <2>6. Proper(Append(r.field, ch))
    BY <2>1, <2>3, <2>5 DEF Proper
  <2> QED BY <1>2, <1>b, <2>1, <2>2, <2>6 DEF Reading
<1>4. CASE st = "SEEN_DOTDOT" /\ new = Append(Append(out, Dot), Dot)
  <2>1. r.field = <<Dot, Dot>> /\ out = k \o <<>>
    BY <1>2, <1>4 DEF Reading
  <2>2. new = k \o <<Dot, Dot>>
    BY <1>1, <1>4, <2>1
  <2>3. PICK f \in Seq(Chars) : f = <<Dot, Dot>>
    BY <1>1, <1>a, Zenon
  <2>4. Len(Append(f, ch)) = 3
    BY <2>3
  <2>5. Append(f, ch) # <<>> /\ Append(f, ch) # <<Dot>> /\ Append(f, ch) # <<Dot, Dot>>
    BY <2>4
  <2>6. Proper(Append(r.field, ch))
    BY <2>1, <2>3, <2>5 DEF Proper
  <2> QED BY <1>2, <1>b, <2>1, <2>2, <2>6 DEF Reading
<1> QED BY <1>3, <1>4

\* The loop ends where the string does.
LEMMA TurnStop ==
  ASSUME NEW r \in Parts, NEW st, NEW n, NEW out, Reading(r, st, NUL, n, out),
         st \in {"FIELD_START", "IN_FIELD", "SEEN_SEP", "SEEN_DOT"}
  PROVE  ReadAll(Kept(Keep(r)), out)
<1>1. Kept(r) \in Seq(Chars) /\ r.field \in Names /\ r.field \in Seq(Chars)
  BY KeptFacts, PartsFacts, CharsFacts
<1>2. CASE st = "IN_FIELD"
  <2>1. Proper(r.field) /\ out = Kept(r) \o r.field
    BY <1>2 DEF Reading
  <2>2. Kept(Keep(r)) = Append(out, Slash)
    BY <2>1, KeptProper
  <2>3. PICK k \in Seq(Chars), f \in Seq(Chars) : k = Kept(r) /\ f = r.field
    BY <1>1
  <2>4. f # <<>> /\ \A i \in 1 .. Len(f) : f[i] # Slash
    BY <1>1, <2>1, <2>3, CharsFacts DEF Proper
  <2>5. Len(f) \in Nat \ {0} /\ Len(k) \in Nat
    BY <2>4
  <2>6. /\ k \o f \in Seq(Chars) /\ Len(k \o f) = Len(k) + Len(f)
        /\ (k \o f)[Len(k) + Len(f)] = f[Len(f)]
    BY <2>5
  <2>7. k \o f # <<>>
    BY <2>5, <2>6
  <2> QED BY <2>1, <2>2, <2>3, <2>4, <2>5, <2>6, <2>7 DEF ReadAll
<1>3. CASE st # "IN_FIELD"
  <2>1. r.field \in {<<>>, <<Dot>>} /\ out = Kept(r) \o <<>>
    BY <1>3 DEF Reading
  <2>2. out = Kept(Keep(r))
    BY <1>1, <2>1, KeptAsItIs, ConcatEmptySeq
  <2> QED BY <2>2 DEF ReadAll
<1> QED BY <1>2, <1>3

-----------------------------------------------------------------------------
(* The array holds what the lemmas speak of.                               *)

\* The first n elements of an array.
Holds(S, a, n) == n \in Nat /\ \A i \in 0 .. n - 1 : a[i] \in S

\* An array as a sequence.
LEMMA UpToFacts ==
  ASSUME NEW S, NEW n, NEW a, Holds(S, a, n)
  PROVE  /\ UpTo(a, n) \in Seq(S) /\ Len(UpTo(a, n)) = n
         /\ \A i \in 1 .. n : UpTo(a, n)[i] = a[i - 1]
<1> USE DEF Holds
<1>1. \A i \in 1 .. n : i - 1 \in 0 .. n - 1
  OBVIOUS
<1>2. UpTo(a, n) \in [1 .. n -> S]
  BY <1>1 DEF UpTo
<1>3. UpTo(a, n) \in Seq(S) /\ Len(UpTo(a, n)) = n
  BY <1>2, SeqDef, LenProperties
<1> QED BY <1>3 DEF UpTo

\* One element more.
LEMMA UpToNext ==
  ASSUME NEW S, NEW n, NEW a, Holds(S, a, n), NEW x \in S,
         NEW b, b[n] = x, \A i \in 0 .. n - 1 : b[i] = a[i]
  PROVE  UpTo(b, n + 1) = Append(UpTo(a, n), x)
<1>1. PICK s \in Seq(S) : s = UpTo(a, n) /\ Len(s) = n /\ \A i \in 1 .. n : s[i] = a[i - 1]
  BY UpToFacts
<1>2. Holds(S, b, n + 1) /\ n \in Nat
  <2>1. n \in Nat /\ \A i \in 0 .. n - 1 : b[i] \in S
    BY DEF Holds
  <2>2. \A i \in 0 .. (n + 1) - 1 : i \in 0 .. n - 1 \/ i = n
    BY <2>1
  <2> QED BY <2>1, <2>2 DEF Holds
<1>3. PICK t \in Seq(S) : /\ t = UpTo(b, n + 1) /\ Len(t) = n + 1
                          /\ \A i \in 1 .. n + 1 : t[i] = b[i - 1]
  BY <1>2, UpToFacts
<1>4. \A i \in 1 .. n : t[i] = s[i]
  <2> TAKE i \in 1 .. n
  <2>1. i \in 1 .. n + 1 /\ i - 1 \in 0 .. n - 1
    BY <1>2
  <2> QED BY <1>1, <1>3, <2>1
<1>5. t[n + 1] = x
  <2>1. n + 1 \in 1 .. n + 1 /\ (n + 1) - 1 = n
    BY <1>2
  <2> QED BY <1>3, <2>1
<1>6. t = Append(s, x)
  BY <1>1, <1>2, <1>3, <1>4, <1>5
<1> QED BY <1>1, <1>3, <1>6

\* p is where Backtrack() goes to, in an array of which n elements are written.
BackTo(a, n, p) ==
  /\ p \in 0 .. n - 1
  /\ p > 0 => a[p - 1] = Slash
  /\ \A i \in p + 1 .. n - 1 : a[i - 1] # Slash

\* The walk back over the separator and the field in front of it stops where the field begins.
LEMMA WalkBack ==
  ASSUME NEW k \in Seq(Chars), SlashEnds(k), NEW f \in Names, NEW a, NEW n \in Nat,
         NEW S, Holds(S, a, n),
         UpTo(a, n) = Append(k \o f, Slash), NEW p, BackTo(a, n, p)
  PROVE  UpTo(a, p) = k
<1>0. /\ p \in 0 .. n - 1
      /\ p > 0 => a[p - 1] = Slash
      /\ \A i \in p + 1 .. n - 1 : a[i - 1] # Slash
  BY DEF BackTo
<1>1. f \in Seq(Chars) /\ \A i \in 1 .. Len(f) : f[i] # Slash
  BY CharsFacts
<1>2. PICK u \in Seq(S) : u = UpTo(a, n) /\ Len(u) = n /\ \A i \in 1 .. n : u[i] = a[i - 1]
  BY UpToFacts
<1>3. PICK m \in Nat, l \in Nat : m = Len(k) /\ l = Len(f)
  BY <1>1
<1>4. PICK kf \in Seq(Chars) : /\ kf = k \o f /\ Len(kf) = m + l
                               /\ \A i \in 1 .. m : kf[i] = k[i]
                               /\ \A i \in 1 .. l : kf[m + i] = f[i]
  <2>1. k \o f \in Seq(Chars) /\ Len(k \o f) = m + l
    BY <1>1, <1>3, ConcatProperties
  <2>2. \A i \in 1 .. m : (k \o f)[i] = k[i]
    BY <1>1, <1>3
  <2>3. \A i \in 1 .. l : (k \o f)[m + i] = f[i]
    BY <1>1, <1>3
  <2> QED BY <2>1, <2>2, <2>3
<1>5. Slash \in Chars
  BY CharsFacts
<1>6. Len(Append(kf, Slash)) = m + l + 1 /\ \A i \in 1 .. m + l : Append(kf, Slash)[i] = kf[i]
  BY <1>4, <1>5
<1>7. n = m + l + 1 /\ \A i \in 1 .. m + l : a[i - 1] = kf[i]
  BY <1>2, <1>4, <1>6
<1> USE <1>0
<1>8. ~(p > m)
  <2> SUFFICES ASSUME p > m PROVE FALSE
    OBVIOUS
  <2>1. PICK i \in 1 .. l : p = m + i
    <3>1. p - m \in 1 .. l /\ p = m + (p - m)
      BY <1>7
    <3> QED BY <3>1
  <2>2. a[p - 1] = f[i]
    <3>1. p \in 1 .. m + l
      BY <2>1
    <3> QED BY <1>4, <1>7, <2>1, <3>1
  <2>3. f[i] # Slash
    BY <1>1, <1>3
  <2> QED BY <2>2, <2>3
<1>9. ~(p < m)
  <2> SUFFICES ASSUME p < m PROVE FALSE
    OBVIOUS
  <2>1. m \in p + 1 .. n - 1 /\ m \in 1 .. m + l /\ m \in 1 .. m /\ m # 0
    BY <1>7
  <2>2. a[m - 1] = k[m]
    BY <1>4, <1>7, <2>1
  <2>3. k[m] = Slash
    BY <1>3, <2>1 DEF SlashEnds
  <2> QED BY <2>1, <2>2, <2>3
<1>10. p = m
  BY <1>8, <1>9
<1>11. \A i \in 0 .. p - 1 : a[i] \in Chars
  <2> TAKE i \in 0 .. p - 1
  <2>1. i + 1 \in 1 .. m + l /\ i + 1 \in 1 .. m /\ (i + 1) - 1 = i
    BY <1>10
  <2>2. a[i] = kf[i + 1]
    BY <1>7, <2>1
  <2>3. kf[i + 1] \in Chars
    BY <1>4, <2>1
  <2> QED BY <2>2, <2>3
<1>12. PICK t \in Seq(Chars) : /\ t = UpTo(a, p) /\ Len(t) = p
                               /\ \A i \in 1 .. p : t[i] = a[i - 1]
  <2>1. Holds(Chars, a, p)
    BY <1>10, <1>11 DEF Holds
  <2> QED BY <2>1, UpToFacts
<1>13. \A i \in 1 .. m : t[i] = k[i]
  <2> TAKE i \in 1 .. m
  <2>1. i \in 1 .. p /\ i \in 1 .. m + l
    BY <1>10
  <2> QED BY <1>4, <1>7, <1>12, <2>1
<1>14. t = k
  BY <1>3, <1>10, <1>12, <1>13
<1> QED BY <1>12, <1>14

\* What the string read so far gives, and one character more.
LEMMA AtHand ==
  ASSUME InPlace, ~done
  PROVE  /\ Split[UpTo(given, pos)] \in Parts
         /\ c \in Chars \cup {NUL} /\ NUL \notin Chars
         /\ c = NUL => pos = len
         /\ c # NUL => Consumes(Split[UpTo(given, pos)], pos, c, Split[UpTo(given, pos + 1)])
<1>1. /\ pos \in Nat /\ len \in Nat /\ pos <= len /\ given \in [0 .. len - 1 -> Chars]
      /\ path[pos] = IF pos = len THEN NUL ELSE given[pos]
  BY DEF InPlace
<1>2. c \in Chars \cup {NUL} /\ (c # NUL => pos < len) /\ (c = NUL => pos = len)
  BY AtPos
<1>0. Holds(Chars, given, pos)
  BY <1>1 DEF Holds
<1>3. PICK s \in Seq(Chars) : s = UpTo(given, pos) /\ Len(s) = pos
  BY <1>0, UpToFacts
<1>4. PICK r \in Parts : r = Split[s]
  BY SplitUnfolds
<1>5. NUL \notin Chars /\ Slash \in Chars
  BY CharsFacts
<1>6. ASSUME c # NUL PROVE Consumes(r, pos, c, Split[UpTo(given, pos + 1)])
  <2>1. pos < len /\ c = given[pos] /\ c \in Chars
    BY <1>1, <1>2, <1>6 DEF c
  <2>2. PICK ch \in Chars : ch = c
    BY <2>1
  <2>3. UpTo(given, pos + 1) = Append(s, ch)
    <3>1. PICK g : g = given
      OBVIOUS
    <3>2. Holds(Chars, g, pos) /\ g[pos] = ch
      BY <1>0, <2>1, <2>2, <3>1
    <3>3. UpTo(g, pos + 1) = Append(UpTo(g, pos), ch)
      BY <3>2, UpToNext
    <3> QED BY <1>3, <3>1, <3>3
  <2>4. PICK t \in Seq(Chars) : /\ t = Append(s, ch) /\ t # <<>> /\ Len(t) = pos + 1
                                /\ Seqs!Front(t) = s /\ Seqs!Last(t) = ch
    <3>1. Len(Append(s, ch)) = Len(s) + 1
      OBVIOUS
    <3> QED BY <1>3, <3>1, FrontOfAppend
  <2>5. PICK q \in Parts : q = Split[t] /\ q = Extend(r, t)
    BY <1>4, <2>4, SplitUnfolds
  <2>6. pos = 0 => r.root = <<>> /\ r.fields = <<>> /\ r.field = <<>>
    <3> HAVE pos = 0
    <3>1. s = <<>>
      BY <1>3
    <3>2. r = Nothing
      BY <1>4, <3>1, SplitUnfolds
    <3> QED BY <3>2 DEF Nothing
  <2>7. pos = 0 => r.field = <<>> /\ Kept(r) = <<>>
    BY <2>6, KeptFacts
  <2>8. ch # Slash => Kept(q) = Kept(r) /\ q.field = Append(r.field, ch)
    <3> HAVE ch # Slash
    <3>1. t # <<Slash>>
      <4>1. t[Len(t)] = ch
        BY <2>4 DEF Seqs!Last
      <4>2. Len(<<Slash>>) = 1 /\ <<Slash>>[1] = Slash
        OBVIOUS
      <4> QED BY <4>1, <4>2
    <3>2. q = [r EXCEPT !.field = Append(@, ch)]
      BY <2>4, <2>5, <3>1 DEF Extend
    <3>3. q.root = r.root /\ q.fields = r.fields /\ q.field = Append(r.field, ch)
      BY <3>2 DEF Parts
    <3> QED BY <3>3 DEF Kept
  <2>9. ch = Slash /\ pos # 0 => q = Keep(r)
    <3> HAVE ch = Slash /\ pos # 0
    <3>1. t # <<Slash>>
      BY <1>1, <2>4
    <3> QED BY <2>4, <2>5, <3>1 DEF Extend
  <2>10. ch = Slash /\ pos = 0 => q.field = <<>> /\ Kept(q) = <<Slash>>
    <3> HAVE ch = Slash /\ pos = 0
    <3>1. t = <<Slash>>
      <4>1. s = <<>>
        BY <1>3
      <4> QED BY <2>4, <4>1
    <3>2. q = [r EXCEPT !.root = t]
      BY <2>4, <2>5, <3>1 DEF Extend
    <3>3. q.root = <<Slash>> /\ q.fields = <<>> /\ q.field = <<>>
      BY <2>6, <3>1, <3>2 DEF Parts
    <3> QED BY <3>3, KeptFacts
  <2>11. Consumes(r, pos, ch, q)
    BY <1>1, <2>7, <2>8, <2>9, <2>10 DEF Consumes
  <2> QED BY <2>2, <2>3, <2>4, <2>5, <2>11
<1> QED BY <1>2, <1>3, <1>4, <1>5, <1>6

\* Two dots between slashes drop the field written last.
LEMMA TurnBack ==
  ASSUME InPlace, ~done, NEW r \in Parts, NEW ch, NEW n,
         Reading(r, "SEEN_DOTDOT", ch, n, UpTo(path, outpos)), NEW p, Backtrack(p)
  PROVE  UpTo(path, p) = Kept(Keep(r))
<1>1. /\ outpos \in Nat /\ len \in Nat /\ outpos <= len
      /\ path \in [0 .. len -> Chars \cup {NUL}]
  BY DEF InPlace, Pending
<1>2. Holds(Chars \cup {NUL}, path, outpos)
  BY <1>1 DEF Holds
<1>3. Len(UpTo(path, outpos)) = outpos
  BY <1>2, UpToFacts
<1>4. r.field = <<Dot, Dot>> /\ UpTo(path, outpos) = Kept(r) \o <<>>
  BY DEF Reading
<1>5. Kept(r) \in Seq(Chars) /\ Keep(r) \in Parts
  BY KeptFacts, KeepFacts
<1>6. UpTo(path, outpos) = Kept(r)
  BY <1>4, <1>5, ConcatEmptySeq
<1>7. PICK k \in Seq(Chars) : k = Kept(Keep(r)) /\ SlashEnds(k)
  BY <1>5, KeptFacts
<1>8. CASE Kept(r) = <<>> /\ k = <<>>
  <2>1. outpos = 0
    BY <1>3, <1>6, <1>8
  <2>2. p = 0
    BY <2>1 DEF Backtrack
  <2> QED BY <1>6, <1>7, <1>8, <2>1, <2>2
<1>9. CASE \E f \in Names : Kept(r) = Append(k \o f, Slash)
  <2>1. PICK f \in Names : Kept(r) = Append(k \o f, Slash)
    BY <1>9
  <2>2. PICK kf \in Seq(Chars) : kf = k \o f
    BY CharsFacts, ConcatProperties
  <2>3. Len(Append(kf, Slash)) # 0
    BY CharsFacts
  <2>4. outpos # 0
    BY <1>3, <1>6, <2>1, <2>2, <2>3
  <2>5. /\ p \in 0 .. outpos - 1 /\ (p > 0 => path[p - 1] = Slash)
        /\ \A i \in p + 1 .. outpos - 1 : path[i - 1] # Slash
    BY <2>4 DEF Backtrack
  <2>6. PICK a, m : a = path /\ m = outpos /\ m \in Nat
    BY <1>1
  <2>7. UpTo(a, p) = k
    <3>1. PICK S : S = Chars \cup {NUL}
      OBVIOUS
    <3>2. Holds(S, a, m) /\ UpTo(a, m) = Append(k \o f, Slash)
      BY <1>2, <1>6, <2>1, <2>6, <3>1
    <3>3. BackTo(a, m, p) /\ m \in Nat
      BY <2>5, <2>6 DEF BackTo
    <3>4. k \in Seq(Chars) /\ SlashEnds(k) /\ f \in Names
      BY <1>7
    <3> QED BY ONLY <3>2, <3>3, <3>4, WalkBack
  <2> QED BY <1>7, <2>6, <2>7
<1> QED BY <1>5, <1>7, <1>8, <1>9, <1>4, KeptDotDot

\* Every turn of the loop goes on as NormInv says.
LEMMA TurnKeeps ==
  ASSUME InPlace, InPlace', NormInv, Turn
  PROVE  NormInv'
<1> DEFINE r == Split[UpTo(given, pos)]
           q == Split[UpTo(given, pos + 1)]
           out == UpTo(path, outpos)
<1>1. ~done /\ ~returned /\ UNCHANGED <<given, len, returned>>
  BY DEF Turn, NormInv
<1>2. Reading(r, state, c, pos, out)
  BY <1>1 DEF NormInv
<1>3. /\ r \in Parts /\ c \in Chars \cup {NUL} /\ NUL \notin Chars
      /\ c = NUL => pos = len
      /\ c # NUL => Consumes(r, pos, c, q)
  BY <1>1, AtHand
<1>4. /\ outpos \in Nat /\ pos \in Nat /\ len \in Nat /\ outpos + Pending <= pos /\ pos <= len
      /\ path \in [0 .. len -> Chars \cup {NUL}]
  BY <1>1 DEF InPlace
<1>5. outpos <= len /\ Pending \in Nat
  BY <1>4 DEF Pending
<1>6. Holds(Chars \cup {NUL}, path, outpos)
  BY <1>4, <1>5 DEF Holds
<1> HIDE DEF r, q, out
<1>7. ASSUME NEW to, Goto(to), Reading(r, to, c, pos, out) PROVE NormInv'
  <2>1. state' = to /\ UNCHANGED <<path, pos, outpos, done>> /\ c' = c
    BY <1>7 DEF Goto, c
  <2> QED BY <1>1, <1>7, <2>1 DEF NormInv, r, out
<1>8. ASSUME done', pos = len, ReadAll(Kept(Keep(r)), UpTo(path', outpos')) PROVE NormInv'
  BY <1>1, <1>8 DEF NormInv, r
<1>9. ASSUME Stop, c = NUL, state \in {"FIELD_START", "IN_FIELD", "SEEN_SEP", "SEEN_DOT"}
      PROVE  NormInv'
  <2>1. ReadAll(Kept(Keep(r)), out)
    BY <1>2, <1>3, <1>9, TurnStop
  <2>2. done' /\ UNCHANGED <<path, outpos>>
    BY <1>9, Zenon DEF Stop
  <2> QED BY <1>3, <1>8, <1>9, <2>1, <2>2 DEF out
<1>10. ASSUME ~done', pos' = pos + 1, NEW new, new = UpTo(path', outpos'),
              Reading(q, state', c', pos + 1, new)
       PROVE  NormInv'
  BY <1>1, <1>10 DEF NormInv, q
<1>11. ASSUME NEW to, Eat(to), c # NUL,
              \/ state \in {"SEEN_SEP", "SEEN_DOT"} /\ c = Slash /\ to = "SEEN_SEP"
              \/ state = "DOT" /\ to = "SEEN_DOT"
              \/ state = "DOTDOT" /\ to = "SEEN_DOTDOT"
       PROVE  NormInv'
  <2>1. state' = to /\ pos' = pos + 1 /\ UNCHANGED <<path, outpos>>
    BY <1>11 DEF Eat
  <2>2. ~done'
    BY <1>1, <1>11, Zenon DEF Eat
  <2>3. Reading(q, to, c', pos + 1, out)
    BY <1>2, <1>3, <1>11, TurnEat
  <2> QED BY <1>10, <2>1, <2>2, <2>3 DEF out
<1>12. ASSUME NEW ch \in Chars, NEW b, b[outpos] = ch,
              \A i \in 0 .. outpos - 1 : b[i] = path[i]
       PROVE  UpTo(b, outpos + 1) = Append(out, ch)
  <2>1. PICK S : S = Chars \cup {NUL}
    OBVIOUS
  <2>2. PICK a, n : a = path /\ n = outpos
    OBVIOUS
  <2>3. Holds(S, a, n) /\ ch \in S /\ b[n] = ch /\ \A i \in 0 .. n - 1 : b[i] = a[i]
    BY <1>6, <1>12, <2>1, <2>2
  <2>4. UpTo(b, n + 1) = Append(UpTo(a, n), ch)
    BY <2>3, UpToNext
  <2> QED BY <2>2, <2>4 DEF out
<1>13. ASSUME NEW ch \in Chars, emit(outpos, ch), outpos' = outpos + 1
       PROVE  UpTo(path', outpos') = Append(out, ch)
  <2>1. outpos \in 0 .. len /\ \A i \in 0 .. outpos - 1 : i \in 0 .. len /\ i # outpos
    BY <1>4, <1>5
  <2>2. path'[outpos] = ch /\ \A i \in 0 .. outpos - 1 : path'[i] = path[i]
    BY <1>4, <1>13, <2>1 DEF emit
  <2> QED BY <1>12, <1>13, <2>2
<1>14. ASSUME c # NUL, pos' = pos + 1, outpos' = outpos + 1, emit(outpos, c), ~done',
              \/ state = "IN_FIELD" /\ c # Slash /\ state' = "IN_FIELD"
              \/ state = "SEP" /\ state' = "SEEN_SEP"
       PROVE  NormInv'
  <2>1. UpTo(path', outpos') = Append(out, c)
    BY <1>3, <1>13, <1>14
  <2>2. Reading(q, state', c', pos + 1, Append(out, c))
    BY <1>2, <1>3, <1>14, TurnWrite
  <2> QED BY <1>10, <1>14, <2>1, <2>2
<1>15. ASSUME ~done', pos' = pos, state' = "IN_FIELD", c \in Chars \ {Slash},
              \/ state = "SEEN_DOT" /\ c # Dot /\ UpTo(path', outpos') = Append(out, Dot)
              \/ /\ state = "SEEN_DOTDOT"
                 /\ UpTo(path', outpos') = Append(Append(out, Dot), Dot)
       PROVE  NormInv'
  <2>1. c' = c
    <3>1. pos \in pos .. len /\ pos' \in pos' .. len'
      BY <1>1, <1>4, <1>15
    <3>2. path[pos] = IF pos = len THEN NUL ELSE given[pos]
      BY <1>1, <3>1 DEF InPlace
    <3>3. path'[pos'] = IF pos' = len' THEN NUL ELSE given'[pos']
      BY <1>15, <3>1 DEF InPlace
    <3> QED BY <1>1, <1>15, <3>2, <3>3 DEF c
  <2>2. Reading(r, "IN_FIELD", c, pos, UpTo(path', outpos'))
    BY <1>2, <1>3, <1>15, TurnDots
  <2> QED BY <1>1, <1>15, <2>1, <2>2 DEF NormInv, r
<1>16. CASE INITIAL
  <2>1. PICK to : /\ Goto(to) /\ state = "INITIAL"
                  /\ to = IF c = Slash THEN "SEP" ELSE IF c = Dot THEN "DOT" ELSE "FIELD_START"
    BY <1>16 DEF INITIAL
  <2>2. Reading(r, to, c, pos, out)
    BY <1>2, <1>3, <2>1, TurnGoto
  <2> QED BY <1>7, <2>1, <2>2
<1>17. CASE FIELD_START
  <2>1. CASE c = NUL /\ Stop
    BY <1>9, <1>17, <2>1 DEF FIELD_START
  <2>2. CASE c # NUL
    <3>1. PICK to : /\ Goto(to) /\ state = "FIELD_START"
                    /\ to = IF c = Dot THEN "DOT" ELSE "IN_FIELD"
      BY <1>17, <2>2 DEF FIELD_START
    <3>2. Reading(r, to, c, pos, out)
      BY <1>2, <1>3, <2>2, <3>1, TurnGoto
    <3> QED BY <1>7, <3>1, <3>2
  <2> QED BY <1>17, <2>1, <2>2, PathAssumption DEF FIELD_START
<1>18. CASE IN_FIELD
  <2>0. state = "IN_FIELD"
    BY <1>18 DEF IN_FIELD
  <2>1. CASE c = NUL /\ Stop
    BY <1>9, <2>0, <2>1
  <2>2. CASE c = Slash /\ Goto("SEP")
    <3>1. Reading(r, "SEP", c, pos, out)
      BY <1>2, <1>3, <2>0, <2>2, TurnGoto
    <3> QED BY <1>7, <2>2, <3>1
  <2>3. CASE /\ c \notin {Slash, NUL} /\ emit(outpos, c) /\ outpos' = outpos + 1
             /\ pos' = pos + 1 /\ UNCHANGED <<state, done>>
    <3>1. ~done'
      BY <1>1, <2>3, Zenon
    <3> QED BY <1>14, <2>0, <2>3, <3>1
  <2> QED BY <1>18, <2>1, <2>2, <2>3 DEF IN_FIELD
<1>19. CASE SEP
  <2>1. /\ state = "SEP" /\ emit(outpos, Slash) /\ outpos' = outpos + 1 /\ pos' = pos + 1
        /\ state' = "SEEN_SEP"
    BY <1>19 DEF SEP
  <2>2. ~done'
    BY <1>1, <1>19, Zenon DEF SEP
  <2>3. c = Slash /\ Slash # NUL
    BY <1>2, <2>1, PathAssumption DEF Reading
  <2> QED BY <1>14, <2>1, <2>2, <2>3
<1>20. CASE SEEN_SEP
  <2>0. state = "SEEN_SEP" /\ Slash # NUL
    BY <1>20, PathAssumption DEF SEEN_SEP
  <2>1. CASE c = NUL /\ Stop
    BY <1>9, <2>0, <2>1
  <2>2. CASE c = Slash /\ Eat("SEEN_SEP")
    BY <1>11, <2>0, <2>2
  <2>3. CASE c \notin {Slash, NUL} /\ Goto("FIELD_START")
    <3>1. Reading(r, "FIELD_START", c, pos, out)
      BY <1>2, <1>3, <2>0, <2>3, TurnGoto
    <3> QED BY <1>7, <2>3, <3>1
  <2> QED BY <1>20, <2>1, <2>2, <2>3 DEF SEEN_SEP
<1>21. CASE DOT \/ DOTDOT
  <2>1. state \in {"DOT", "DOTDOT"}
    BY <1>21 DEF DOT, DOTDOT
  <2>2. c = Dot /\ Dot # NUL
    BY <1>2, <2>1, PathAssumption DEF Reading
  <2>3. CASE DOT
    BY <1>11, <2>2, <2>3 DEF DOT
  <2>4. CASE DOTDOT
    BY <1>11, <2>2, <2>4 DEF DOTDOT
  <2> QED BY <1>21, <2>3, <2>4
<1>22. CASE SEEN_DOT
  <2>0. state = "SEEN_DOT" /\ Slash # NUL
    BY <1>22, PathAssumption DEF SEEN_DOT
  <2>1. CASE c = NUL /\ Stop
    BY <1>9, <2>0, <2>1
  <2>2. CASE c = Slash /\ Eat("SEEN_SEP")
    BY <1>11, <2>0, <2>2
  <2>3. CASE c = Dot /\ Goto("DOTDOT")
    <3>1. Reading(r, "DOTDOT", c, pos, out)
      BY <1>2, <1>3, <2>0, <2>3, TurnGoto
    <3> QED BY <1>7, <2>3, <3>1
  <2>4. CASE /\ c \notin {Dot, Slash, NUL} /\ emit(outpos, Dot) /\ outpos' = outpos + 1
             /\ state' = "IN_FIELD" /\ UNCHANGED <<pos, done>>
    <3>1. ~done'
      BY <1>1, <2>4, Zenon
    <3>2. UpTo(path', outpos') = Append(out, Dot)
      BY <1>13, <2>4, CharsFacts
    <3> QED BY <1>3, <1>15, <2>0, <2>4, <3>1, <3>2
  <2> QED BY <1>22, <2>1, <2>2, <2>3, <2>4 DEF SEEN_DOT
<1>23. CASE SEEN_DOTDOT
  <2>0. state = "SEEN_DOTDOT" /\ Pending = 2
    BY <1>23 DEF SEEN_DOTDOT, Pending
  <2>1. CASE /\ c \in {Slash, NUL} /\ Backtrack(outpos')
             /\ pos' = pos + 1 /\ state' = "SEEN_SEP" /\ done' = (c = NUL) /\ UNCHANGED path
    <3>1. UpTo(path', outpos') = Kept(Keep(r))
      <4>1. PICK p : p = outpos' /\ Backtrack(p)
        BY <2>1
      <4>2. UpTo(path, p) = Kept(Keep(r))
        BY <1>1, <1>2, <1>3, <2>0, <4>1, TurnBack DEF out
      <4> QED BY <2>1, <4>1, <4>2
    <3>2. CASE c = NUL
      <4>1. done'
        BY <2>1, <3>2, Zenon
      <4> QED BY <1>3, <1>8, <3>1, <3>2, <4>1 DEF ReadAll
    <3>3. CASE c # NUL
      <4>1. ~done'
        BY <2>1, <3>3, Zenon
      <4>2. r.field = <<Dot, Dot>> /\ <<Dot, Dot>> # <<>>
        BY <1>2, <2>0 DEF Reading
      <4>3. q = Keep(r) /\ q \in Parts
        BY <1>3, <2>1, <3>3, <4>2 DEF Consumes
      <4>4. q.field = <<>> /\ Kept(q) \in Seq(Chars)
        BY <1>3, <4>3, KeepFacts, KeptFacts
      <4>5. Kept(q) \o <<>> = UpTo(path', outpos')
        BY <3>1, <4>3, <4>4, ConcatEmptySeq
      <4>6. Reading(q, "SEEN_SEP", c', pos + 1, UpTo(path', outpos'))
        BY <1>4, <4>4, <4>5 DEF Reading
      <4> QED BY <1>10, <2>1, <4>1, <4>6
    <3> QED BY <3>2, <3>3
  <2>2. CASE /\ c \notin {Slash, NUL}
             /\ path' = [path EXCEPT ![outpos] = Dot, ![outpos + 1] = Dot]
             /\ outpos' = outpos + 2 /\ state' = "IN_FIELD" /\ UNCHANGED <<pos, done>>
    <3>1. ~done'
      BY <1>1, <2>2, Zenon
    <3>2. UpTo(path', outpos') = Append(Append(out, Dot), Dot)
      <4>1. Dot \in Chars
        BY CharsFacts
      <4>2. /\ outpos \in 0 .. len /\ outpos + 1 \in 0 .. len /\ outpos # outpos + 1
            /\ \A i \in 0 .. outpos - 1 : i \in 0 .. len /\ i # outpos /\ i # outpos + 1
        BY <1>4, <2>0
      <4>3. PICK b : /\ b = path' /\ b[outpos] = Dot /\ b[outpos + 1] = Dot
                     /\ \A i \in 0 .. outpos - 1 : b[i] = path[i]
        BY <1>4, <2>2, <4>2
      <4>4. UpTo(b, outpos + 1) = Append(out, Dot)
        BY <1>12, <4>1, <4>3
      <4>0. PICK S : S = Chars \cup {NUL}
        OBVIOUS
      <4>5. PICK n \in Nat : n = outpos + 1
        BY <1>4
      <4>6. \A i \in 0 .. n - 1 : i = outpos \/ i \in 0 .. outpos - 1
        BY <1>4, <4>5
      <4>7. Holds(S, b, n) /\ Dot \in S /\ b[n] = Dot
        <5>1. \A i \in 0 .. outpos - 1 : path[i] \in S
          BY <1>6, <4>0 DEF Holds
        <5>2. \A i \in 0 .. n - 1 : b[i] \in S
          BY <4>0, <4>1, <4>3, <4>5, <4>6, <5>1
        <5> QED BY <4>0, <4>1, <4>3, <4>5, <5>2 DEF Holds
      <4>8. UpTo(b, n + 1) = Append(UpTo(b, n), Dot)
        BY <4>7, UpToNext
      <4>9. n + 1 = outpos'
        BY <1>4, <2>2, <4>5
      <4> QED BY <4>3, <4>4, <4>5, <4>8, <4>9
    <3> QED BY <1>3, <1>15, <2>0, <2>2, <3>1, <3>2
  <2> QED BY <1>23, <2>1, <2>2 DEF SEEN_DOTDOT
<1> QED
  BY <1>16, <1>17, <1>18, <1>19, <1>20, <1>21, <1>22, <1>23 DEF Turn

\* The code behind the loop.
LEMMA FinishKeeps ==
  ASSUME InPlace, NormInv, Finish
  PROVE  NormInv'
<1> DEFINE t == Kept(Keep(Split[UpTo(given, len)]))
           p == IF outpos > 0 /\ path[outpos - 1] = Slash THEN outpos - 1 ELSE outpos
           out == UpTo(path, outpos)
<1>1. /\ done /\ ~returned /\ path' = [path EXCEPT ![p] = NUL] /\ outpos' = p + 1
      /\ returned' /\ UNCHANGED <<given, len, done>>
  BY DEF Finish, emit
<1>2. /\ outpos \in Nat /\ len \in Nat /\ outpos <= len
      /\ path \in [0 .. len -> Chars \cup {NUL}] /\ given \in [0 .. len - 1 -> Chars]
  BY <1>1 DEF InPlace
<1>3. ReadAll(t, out)
  BY <1>1 DEF NormInv
<1>4. Holds(Chars \cup {NUL}, path, outpos) /\ Holds(Chars, given, len)
  BY <1>2 DEF Holds
<1>5. t \in Seq(Chars) /\ SlashEnds(t)
  <2>1. UpTo(given, len) \in Seq(Chars)
    BY <1>4, UpToFacts
  <2>2. Keep(Split[UpTo(given, len)]) \in Parts
    BY <2>1, SplitUnfolds, KeepFacts
  <2> QED BY <2>2, KeptFacts
<1>6. Reference(UpTo(given, len)) = IF t = <<>> THEN t ELSE Seqs!Front(t)
  BY DEF Reference
<1>7. PICK S : S = Chars \cup {NUL} /\ out \in Seq(S) /\ Len(out) = outpos
               /\ \A i \in 1 .. outpos : out[i] = path[i - 1]
  BY <1>4, UpToFacts
<1> HIDE DEF t, out
<1>8. p \in 0 .. outpos /\ p \in 0 .. len
  BY <1>2
<1>9. UpTo(path, p) = Reference(UpTo(given, len))
  <2>1. CASE outpos = 0
    <3>1. out = <<>> /\ p = 0
      BY <1>7, <2>1
    <3>2. t = <<>>
      BY <1>3, <3>1 DEF ReadAll
    <3> QED BY <1>6, <2>1, <3>1, <3>2 DEF out
  <2>2. CASE outpos # 0
    <3>1. outpos > 0 /\ out # <<>> /\ out[outpos] = path[outpos - 1]
      BY <1>2, <1>7, <2>2
    <3>2. CASE out = t
      <4>1. path[outpos - 1] = Slash
        BY <1>5, <1>7, <3>1, <3>2 DEF SlashEnds
      <4>2. p = outpos - 1
        BY <3>1, <4>1
      <4>3. PICK f \in Seq(S) : /\ f = Seqs!Front(out) /\ Len(f) = outpos - 1
                               /\ \A i \in 1 .. outpos - 1 : f[i] = out[i]
        <5>1. PICK u \in Seq(S) : u = out /\ u # <<>> /\ Len(u) = outpos
          BY <1>7, <3>1
        <5>2. /\ Seqs!Front(u) \in Seq(S) /\ Len(Seqs!Front(u)) = Len(u) - 1
              /\ \A i \in 1 .. Len(u) - 1 : Seqs!Front(u)[i] = u[i]
          BY ONLY u \in Seq(S), <5>1, FrontFacts
        <5> QED BY ONLY <5>1, <5>2
      <4>4. PICK u \in Seq(S) : /\ u = UpTo(path, p) /\ Len(u) = p
                               /\ \A i \in 1 .. p : u[i] = path[i - 1]
        <5>1. Holds(S, path, p)
          BY <1>4, <1>7, <1>8 DEF Holds
        <5> QED BY <5>1, UpToFacts
      <4>5. \A i \in 1 .. p : i \in 1 .. outpos
        BY <1>2, <1>8
      <4>6. u = f
        BY <1>7, <4>2, <4>3, <4>4, <4>5
      <4> QED BY <1>6, <3>1, <3>2, <4>3, <4>4, <4>6
    <3>3. CASE out # t
      <4>1. out[outpos] # Slash /\ t = Append(out, Slash)
        BY <1>3, <1>7, <3>3 DEF ReadAll
      <4>2. p = outpos
        BY <3>1, <4>1
      <4>3. Slash \in S
        BY <1>7, CharsFacts
      <4>4. t # <<>> /\ Seqs!Front(t) = out
        BY <1>7, <4>1, <4>3, FrontOfAppend
      <4> QED BY <1>6, <4>2, <4>4 DEF out
    <3> QED BY <3>2, <3>3
  <2> QED BY <2>1, <2>2
<1> HIDE DEF p
<1>10. UpTo(path', p) = UpTo(path, p)
  <2>1. \A i \in 1 .. p : i - 1 \in 0 .. len /\ i - 1 # p
    BY <1>2, <1>8
  <2>2. \A i \in 1 .. p : path'[i - 1] = path[i - 1]
    BY <1>1, <1>2, <2>1
  <2> QED BY <2>2 DEF UpTo
<1>11. outpos' - 1 = p
  BY <1>1, <1>8
<1>12. NormalizedIsReference'
  BY <1>1, <1>9, <1>10, <1>11 DEF NormalizedIsReference
<1> QED BY <1>1, <1>12 DEF NormInv

\* Before the first turn nothing is written.
LEMMA InitNorm == NormInit => NormInv
<1> SUFFICES ASSUME NormInit PROVE NormInv
  OBVIOUS
<1>1. pos = 0 /\ outpos = 0 /\ state = "INITIAL" /\ ~done /\ ~returned
  BY DEF NormInit
<1>2. \A a : UpTo(a, 0) = <<>>
  BY DEF UpTo
<1>3. Split[<<>>] = Nothing /\ Split[<<>>] \in Parts
  <2>1. <<>> \in Seq(Chars)
    OBVIOUS
  <2> QED BY <2>1, SplitUnfolds
<1>4. Kept(Nothing) = <<>> /\ Nothing.field = <<>>
  BY <1>3, KeptFacts DEF Nothing
<1>5. Kept(Nothing) \o <<>> = <<>>
  BY <1>4
<1>6. Reading(Nothing, "INITIAL", c, 0, <<>>)
  BY <1>4, <1>5 DEF Reading
<1> QED BY <1>1, <1>2, <1>3, <1>6 DEF NormInv

\* fs_normalize_path() leaves what the reference says, whatever the path is and however long:
\* at every turn the array holds the fields kept of what has been read, each with a slash
\* behind it, and as much of the current field as can no longer be dropped.
THEOREM NormalizesAsReference == NormSpec => []NormalizedIsReference
<1>1. InPlace /\ InPlace' /\ NormInv /\ [NormNext]_normVars => NormInv'
  <2> SUFFICES ASSUME InPlace, InPlace', NormInv, [NormNext]_normVars PROVE NormInv'
    OBVIOUS
  <2>1. CASE UNCHANGED normVars
    <3>1. UNCHANGED <<given, len, path, pos, outpos, state>> /\ c' = c
      BY <2>1 DEF normVars, c
    <3>2. UNCHANGED <<done, returned>>
      BY <2>1, Zenon DEF normVars
    <3> QED BY <3>1, <3>2 DEF NormInv, NormalizedIsReference
  <2> QED BY <2>1, TurnKeeps, FinishKeeps DEF NormNext
<1>2. NormInv => NormalizedIsReference
  BY DEF NormInv, NormalizedIsReference
<1> QED BY <1>1, <1>2, InitNorm, NormalizesInPlace, PTL DEF NormSpec
=============================================================================
