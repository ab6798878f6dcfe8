----------------------------- MODULE ListProofs -----------------------------
(* Facts about the operators of Lists, for lists without repetitions.      *)
EXTENDS Lists, WellFoundedInduction, TLAPS

-----------------------------------------------------------------------------
(* Lists without repetitions.                                              *)

\* Adding an element at the tail of a list.
LEMMA AppendFacts ==
  ASSUME NEW S, NEW s \in Seq(S), NEW t \in S, Distinct(s), ~OccursIn(t, s)
  PROVE  /\ Append(s, t) \in Seq(S) /\ Append(s, t) # <<>>
         /\ Distinct(Append(s, t)) /\ Len(Append(s, t)) = Len(s) + 1
         /\ \A u : OccursIn(u, Append(s, t)) <=> OccursIn(u, s) \/ u = t
<1> DEFINE r == Append(s, t)
<1>1. r \in Seq(S) /\ Len(r) = Len(s) + 1 /\ Len(s) \in Nat
  OBVIOUS
<1>2. r[Len(s) + 1] = t /\ \A i \in 1 .. Len(s) : r[i] = s[i]
  OBVIOUS
<1>3. \A i \in 1 .. Len(r) : i = Len(s) + 1 \/ i \in 1 .. Len(s)
  BY <1>1
<1> HIDE DEF r
<1>4. Distinct(r)
  BY <1>1, <1>2, <1>3 DEF Distinct, OccursIn
<1>5. \A u : OccursIn(u, r) <=> OccursIn(u, s) \/ u = t
  BY <1>1, <1>2, <1>3 DEF OccursIn
<1>6. r # <<>>
  BY <1>1
<1> QED BY <1>1, <1>4, <1>5, <1>6 DEF r

\* Adding an element at the head of a list.
LEMMA PushFacts ==
  ASSUME NEW S, NEW s \in Seq(S), NEW t \in S, Distinct(s), ~OccursIn(t, s)
  PROVE  /\ <<t>> \o s \in Seq(S) /\ <<t>> \o s # <<>>
         /\ Distinct(<<t>> \o s)
         /\ \A u : OccursIn(u, <<t>> \o s) <=> OccursIn(u, s) \/ u = t
<1> DEFINE r == <<t>> \o s
<1>1. r \in Seq(S) /\ Len(r) = Len(s) + 1
  OBVIOUS
<1>2. r[1] = t /\ \A i \in 1 .. Len(s) : r[i + 1] = s[i]
  OBVIOUS
<1>3. \A i \in 1 .. Len(r) : i = 1 \/ (i - 1 \in 1 .. Len(s) /\ r[i] = s[i - 1])
  BY <1>1, <1>2
<1> HIDE DEF r
<1>4. Distinct(r)
  <2> SUFFICES ASSUME NEW i \in 1 .. Len(r), NEW j \in 1 .. Len(r), r[i] = r[j]
               PROVE  i = j
    BY DEF Distinct
  <2>1. CASE i = 1
    BY <2>1, <1>2, <1>3 DEF OccursIn
  <2>2. CASE j = 1
    BY <2>2, <1>2, <1>3 DEF OccursIn
  <2>3. CASE i # 1 /\ j # 1
    <3>1. i - 1 \in 1 .. Len(s) /\ j - 1 \in 1 .. Len(s) /\ s[i - 1] = s[j - 1]
      BY <2>3, <1>3
    <3>2. i - 1 = j - 1
      BY <3>1 DEF Distinct
    <3> QED BY <3>2
  <2> QED BY <2>1, <2>2, <2>3
<1>5. \A u : OccursIn(u, r) <=> OccursIn(u, s) \/ u = t
  <2> TAKE u
  <2>1. OccursIn(u, r) => OccursIn(u, s) \/ u = t
    BY <1>1, <1>2, <1>3 DEF OccursIn
  <2>2. OccursIn(u, s) => OccursIn(u, r)
    <3> SUFFICES ASSUME NEW i \in 1 .. Len(s), s[i] = u PROVE OccursIn(u, r)
      BY DEF OccursIn
    <3>1. i + 1 \in 1 .. Len(r) /\ r[i + 1] = u
      BY <1>1, <1>2
    <3> QED BY <3>1 DEF OccursIn
  <2>3. OccursIn(t, r)
    BY <1>1, <1>2 DEF OccursIn
  <2> QED BY <2>1, <2>2, <2>3
<1>6. r # <<>>
  BY <1>1
<1> QED BY <1>1, <1>4, <1>5, <1>6 DEF r

\* Removing the head of a list.
LEMMA TailFacts ==
  ASSUME NEW S, NEW s \in Seq(S), s # <<>>, Distinct(s)
  PROVE  /\ Tail(s) \in Seq(S) /\ Head(s) \in S
         /\ Distinct(Tail(s)) /\ Len(Tail(s)) = Len(s) - 1
         /\ OccursIn(Head(s), s)
         /\ \A u : OccursIn(u, Tail(s)) <=> OccursIn(u, s) /\ u # Head(s)
<1> DEFINE r == Tail(s)
<1>1. Len(s) \in Nat /\ Len(s) > 0 /\ r \in Seq(S) /\ Len(r) = Len(s) - 1
  OBVIOUS
<1>2. Head(s) = s[1] /\ \A i \in 1 .. Len(r) : i + 1 \in 1 .. Len(s) /\ r[i] = s[i + 1]
  OBVIOUS
<1>3. 1 \in 1 .. Len(s) /\ Head(s) \in S
  BY <1>1
<1> HIDE DEF r
<1>4. Distinct(r)
  BY <1>1, <1>2 DEF Distinct
<1>5. \A u : OccursIn(u, r) <=> OccursIn(u, s) /\ u # Head(s)
  <2> TAKE u
  <2>1. OccursIn(u, r) => OccursIn(u, s) /\ u # Head(s)
    BY <1>1, <1>2, <1>3 DEF OccursIn, Distinct
  <2>2. ASSUME NEW i \in 1 .. Len(s), s[i] = u, u # Head(s) PROVE OccursIn(u, r)
    <3>1. i # 1
      BY <2>2, <1>2
    <3>2. i - 1 \in 1 .. Len(r) /\ r[i - 1] = s[(i - 1) + 1] /\ (i - 1) + 1 = i
      BY <3>1, <1>1, <1>2
    <3> QED BY <3>2, <2>2 DEF OccursIn
  <2> QED BY <2>1, <2>2 DEF OccursIn
<1> QED BY <1>1, <1>2, <1>3, <1>4, <1>5 DEF r, OccursIn

\* Removing an element from wherever it is in a list.
LEMMA WithoutFacts ==
  ASSUME NEW S, NEW s \in Seq(S), NEW t, Distinct(s)
  PROVE  /\ Without(s, t) \in Seq(S) /\ Distinct(Without(s, t))
         /\ OccursIn(t, s) => Len(Without(s, t)) = Len(s) - 1
         /\ \A u : OccursIn(u, Without(s, t)) <=> OccursIn(u, s) /\ u # t
<1>1. CASE ~OccursIn(t, s)
  BY <1>1 DEF Without, OccursIn
<1>2. CASE OccursIn(t, s)
  <2> DEFINE n == CHOOSE i \in 1 .. Len(s) : s[i] = t
             r == [i \in 1 .. Len(s) - 1 |-> IF i < n THEN s[i] ELSE s[i + 1]]
  <2>1. n \in 1 .. Len(s) /\ s[n] = t
    BY <1>2 DEF OccursIn
  <2>2. Without(s, t) = r
    BY <1>2 DEF Without, RemoveIndex
  <2> HIDE DEF n
  <2>3. Len(s) \in Nat /\ Len(s) - 1 \in Nat /\ \A i \in 1 .. Len(s) : s[i] \in S
    BY <2>1
  <2>4. r \in Seq(S) /\ Len(r) = Len(s) - 1
    <3>1. r \in [1 .. Len(s) - 1 -> S]
      BY <2>1, <2>3
    <3> QED BY <3>1, <2>3
  <2>5. \A i \in 1 .. Len(s) - 1 : r[i] = IF i < n THEN s[i] ELSE s[i + 1]
    OBVIOUS
  <2> HIDE DEF r
  <2>6. Distinct(r)
    BY <2>1, <2>3, <2>4, <2>5, SMTT(30) DEF Distinct
  <2>7. ASSUME NEW u, OccursIn(u, r) PROVE OccursIn(u, s) /\ u # t
    <3>1. PICK i \in 1 .. Len(s) - 1 : r[i] = u
      BY <2>7, <2>4 DEF OccursIn
    <3>2. CASE i < n
      BY <3>1, <3>2, <2>1, <2>3, <2>5 DEF OccursIn, Distinct
    <3>3. CASE ~(i < n)
      <4>1. i + 1 \in 1 .. Len(s) /\ s[i + 1] = u /\ i + 1 # n
        BY <3>1, <3>3, <2>1, <2>3, <2>5
      <4> QED BY <4>1, <2>1 DEF OccursIn, Distinct
    <3> QED BY <3>2, <3>3
  <2>8. ASSUME NEW u, OccursIn(u, s), u # t PROVE OccursIn(u, r)
    <3>1. PICK i \in 1 .. Len(s) : s[i] = u
      BY <2>8 DEF OccursIn
    <3>2. i # n
      BY <3>1, <2>1, <2>8
    <3>3. CASE i < n
      <4>1. i \in 1 .. Len(s) - 1 /\ r[i] = u
        BY <3>1, <3>3, <2>1, <2>3, <2>5
      <4> QED BY <4>1, <2>4 DEF OccursIn
    <3>4. CASE i > n
      <4>1. i - 1 \in 1 .. Len(s) - 1 /\ ~(i - 1 < n) /\ (i - 1) + 1 = i
        BY <3>1, <3>4, <2>1, <2>3
      <4>2. r[i - 1] = u
        BY <4>1, <3>1, <2>5
      <4> QED BY <4>1, <4>2, <2>4 DEF OccursIn
    <3> QED BY <3>2, <3>3, <3>4, <2>1, <2>3
  <2> QED BY <2>2, <2>4, <2>6, <2>7, <2>8
<1> QED BY <1>1, <1>2

\* Inserting an element anywhere in a list.
LEMMA InsertFacts ==
  ASSUME NEW S, NEW s \in Seq(S), NEW t \in S, NEW n \in 1 .. Len(s) + 1,
         Distinct(s), ~OccursIn(t, s)
  PROVE  /\ InsertAt(s, n, t) \in Seq(S) /\ Distinct(InsertAt(s, n, t))
         /\ \A u : OccursIn(u, InsertAt(s, n, t)) <=> OccursIn(u, s) \/ u = t
<1> DEFINE r == [i \in 1 .. Len(s) + 1 |->
                  IF i < n THEN s[i] ELSE IF i = n THEN t ELSE s[i - 1]]
<1>1. InsertAt(s, n, t) = r
  BY DEF InsertAt
<1>2. Len(s) \in Nat /\ Len(s) + 1 \in Nat /\ \A i \in 1 .. Len(s) : s[i] \in S
  OBVIOUS
<1>3. r \in Seq(S) /\ Len(r) = Len(s) + 1
  <2>1. r \in [1 .. Len(s) + 1 -> S]
    BY <1>2
  <2> QED BY <2>1, <1>2
<1>4. \A i \in 1 .. Len(s) + 1 :
        r[i] = IF i < n THEN s[i] ELSE IF i = n THEN t ELSE s[i - 1]
  OBVIOUS
<1> HIDE DEF r
<1>5. Distinct(r)
  <2> SUFFICES ASSUME NEW i \in 1 .. Len(r), NEW j \in 1 .. Len(r), r[i] = r[j]
               PROVE  i = j
    BY DEF Distinct
  <2> DEFINE src(k) == IF k < n THEN k ELSE k - 1
  <2>1. \A k \in 1 .. Len(r) : k # n => src(k) \in 1 .. Len(s) /\ r[k] = s[src(k)]
    BY <1>2, <1>3, <1>4
  <2>2. r[n] = t
    BY <1>2, <1>4
  <2>3. i = n <=> j = n
    BY <2>1, <2>2 DEF OccursIn
  <2>4. CASE i # n
    <3>1. src(i) = src(j)
      BY <2>1, <2>3, <2>4 DEF Distinct
    <3> QED BY <3>1, <2>3, <2>4, <1>3
  <2> QED BY <2>3, <2>4
<1>6. ASSUME NEW u, OccursIn(u, r) PROVE OccursIn(u, s) \/ u = t
  <2>1. PICK i \in 1 .. Len(s) + 1 : r[i] = u
    BY <1>6, <1>3 DEF OccursIn
  <2>2. \/ i < n /\ i \in 1 .. Len(s) /\ s[i] = u
        \/ u = t
        \/ i - 1 \in 1 .. Len(s) /\ s[i - 1] = u
    BY <2>1, <1>2, <1>4
  <2> QED BY <2>2 DEF OccursIn
<1>7. ASSUME NEW u, OccursIn(u, s) PROVE OccursIn(u, r)
  <2>1. PICK i \in 1 .. Len(s) : s[i] = u
    BY <1>7 DEF OccursIn
  <2>2. CASE i < n
    BY <2>1, <2>2, <1>2, <1>3, <1>4 DEF OccursIn
  <2>3. CASE ~(i < n)
    <3>1. i + 1 \in 1 .. Len(s) + 1 /\ ~(i + 1 < n) /\ i + 1 # n /\ (i + 1) - 1 = i
      BY <2>3, <1>2
    <3>2. r[i + 1] = u
      BY <3>1, <2>1, <1>4
    <3> QED BY <3>1, <3>2, <1>3 DEF OccursIn
  <2> QED BY <2>2, <2>3
<1>8. OccursIn(t, r)
  BY <1>2, <1>3, <1>4 DEF OccursIn
<1> QED BY <1>1, <1>3, <1>5, <1>6, <1>7, <1>8

\* A nonempty set of natural numbers has a least element.
LEMMA LeastNat ==
  ASSUME NEW T, T \subseteq Nat, T # {}
  PROVE  \E x \in T : \A y \in T : ~(y < x)
<1> DEFINE R == OpToRel(<, Nat)
<1>1. IsWellFoundedOn(R, Nat)
  BY NatLessThanWellFounded
<1>2. \A x, y \in Nat : y < x => <<y, x>> \in R
  BY DEF OpToRel
<1> HIDE DEF R
<1>3. PICK x \in T : \A y \in T : ~(<<y, x>> \in R)
  BY <1>1, WFMin
<1> QED BY <1>2, <1>3

-----------------------------------------------------------------------------
(* Recursive functions.                                                    *)

\* g satisfies the equation of T on S, which contains what is below its elements.
Solves(D, Below, T, S, g) ==
  /\ S \subseteq D
  /\ \A x \in S, y \in D : y \in Below[x] => y \in S
  /\ \A x \in S : g[x] = T[g][x]

\* The value of T[g] at x depends only on the values of g at the arguments below x, and every
\* nonempty set of arguments has one with none below it.
WellFounded(D, R, Below, T) ==
  /\ R # {}
  /\ \A S \in SUBSET D : S # {} => \E x \in S : \A y \in S : y \notin Below[x]
  /\ T \in [[D -> R] -> [D -> R]]
  /\ \A g, h \in [D -> R], x \in D :
       (\A y \in D : y \in Below[x] => g[y] = h[y]) => T[g][x] = T[h][x]

\* The equation f = T[f] of a recursive definition then has a solution.
LEMMA RecursionHasSolution ==
  ASSUME NEW D, NEW R, NEW Below, NEW T, WellFounded(D, R, Below, T)
  PROVE  \E f \in [D -> R] : f = T[f]
<1>0. /\ R # {}
      /\ \A S \in SUBSET D : S # {} => \E x \in S : \A y \in S : y \notin Below[x]
      /\ T \in [[D -> R] -> [D -> R]]
      /\ \A g, h \in [D -> R], x \in D :
           (\A y \in D : y \in Below[x] => g[y] = h[y]) => T[g][x] = T[h][x]
  BY DEF WellFounded
<1> USE <1>0
<1> DEFINE Solved(S, g) == Solves(D, Below, T, S, g)
           At(x, v) == \E S \in SUBSET D, g \in [D -> R] : Solved(S, g) /\ x \in S /\ v = g[x]
           U == {x \in D : \E v \in R : At(x, v)}
<1>1. ASSUME NEW S1 \in SUBSET D, NEW g \in [D -> R], Solved(S1, g),
             NEW S2 \in SUBSET D, NEW h \in [D -> R], Solved(S2, h),
             NEW z \in S1, z \in S2
      PROVE  g[z] = h[z]
  <2> DEFINE B == {x \in S1 : x \in S2 /\ g[x] # h[x]}
  <2> SUFFICES ASSUME g[z] # h[z] PROVE FALSE
    OBVIOUS
  <2>1. z \in B
    BY <1>1
  <2>2. PICK x \in B : \A y \in B : y \notin Below[x]
    BY <2>1
  <2>3. \A y \in D : y \in Below[x] => g[y] = h[y]
    BY <1>1, <2>2 DEF Solves
  <2>4. T[g][x] = T[h][x] /\ g[x] = T[g][x] /\ h[x] = T[h][x]
    BY <1>1, <2>2, <2>3 DEF Solves
  <2> QED BY <2>2, <2>4
<1>2. PICK r \in R : TRUE
  OBVIOUS
<1> DEFINE f == [x \in D |-> IF x \in U THEN CHOOSE v \in R : At(x, v) ELSE r]
<1>3. f \in [D -> R]
  <2>1. \A x \in U : (CHOOSE v \in R : At(x, v)) \in R
    <3> HIDE DEF At
    <3> QED OBVIOUS
  <2> QED BY <2>1
<1>4. ASSUME NEW S \in SUBSET D, NEW g \in [D -> R], Solved(S, g), NEW x \in S
      PROVE  x \in U /\ f[x] = g[x]
  <2>1. At(x, g[x]) /\ g[x] \in R
    BY <1>4
  <2>2. x \in U
    BY <2>1
  <2>3. PICK v \in R : At(x, v) /\ f[x] = v
    <3> HIDE DEF At
    <3> QED BY <2>1, <2>2
  <2>4. v = g[x]
    BY <1>1, <1>4, <2>3
  <2> QED BY <2>2, <2>3, <2>4
<1>5. ASSUME NEW x \in U
      PROVE  \E S \in SUBSET D, g \in [D -> R] : Solved(S, g) /\ x \in S
  OBVIOUS
<1> HIDE DEF U, f
<1>6. Solved(U, f)
  <2>1. U \subseteq D
    BY DEF U
  <2>2. ASSUME NEW x \in U, NEW y \in D, y \in Below[x] PROVE y \in U
    <3>1. PICK S \in SUBSET D, g \in [D -> R] : Solved(S, g) /\ x \in S
      BY <1>5
    <3>2. y \in S
      BY <2>2, <3>1 DEF Solves
    <3> QED BY <1>4, <3>1, <3>2
  <2>3. ASSUME NEW x \in U PROVE f[x] = T[f][x]
    <3>1. PICK S \in SUBSET D, g \in [D -> R] : Solved(S, g) /\ x \in S
      BY <1>5
    <3>2. \A y \in D : y \in Below[x] => f[y] = g[y]
      <4> TAKE y \in D
      <4> HAVE y \in Below[x]
      <4>1. y \in S
        BY <3>1 DEF Solves
      <4> QED BY <1>4, <3>1, <4>1
    <3>3. x \in D
      BY <3>1
    <3>4. T[f][x] = T[g][x]
      BY <1>3, <3>1, <3>2, <3>3
    <3>5. g[x] = T[g][x] /\ f[x] = g[x]
      BY <1>4, <3>1 DEF Solves
    <3> QED BY <3>4, <3>5
  <2> QED BY <2>1, <2>2, <2>3 DEF Solves
<1>7. ASSUME U # D PROVE FALSE
  <2>1. U \subseteq D
    BY <1>6 DEF Solves
  <2>2. D \ U \in SUBSET D /\ D \ U # {}
    BY <1>7, <2>1
  <2>3. PICK x \in D \ U : \A y \in D \ U : y \notin Below[x]
    BY <2>2
  <2> DEFINE h == [f EXCEPT ![x] = T[f][x]]
             S == U \cup {x}
  <2>4. h \in [D -> R] /\ h[x] = T[f][x] /\ \A y \in D : y # x => h[y] = f[y]
    <3>1. T[f] \in [D -> R]
      BY <1>3
    <3> QED BY <1>3, <3>1
  <2> HIDE DEF h
  <2>5. S \in SUBSET D /\ \A z \in S, y \in D : y \in Below[z] => y \in U
    BY <1>6, <2>1, <2>3 DEF Solves
  <2>6. \A z \in S : T[h][z] = T[f][z]
    <3> TAKE z \in S
    <3>1. \A y \in D : y \in Below[z] => h[y] = f[y]
      BY <2>3, <2>4, <2>5
    <3> QED BY <1>3, <2>4, <2>5, <3>1
  <2>7. \A z \in S : h[z] = T[h][z]
    <3> TAKE z \in S
    <3>1. CASE z = x
      BY <2>4, <2>6, <3>1
    <3>2. CASE z # x
      <4>1. z \in U /\ z \in D
        BY <2>1, <3>2
      <4>2. h[z] = f[z] /\ f[z] = T[f][z]
        BY <1>6, <2>4, <3>2, <4>1 DEF Solves
      <4> QED BY <2>6, <4>2
    <3> QED BY <3>1, <3>2
  <2>8. Solved(S, h)
    BY <2>5, <2>7 DEF Solves
  <2>9. x \in U
    BY <1>4, <2>4, <2>5, <2>8
  <2> QED BY <2>3, <2>9
<1>8. f = T[f]
  <2>1. T[f] \in [D -> R] /\ \A x \in D : f[x] = T[f][x]
    BY <1>3, <1>6, <1>7 DEF Solves
  <2> QED BY <1>3, <2>1
<1> QED BY <1>3, <1>8

=============================================================================
