-------------------------- MODULE FileToolsProofs --------------------------
(***************************************************************************)
(* Theorems of FileTools, for any number of calls with any requests on any *)
(* text.  The induction theorems of the library take an operator, so the   *)
(* lemmas begin with what they are needed for, said of sets and functions: *)
(* the least element of a set of numbers, upwards induction, and that a    *)
(* recursion has a function that satisfies it.  With those, what FlattenSeq*)
(* and the recursive functions of TextEdit make of a text can be reasoned  *)
(* about: which occurrences are replaced, and that a replacement which is  *)
(* not one by the same changes the text, so that multiedit accepts only    *)
(* what edit accepts.  The last part is about what a request means: a      *)
(* splice of all places is the replacement of all of them, the line        *)
(* endings come back as they were, and what the calls leave in the file is *)
(* what the ones that answered ok, and those still writing, are to leave;  *)
(* and what view shows are the lines there are, rightly counted.           *)
(***************************************************************************)
EXTENDS FileTools, Integers, SequenceTheorems, FiniteSetTheorems, WellFoundedInduction, TLAPS

-----------------------------------------------------------------------------
(* Induction and recursion over the numbers.                               *)

\* A set of numbers that is not empty has a least one.
LEMMA LeastNumber ==
    ASSUME NEW T, T \subseteq Nat, T # {}
    PROVE  \E n \in T : \A m \in T : n <= m
<1> DEFINE R == OpToRel(<, Nat)
<1>1. IsWellFoundedOn(R, Nat)
  BY NatLessThanWellFounded
<1>2. \A x, y \in Nat : x < y => <<x, y>> \in R
  BY DEF OpToRel
<1> HIDE DEF R
<1>3. PICK n \in T : \A m \in T : ~(<<m, n>> \in R)
  BY <1>1, WFMin
<1>4. \A m \in T : ~(m < n)
  BY <1>2, <1>3
<1> QED BY <1>3, <1>4

\* A set that has 0 and with each number the next one has them all up to n.
LEMMA Upwards ==
    ASSUME NEW n \in Nat, NEW S, 0 \in S, \A i \in 0..(n - 1) : i \in S => i + 1 \in S
    PROVE  0..n \subseteq S
<1> DEFINE T == 0..n \ S
<1> SUFFICES ASSUME T # {} PROVE FALSE
  OBVIOUS
<1>1. PICK m \in T : \A k \in T : m <= k
  <2>1. T \subseteq Nat
    OBVIOUS
  <2> HIDE DEF T
  <2> QED BY <2>1, LeastNumber
<1>2. m # 0 /\ m \in 1..n
  OBVIOUS
<1>3. m - 1 \in S
  BY <1>1, <1>2
<1>4. (m - 1) + 1 \in S
  BY <1>2, <1>3
<1> QED BY <1>2, <1>4

\* f goes n steps through V, starting at a.
Walks(f, V, a, n, step) ==
    f \in [0..n -> V] /\ f[0] = a /\ \A i \in 1..n : f[i] = step[<<f[i - 1], i>>]

\* There is such a function.
LEMMA Recursion ==
    ASSUME NEW V, NEW a \in V, NEW n \in Nat, NEW step \in [V \X (1..n) -> V]
    PROVE  \E f : Walks(f, V, a, n, step)
<1> DEFINE Good(k) == \E f \in [0..k -> V] : f[0] = a /\ \A i \in 1..k : f[i] = step[<<f[i - 1], i>>]
           S == {k \in 0..n : Good(k)}
<1>1. 0 \in S
  <2> DEFINE f == [k \in 0..0 |-> a]
  <2>1. f \in [0..0 -> V] /\ f[0] = a /\ 1..0 = {}
    OBVIOUS
  <2>2. Good(0)
    BY <2>1
  <2> QED BY <2>2
<1>2. ASSUME NEW i \in 0..(n - 1), i \in S PROVE i + 1 \in S
  <2>1. PICK f \in [0..i -> V] : f[0] = a /\ \A k \in 1..i : f[k] = step[<<f[k - 1], k>>]
    BY <1>2
  <2> DEFINE g == [k \in 0..(i + 1) |-> IF k = i + 1 THEN step[<<f[i], i + 1>>] ELSE f[k]]
  <2>2. step[<<f[i], i + 1>>] \in V
    <3>1. f[i] \in V /\ i + 1 \in 1..n
      BY <2>1
    <3> QED BY <3>1
  <2>3. g \in [0..(i + 1) -> V]
    BY <2>1, <2>2
  <2>4. g[0] = a /\ \A k \in 1..i : g[k] = f[k] /\ g[k - 1] = f[k - 1]
    BY <2>1
  <2>5. g[i + 1] = step[<<g[i], i + 1>>]
    <3>1. i \in 0..(i + 1) /\ i + 1 \in 0..(i + 1) /\ i # i + 1
      OBVIOUS
    <3>2. g[i] = f[i]
      BY <3>1
    <3> QED BY <3>1, <3>2
  <2> HIDE DEF g
  <2>6. \A k \in 1..(i + 1) : g[k] = step[<<g[k - 1], k>>]
    <3> SUFFICES ASSUME NEW k \in 1..(i + 1) PROVE g[k] = step[<<g[k - 1], k>>]
      OBVIOUS
    <3>1. CASE k = i + 1
      <4>1. k - 1 = i
        BY <3>1
      <4> QED BY <2>5, <3>1, <4>1
    <3>2. CASE k \in 1..i
      BY <2>1, <2>4, <3>2
    <3> QED BY <3>1, <3>2
  <2>7. Good(i + 1)
    BY <2>3, <2>4, <2>6
  <2> QED BY <2>7
<1> HIDE DEF S
<1>3. 0..n \subseteq S
  BY <1>1, <1>2, Upwards
<1>4. n \in S
  BY <1>3
<1> QED BY <1>4 DEF S, Walks

\* The texts of a sequence one after the other, as a function of how many.
LEMMA Flattened ==
    ASSUME NEW X, NEW ss \in Seq(Seq(X))
    PROVE  \E f \in [0..Len(ss) -> Seq(X)] :
              /\ f[0] = <<>> /\ FlattenSeq(ss) = f[Len(ss)]
              /\ \A i \in 1..Len(ss) : f[i] = f[i - 1] \o ss[i]
<1> DEFINE n == Len(ss)  V == Seq(X)
<1>1. n \in Nat /\ ss \in [1..n -> V] /\ <<>> \in V
  BY LenProperties
<1>2. \A s, t \in V : s \o t \in V
  BY ConcatProperties
<1>3. \A s \in V : <<>> \o s = s
  BY ConcatEmptySeq
<1> HIDE DEF n, V
<1> DEFINE step == [p \in V \X (1..n) |-> p[1] \o ss[p[2]]]
<1>4. step \in [V \X (1..n) -> V]
  BY <1>1, <1>2
<1>5. PICK f \in [0..n -> V] : f[0] = <<>> /\ \A i \in 1..n : f[i] = step[<<f[i - 1], i>>]
  <2> DEFINE a == <<>>
  <2>1. a \in V
    BY <1>1
  <2> HIDE DEF step, a
  <2>2. n \in Nat
    BY <1>1
  <2>3. \E f : Walks(f, V, a, n, step)
    BY <1>4, <2>1, <2>2, Recursion
  <2> QED BY <2>3 DEF a, Walks
<1>6. \A i \in 1..n : f[i] = f[i - 1] \o ss[i]
  <2> SUFFICES ASSUME NEW i \in 1..n PROVE f[i] = f[i - 1] \o ss[i]
    OBVIOUS
  <2>1. <<f[i - 1], i>> \in V \X (1..n)
    BY <1>1, <1>5
  <2> QED BY <1>5, <2>1
<1>7. FlattenSeq(ss) = f[n]
  <2>1. CASE n = 0
    <3>1. ss = <<>>
      BY <2>1, EmptySeq DEF n
    <3> QED BY <1>5, <2>1, <3>1 DEF FlattenSeq, n
  <2>2. CASE n # 0
    <3> DEFINE Is(g) == g = [i \in 1..n |-> IF i = 1 THEN ss[i] ELSE g[i - 1] \o ss[i]]
               flat  == CHOOSE g : Is(g)
    <3>1. FlattenSeq(ss) = flat[n]
      BY <2>2 DEF FlattenSeq, n
    <3> DEFINE h == [i \in 1..n |-> f[i]]
    <3>2. Is(h)
      <4>1. ASSUME NEW i \in 1..n PROVE h[i] = IF i = 1 THEN ss[i] ELSE h[i - 1] \o ss[i]
        <5>1. h[i] = f[i - 1] \o ss[i]
          BY <1>6
        <5>2. CASE i = 1
          <6>1. f[i - 1] = <<>> /\ ss[i] \in V
            BY <1>1, <1>5, <5>2
          <6> QED BY <1>3, <5>1, <5>2, <6>1
        <5>3. CASE i # 1
          <6>1. i - 1 \in 1..n
            BY <1>1, <5>3
          <6> QED BY <5>1, <5>3, <6>1
        <5> QED BY <5>2, <5>3
      <4> QED BY <4>1
    <3>3. Is(flat)
      BY <3>2
    <3> DEFINE S == {0} \cup {i \in 1..n : flat[i] = f[i]}
    <3> HIDE DEF flat
    <3>4. ASSUME NEW i \in 0..(n - 1), i \in S PROVE i + 1 \in S
      <4>1. i + 1 \in 1..n
        BY <1>1
      <4>2. flat[i + 1] = IF i + 1 = 1 THEN ss[i + 1] ELSE flat[(i + 1) - 1] \o ss[i + 1]
        BY <3>3, <4>1
      <4>3. (i + 1) - 1 = i
        BY <1>1
      <4>6. f[i + 1] = f[i] \o ss[i + 1]
        BY <1>6, <4>1, <4>3
      <4>4. CASE i = 0
        <5>1. i + 1 = 1 /\ f[i] = <<>> /\ ss[i + 1] \in V
          BY <1>1, <1>5, <4>1, <4>4
        <5>2. f[i + 1] = ss[i + 1] /\ flat[i + 1] = ss[i + 1]
          BY <1>3, <4>2, <4>6, <5>1
        <5> QED BY <4>1, <5>2
      <4>5. CASE i # 0
        <5>1. flat[i] = f[i]
          BY <3>4, <4>5
        <5>2. i + 1 # 1
          BY <1>1, <4>5
        <5>3. flat[i + 1] = f[i + 1]
          BY <4>2, <4>3, <4>6, <5>1, <5>2
        <5> QED BY <4>1, <5>3
      <4> QED BY <4>4, <4>5
    <3>5. 0 \in S
      OBVIOUS
    <3> HIDE DEF S
    <3>6. 0..n \subseteq S
      BY <1>1, <3>4, <3>5, Upwards
    <3>7. n \in S
      BY <1>1, <3>6
    <3> QED BY <2>2, <3>1, <3>7 DEF S
  <2> QED BY <2>1, <2>2
<1> QED BY <1>5, <1>6, <1>7 DEF n, V

-----------------------------------------------------------------------------
(* How a text is spliced.                                                  *)

Covered(places, o, i) == \E j \in places : j < i /\ i < j + Len(o)

Piece(t, places, o, n, i) ==
    IF i \in places THEN n ELSE IF Covered(places, o, i) THEN <<>> ELSE <<t[i]>>

\* f[i] is what the first i characters of t become.
Spliced(f, X, t, places, o, n) ==
    /\ f \in [0..Len(t) -> Seq(X)] /\ f[0] = <<>>
    /\ \A i \in 1..Len(t) : f[i] = f[i - 1] \o Piece(t, places, o, n, i)

\* Splice has such beginnings.
LEMMA Pieces ==
    ASSUME NEW X, NEW t \in Seq(X), NEW n \in Seq(X), NEW places, NEW o
    PROVE  \E f : Spliced(f, X, t, places, o, n) /\ Splice(t, places, o, n) = f[Len(t)]
<1> DEFINE ss == [i \in DOMAIN t |-> Piece(t, places, o, n, i)]
<1>1. DOMAIN t = 1..Len(t) /\ Len(t) \in Nat /\ \A i \in 1..Len(t) : t[i] \in X
  BY LenProperties, ElementOfSeq
<1>2. \A i \in 1..Len(t) : Piece(t, places, o, n, i) \in Seq(X)
  <2>1. \A x \in X : <<x>> \in Seq(X)
    OBVIOUS
  <2>2. <<>> \in Seq(X)
    OBVIOUS
  <2> QED BY <1>1, <2>1, <2>2 DEF Piece
<1>3. ss \in Seq(Seq(X)) /\ Len(ss) = Len(t)
  BY <1>1, <1>2
<1>4. Splice(t, places, o, n) = FlattenSeq(ss)
  BY DEF Splice, Piece, Covered
<1>5. \A i \in 1..Len(t) : ss[i] = Piece(t, places, o, n, i)
  BY <1>1
<1> HIDE DEF ss
<1>6. PICK f \in [0..Len(ss) -> Seq(X)] :
          /\ f[0] = <<>> /\ FlattenSeq(ss) = f[Len(ss)]
          /\ \A i \in 1..Len(ss) : f[i] = f[i - 1] \o ss[i]
  BY <1>3, Flattened
<1> QED BY <1>3, <1>4, <1>5, <1>6 DEF Spliced

\* A text is made of texts.
LEMMA SpliceTyped ==
    ASSUME NEW X, NEW t \in Seq(X), NEW n \in Seq(X), NEW places, NEW o
    PROVE  Splice(t, places, o, n) \in Seq(X)
<1>1. PICK f : Spliced(f, X, t, places, o, n) /\ Splice(t, places, o, n) = f[Len(t)]
  BY Pieces
<1>2. Len(t) \in 0..Len(t)
  BY LenProperties
<1> QED BY <1>1, <1>2 DEF Spliced

\* Nothing is put in.
LEMMA SpliceNothing ==
    ASSUME NEW X, NEW t \in Seq(X), NEW n \in Seq(X), NEW o
    PROVE  Splice(t, {}, o, n) = t
<1>0. /\ DOMAIN t = 1..Len(t) /\ Len(t) \in Nat /\ \A i \in 1..Len(t) : t[i] \in X
  BY LenProperties, ElementOfSeq
<1>1. PICK f : Spliced(f, X, t, {}, o, n) /\ Splice(t, {}, o, n) = f[Len(t)]
  BY Pieces
<1>2. \A i \in 1..Len(t) : f[i] = f[i - 1] \o <<t[i]>>
  BY <1>1 DEF Spliced, Piece, Covered
<1>3. f \in [0..Len(t) -> Seq(X)] /\ f[0] = <<>>
  BY <1>1 DEF Spliced
<1> DEFINE Copied(i) == Len(f[i]) = i /\ \A k \in 1..i : f[i][k] = t[k]
           S == {i \in 0..Len(t) : Copied(i)}
<1>4. 0 \in S
  BY <1>0, <1>3
<1>5. ASSUME NEW i \in 0..(Len(t) - 1), i \in S PROVE i + 1 \in S
  <2>1. i + 1 \in 1..Len(t) /\ (i + 1) - 1 = i /\ i \in 0..Len(t)
    BY <1>0
  <2> DEFINE x == t[i + 1]  s == f[i]  u == <<x>>
  <2>0. x \in X /\ s \in Seq(X) /\ Len(s) = i
    BY <1>0, <1>3, <1>5, <2>1
  <2> HIDE DEF x
  <2>2. u \in Seq(X) /\ Len(u) = 1 /\ u[1] = x
    BY <2>0
  <2>3. f[i + 1] = s \o u
    BY <1>2, <2>1 DEF x
  <2>4. \A k \in 1..i : s[k] = t[k]
    BY <1>5
  <2> HIDE DEF s, u
  <2>5. Len(s \o u) = Len(s) + Len(u) /\ \A k \in 1..Len(s) + Len(u) :
            (s \o u)[k] = IF k <= Len(s) THEN s[k] ELSE u[k - Len(s)]
    BY <2>0, <2>2, ConcatProperties
  <2>6. Len(s \o u) = i + 1
    BY <1>0, <2>0, <2>2, <2>5
  <2>7. \A k \in 1..(i + 1) : (s \o u)[k] = t[k]
    BY <1>0, <2>0, <2>1, <2>2, <2>4, <2>5 DEF x
  <2>8. Copied(i + 1)
    BY <2>3, <2>6, <2>7
  <2> QED BY <2>1, <2>8
<1> HIDE DEF S
<1>6. 0..Len(t) \subseteq S
  BY <1>0, <1>4, <1>5, Upwards
<1>7. Copied(Len(t)) /\ f[Len(t)] \in Seq(X)
  BY <1>0, <1>3, <1>6 DEF S
<1>8. f[Len(t)] = t
  BY <1>7, SeqEqual
<1> QED BY <1>1, <1>8

\* Which occurrences Count and Replace take: those that begin in no other one.
LEMMA TakenIs ==
    ASSUME NEW X, NEW t \in Seq(X), NEW o, Len(o) \in Nat
    PROVE  /\ Taken(t, o) \subseteq DOMAIN t
           /\ \A i \in DOMAIN t : i \in Taken(t, o) <=>
                 i \in Places(t, o) /\ \A j \in Taken(t, o) : j < i => j + Len(o) <= i
<1> DEFINE n == Len(t)  L == Len(o)  P == Places(t, o)  V == SUBSET (1..n)
           Free(A, i) == i \in P /\ \A j \in A : ~(j < i /\ i < j + L)
           step == [p \in V \X (1..n) |-> IF Free(p[1], p[2]) THEN p[1] \cup {p[2]} ELSE p[1]]
           Is(g) == g = [i \in DOMAIN t |-> i \in P /\ \A j \in DOMAIN t : j < i /\ i < j + L => ~g[j]]
           taken == CHOOSE g : Is(g)
<1>1. n \in Nat /\ DOMAIN t = 1..n /\ L \in Nat
  BY LenProperties
<1>2. Taken(t, o) = {i \in DOMAIN t : taken[i]}
  BY DEF Taken
<1> HIDE DEF n, L, P
<1>3. step \in [V \X (1..n) -> V]
  OBVIOUS
<1>4. PICK f : Walks(f, V, {}, n, step)
  <2>1. {} \in V
    OBVIOUS
  <2> HIDE DEF V, step
  <2> QED BY <1>1, <1>3, <2>1, Recursion
<1>5. f \in [0..n -> V] /\ f[0] = {}
  BY <1>4 DEF Walks
<1>6. \A i \in 1..n : f[i] = IF Free(f[i - 1], i) THEN f[i - 1] \cup {i} ELSE f[i - 1]
  <2> SUFFICES ASSUME NEW i \in 1..n
               PROVE  f[i] = IF Free(f[i - 1], i) THEN f[i - 1] \cup {i} ELSE f[i - 1]
    OBVIOUS
  <2>1. f[i] = step[<<f[i - 1], i>>]
    BY <1>4 DEF Walks
  <2>2. f[i - 1] \in V
    BY <1>1, <1>5
  <2> DEFINE A == f[i - 1]
  <2> HIDE DEF V, A, Free
  <2>3. step[<<A, i>>] = IF Free(A, i) THEN A \cup {i} ELSE A
    BY <2>2 DEF A
  <2> QED BY <2>1, <2>3 DEF A
<1> HIDE DEF step, V, Free
<1> DEFINE S == {i \in 0..n : f[i] = f[n] \cap (1..i)}
<1>7. \A i \in 0..n : f[i] \subseteq 1..i
  <2> DEFINE R == {i \in 0..n : f[i] \subseteq 1..i}
  <2>1. 0 \in R
    BY <1>1, <1>5
  <2>2. \A i \in 0..(n - 1) : i \in R => i + 1 \in R
    <3> SUFFICES ASSUME NEW i \in 0..(n - 1), i \in R PROVE i + 1 \in R
      OBVIOUS
    <3>1. i + 1 \in 1..n /\ (i + 1) - 1 = i
      BY <1>1
    <3>2. f[i + 1] \subseteq f[i] \cup {i + 1}
      BY <1>6, <3>1
    <3> QED BY <1>1, <3>1, <3>2
  <2> HIDE DEF R
  <2>3. 0..n \subseteq R
    BY <1>1, <2>1, <2>2, Upwards
  <2> QED BY <2>3 DEF R
<1>8. \A i \in 0..n : f[n] \cap (1..i) = f[i]
  <2> DEFINE R == {k \in 0..n : \A i \in 0..k : f[k] \cap (1..i) = f[i]}
  <2>1. 0 \in R
    BY <1>1, <1>5
  <2>2. \A k \in 0..(n - 1) : k \in R => k + 1 \in R
    <3> SUFFICES ASSUME NEW k \in 0..(n - 1), k \in R PROVE k + 1 \in R
      OBVIOUS
    <3>1. k + 1 \in 1..n /\ (k + 1) - 1 = k /\ k + 1 \in 0..n
      BY <1>1
    <3>2. f[k + 1] = f[k] \/ f[k + 1] = f[k] \cup {k + 1}
      BY <1>6, <3>1
    <3>3. f[k + 1] \subseteq 1..(k + 1)
      BY <1>7, <3>1
    <3>4. ASSUME NEW i \in 0..(k + 1) PROVE f[k + 1] \cap (1..i) = f[i]
      <4>1. CASE i = k + 1
        BY <3>3, <4>1
      <4>2. CASE i \in 0..k
        <5>1. f[k] \cap (1..i) = f[i] /\ k + 1 \notin 1..i
          BY <1>1, <4>2
        <5> QED BY <3>2, <5>1
      <4> QED BY <4>1, <4>2
    <3> QED BY <3>1, <3>4
  <2> HIDE DEF R
  <2>3. 0..n \subseteq R
    BY <1>1, <2>1, <2>2, Upwards
  <2>4. n \in R
    BY <1>1, <2>3
  <2> QED BY <2>4 DEF R
<1>9. \A i \in 1..n : i \in f[n] <=> Free(f[n], i)
  <2> SUFFICES ASSUME NEW i \in 1..n PROVE i \in f[n] <=> Free(f[n], i)
    OBVIOUS
  <2>1. i \in 0..n /\ i - 1 \in 0..n
    BY <1>1
  <2>2. i \in f[n] <=> i \in f[i]
    BY <1>8, <2>1
  <2>3. i \notin f[i - 1]
    BY <1>7, <2>1
  <2>4. i \in f[i] <=> Free(f[i - 1], i)
    BY <1>6, <2>3
  <2>5. f[i - 1] = f[n] \cap (1..(i - 1)) /\ f[n] \subseteq 1..n
    BY <1>1, <1>7, <1>8, <2>1
  <2>6. Free(f[i - 1], i) <=> Free(f[n], i)
    BY <1>1, <2>5 DEF Free
  <2> QED BY <2>2, <2>4, <2>6
<1> DEFINE h == [i \in DOMAIN t |-> i \in f[n]]
<1>10. Is(h)
  <2> DEFINE right(i) == i \in P /\ \A j \in DOMAIN t : j < i /\ i < j + L => ~(j \in f[n])
  <2>1. f[n] \subseteq DOMAIN t
    BY <1>1, <1>7
  <2>2. ASSUME NEW i \in DOMAIN t PROVE (i \in f[n]) <=> right(i)
    BY <1>1, <1>9, <2>1 DEF Free
  <2>3. \A i \in DOMAIN t : (i \in f[n]) = right(i)
    <3>1. \A i \in DOMAIN t : right(i) \in BOOLEAN /\ (i \in f[n]) \in BOOLEAN
      OBVIOUS
    <3> HIDE DEF right
    <3> QED BY <2>2, <3>1
  <2>4. h = [i \in DOMAIN t |-> right(i)]
    BY <2>3, Zenon
  <2>5. \A j \in DOMAIN t : h[j] = (j \in f[n])
    OBVIOUS
  <2> HIDE DEF h
  <2>6. \A i \in DOMAIN t : right(i) = (i \in P /\ \A j \in DOMAIN t : j < i /\ i < j + L => ~h[j])
    BY <2>5
  <2> HIDE DEF right
  <2> QED BY <2>4, <2>6, Zenon
<1>11. Is(taken)
  BY <1>10
<1> HIDE DEF taken
<1> DEFINE T == Taken(t, o)
<1>12. T \subseteq DOMAIN t /\ \A i \in DOMAIN t : i \in T <=> taken[i]
  BY <1>2
<1>13. \A i \in DOMAIN t : i \in T <=> i \in P /\ \A j \in T : ~(j < i /\ i < j + L)
  BY <1>11, <1>12
<1>14. \A i \in DOMAIN t : \A j \in T : ~(j < i /\ i < j + L) <=> (j < i => j + L <= i)
  BY <1>1, <1>12
<1> HIDE DEF T
<1> QED BY <1>12, <1>13, <1>14 DEF T, P, L

-----------------------------------------------------------------------------
(* A replacement that changes something.                                   *)

\* Places that do not overlap, of something that is L long, in n characters.
Apart(T, L, n) ==
    /\ T \subseteq 1..n /\ \A p \in T : p + L <= n + 1
    /\ \A i, j \in T : j < i => j + L <= i

Inside(T, L, i) == \E j \in T : j < i /\ i < j + L

\* How long the beginnings of the result are, if each of these places gets K.
Measures(len, T, K, L, n) ==
    /\ len \in [0..n -> Nat] /\ len[0] = 0
    /\ \A i \in 1..n : len[i] = len[i - 1] + (IF i \in T THEN K ELSE IF Inside(T, L, i) THEN 0 ELSE 1)

\* What is replaced by something longer makes the text longer,
LEMMA Longer ==
    ASSUME NEW n \in Nat, NEW K \in Nat, NEW L \in Nat, L > 0, K > L, NEW T, Apart(T, L, n), T # {},
           NEW len, Measures(len, T, K, L, n)
    PROVE  len[n] > n
<1> DEFINE Long(i) == /\ len[i] >= i
                      /\ \A j \in T : j <= i => len[i] > i
                      /\ \A j \in T : j <= i /\ i < j + L => len[i] >= j + L
           S == {i \in 0..n : Long(i)}
<1>1. 0 \in S
  BY DEF Apart, Measures
<1>2. ASSUME NEW i \in 0..(n - 1), i \in S PROVE i + 1 \in S
  <2>1. i + 1 \in 1..n /\ (i + 1) - 1 = i /\ i \in 0..n /\ len[i] \in Nat /\ len[i + 1] \in Nat
    BY DEF Measures
  <2>2. T \subseteq Nat /\ \A a, b \in T : b < a => b + L <= a
    BY DEF Apart
  <2>3. len[i + 1] = len[i] + (IF i + 1 \in T THEN K ELSE IF Inside(T, L, i + 1) THEN 0 ELSE 1)
    BY <2>1 DEF Measures
  <2>4. CASE i + 1 \in T
    <3>1. len[i + 1] >= (i + 1) + L
      BY <1>2, <2>1, <2>3, <2>4
    <3>2. \A j \in T : j <= i + 1 /\ i + 1 < j + L => j = i + 1
      BY <2>1, <2>2, <2>4
    <3> QED BY <2>1, <3>1, <3>2
  <2>5. CASE i + 1 \notin T /\ Inside(T, L, i + 1)
    <3>1. len[i + 1] = len[i]
      BY <2>1, <2>3, <2>5
    <3>2. \A j \in T : j <= i + 1 => j <= i
      BY <2>1, <2>2, <2>5
    <3>3. PICK j \in T : j < i + 1 /\ i + 1 < j + L
      BY <2>5 DEF Inside
    <3>4. len[i] >= j + L
      BY <1>2, <2>1, <2>2, <3>3
    <3>5. len[i] > i + 1
      BY <2>1, <2>2, <3>3, <3>4
    <3>6. \A k \in T : k <= i + 1 /\ i + 1 < k + L => len[i] >= k + L
      BY <1>2, <2>1, <2>2, <3>2
    <3> QED BY <2>1, <3>1, <3>5, <3>6
  <2>6. CASE i + 1 \notin T /\ ~Inside(T, L, i + 1)
    <3>1. len[i + 1] = len[i] + 1
      BY <2>3, <2>6
    <3>2. \A j \in T : j <= i + 1 => j <= i /\ ~(i + 1 < j + L)
      BY <2>1, <2>2, <2>6 DEF Inside
    <3> QED BY <1>2, <2>1, <3>1, <3>2
  <2> QED BY <2>4, <2>5, <2>6
<1> HIDE DEF S
<1>3. 0..n \subseteq S
  BY <1>1, <1>2, Upwards
<1>4. Long(n)
  BY <1>3 DEF S
<1>5. PICK p \in T : p \in 1..n
  BY DEF Apart
<1> QED BY <1>4, <1>5

\* by something shorter shorter,
LEMMA Shorter ==
    ASSUME NEW n \in Nat, NEW K \in Nat, NEW L \in Nat, L > 0, K < L, NEW T, Apart(T, L, n), T # {},
           NEW len, Measures(len, T, K, L, n)
    PROVE  len[n] < n
<1> DEFINE Outside(i) == \A j \in T : ~(j <= i /\ i < j + L)
           Short(i) == /\ Outside(i) => len[i] <= i
                       /\ Outside(i) /\ (\E j \in T : j <= i) => len[i] < i
                       /\ \A j \in T : j <= i /\ i < j + L => len[i] <= j + L - 2
           S == {i \in 0..n : Short(i)}
<1>1. 0 \in S
  BY DEF Apart, Measures
<1>2. ASSUME NEW i \in 0..(n - 1), i \in S PROVE i + 1 \in S
  <2>1. i + 1 \in 1..n /\ (i + 1) - 1 = i /\ i \in 0..n /\ len[i] \in Nat /\ len[i + 1] \in Nat
    BY DEF Measures
  <2>2. T \subseteq Nat /\ \A a, b \in T : b < a => b + L <= a
    BY DEF Apart
  <2>3. len[i + 1] = len[i] + (IF i + 1 \in T THEN K ELSE IF Inside(T, L, i + 1) THEN 0 ELSE 1)
    BY <2>1 DEF Measures
  <2>4. CASE i + 1 \in T
    <3>0. len[i] <= i
      <4>1. CASE Outside(i)
        BY <1>2, <4>1
      <4>2. CASE ~Outside(i)
        <5>1. PICK j \in T : j <= i /\ i < j + L
          BY <4>2
        <5>2. j + L <= i + 1 /\ len[i] <= j + L - 2
          BY <1>2, <2>1, <2>2, <2>4, <5>1
        <5> QED BY <2>1, <2>2, <5>1, <5>2
      <4> QED BY <4>1, <4>2
    <3>1. len[i + 1] <= (i + 1) + L - 2
      BY <2>1, <2>3, <2>4, <3>0
    <3>2. \A j \in T : j <= i + 1 /\ i + 1 < j + L => j = i + 1
      BY <2>1, <2>2, <2>4
    <3>3. ~Outside(i + 1)
      BY <2>1, <2>4
    <3> QED BY <2>1, <3>1, <3>2, <3>3
  <2>5. CASE i + 1 \notin T /\ Inside(T, L, i + 1)
    <3>1. len[i + 1] = len[i]
      BY <2>1, <2>3, <2>5
    <3>2. \A j \in T : j <= i + 1 => j <= i
      BY <2>1, <2>2, <2>5
    <3>3. ~Outside(i + 1)
      BY <2>1, <2>2, <2>5 DEF Inside
    <3>4. \A k \in T : k <= i + 1 /\ i + 1 < k + L => len[i] <= k + L - 2
      BY <1>2, <2>1, <2>2, <3>2
    <3> QED BY <2>1, <3>1, <3>3, <3>4
  <2>6. CASE i + 1 \notin T /\ ~Inside(T, L, i + 1)
    <3>1. len[i + 1] = len[i] + 1
      BY <2>3, <2>6
    <3>2. \A j \in T : j <= i + 1 => j <= i /\ ~(i + 1 < j + L)
      BY <2>1, <2>2, <2>6 DEF Inside
    <3>3. CASE Outside(i)
      BY <1>2, <2>1, <3>1, <3>2, <3>3
    <3>4. CASE ~Outside(i)
      <4>1. PICK j \in T : j <= i /\ i < j + L
        BY <3>4
      <4>2. i + 1 = j + L /\ len[i] <= j + L - 2
        BY <1>2, <2>1, <2>2, <3>2, <4>1
      <4>3. len[i + 1] < i + 1
        BY <2>1, <2>2, <3>1, <4>2
      <4> QED BY <2>1, <3>2, <4>3
    <3> QED BY <3>3, <3>4
  <2> QED BY <2>4, <2>5, <2>6
<1> HIDE DEF S
<1>3. 0..n \subseteq S
  BY <1>1, <1>2, Upwards
<1>4. Short(n)
  BY <1>3 DEF S
<1>5. PICK p \in T : p \in 1..n
  BY DEF Apart
<1>6. CASE Outside(n)
  BY <1>4, <1>5, <1>6
<1>7. CASE ~Outside(n)
  <2>1. PICK j \in T : j <= n /\ n < j + L
    BY <1>7
  <2>2. j \in 1..n /\ j + L <= n + 1 /\ len[n] <= j + L - 2
    BY <1>4, <2>1 DEF Apart
  <2>3. len[n] \in Nat
    BY DEF Measures
  <2> QED BY <2>2, <2>3
<1> QED BY <1>6, <1>7

\* and by something as long leaves every place where it was.
LEMMA AsLong ==
    ASSUME NEW n \in Nat, NEW L \in Nat, L > 0, NEW T, Apart(T, L, n),
           NEW len, Measures(len, T, L, L, n), NEW p \in T
    PROVE  len[p - 1] = p - 1
<1> DEFINE Outside(i) == \A j \in T : ~(j <= i /\ i < j + L)
           Equal(i) == /\ Outside(i) => len[i] = i
                       /\ \A j \in T : j <= i /\ i < j + L => len[i] = j + L - 1
           S == {i \in 0..n : Equal(i)}
<1>0. \A i \in 0..n : Equal(i) /\ i + 1 \in T => len[i] = i
  BY DEF Apart
<1>1. 0 \in S
  BY DEF Apart, Measures
<1>2. ASSUME NEW i \in 0..(n - 1), i \in S PROVE i + 1 \in S
  <2>1. i + 1 \in 1..n /\ (i + 1) - 1 = i /\ i \in 0..n /\ len[i] \in Nat /\ len[i + 1] \in Nat
    BY DEF Measures
  <2>2. T \subseteq Nat /\ \A a, b \in T : b < a => b + L <= a
    BY DEF Apart
  <2>3. len[i + 1] = len[i] + (IF i + 1 \in T THEN L ELSE IF Inside(T, L, i + 1) THEN 0 ELSE 1)
    BY <2>1 DEF Measures
  <2>4. CASE i + 1 \in T
    <3>0. len[i] = i
      BY <1>0, <1>2, <2>1, <2>4
    <3>1. len[i + 1] = (i + 1) + L - 1
      BY <2>1, <2>3, <2>4, <3>0
    <3>2. \A j \in T : j <= i + 1 /\ i + 1 < j + L => j = i + 1
      BY <2>1, <2>2, <2>4
    <3>3. ~Outside(i + 1)
      BY <2>1, <2>4
    <3> QED BY <2>1, <3>1, <3>2, <3>3
  <2>5. CASE i + 1 \notin T /\ Inside(T, L, i + 1)
    <3>1. len[i + 1] = len[i]
      BY <2>1, <2>3, <2>5
    <3>2. \A j \in T : j <= i + 1 => j <= i
      BY <2>1, <2>2, <2>5
    <3>3. ~Outside(i + 1)
      BY <2>1, <2>2, <2>5 DEF Inside
    <3>4. \A k \in T : k <= i + 1 /\ i + 1 < k + L => len[i] = k + L - 1
      BY <1>2, <2>1, <2>2, <3>2
    <3> QED BY <2>1, <3>1, <3>3, <3>4
  <2>6. CASE i + 1 \notin T /\ ~Inside(T, L, i + 1)
    <3>1. len[i + 1] = len[i] + 1
      BY <2>3, <2>6
    <3>2. \A j \in T : j <= i + 1 => j <= i /\ ~(i + 1 < j + L)
      BY <2>1, <2>2, <2>6 DEF Inside
    <3>3. len[i] = i
      <4>1. CASE Outside(i)
        BY <1>2, <4>1
      <4>2. CASE ~Outside(i)
        <5>1. PICK j \in T : j <= i /\ i < j + L
          BY <4>2
        <5>2. i + 1 = j + L /\ len[i] = j + L - 1
          BY <1>2, <2>1, <2>2, <3>2, <5>1
        <5> QED BY <2>1, <2>2, <5>2
      <4> QED BY <4>1, <4>2
    <3> QED BY <2>1, <3>1, <3>2, <3>3
  <2> QED BY <2>4, <2>5, <2>6
<1> HIDE DEF S
<1>3. 0..n \subseteq S
  BY <1>1, <1>2, Upwards
<1>4. p - 1 \in 0..n /\ (p - 1) + 1 = p
  BY DEF Apart
<1>5. Equal(p - 1)
  BY <1>3, <1>4 DEF S
<1> QED BY <1>0, <1>4, <1>5

\* What a sequence begins with stays when something is put behind it.
LEMMA Behind ==
    ASSUME NEW X, NEW s \in Seq(X), NEW u \in Seq(X)
    PROVE  /\ s \o u \in Seq(X) /\ Len(s \o u) = Len(s) + Len(u) /\ Len(s) \in Nat /\ Len(u) \in Nat
           /\ \A k \in 1..Len(s) : (s \o u)[k] = s[k]
           /\ \A k \in 1..Len(u) : (s \o u)[Len(s) + k] = u[k]
<1> DEFINE l == Len(s)  m == Len(u)  v == s \o u
<1>1. l \in Nat /\ m \in Nat
  BY LenProperties
<1>2. /\ v \in Seq(X) /\ Len(v) = l + m
      /\ \A k \in 1..(l + m) : v[k] = IF k <= l THEN s[k] ELSE u[k - l]
  BY ConcatProperties
<1> HIDE DEF l, m, v
<1>3. \A k \in 1..l : v[k] = s[k]
  BY <1>1, <1>2
<1>4. ASSUME NEW k \in 1..m PROVE v[l + k] = u[k]
  <2>1. l + k \in 1..(l + m) /\ ~(l + k <= l) /\ (l + k) - l = k
    BY <1>1
  <2> QED BY <1>2, <2>1
<1> QED BY <1>1, <1>2, <1>3, <1>4 DEF l, m, v

\* What the first characters have become does not change any more.
LEMMA Beginnings ==
    ASSUME NEW X, NEW t \in Seq(X), NEW u \in Seq(X), NEW T, NEW o, NEW f, Spliced(f, X, t, T, o, u),
           NEW p \in 1..Len(t), NEW k \in 1..Len(f[p])
    PROVE  f[Len(t)][k] = f[p][k]
<1> DEFINE n == Len(t)
           S == {i \in 0..n : i >= p => Len(f[i]) >= Len(f[p]) /\ f[i][k] = f[p][k]}
<1>0. /\ n \in Nat /\ \A i \in 1..n : t[i] \in X
  BY LenProperties, ElementOfSeq
<1>1. f \in [0..n -> Seq(X)] /\ \A i \in 1..n : f[i] = f[i - 1] \o Piece(t, T, o, u, i)
  BY DEF Spliced
<1>2. \A i \in 1..n : Piece(t, T, o, u, i) \in Seq(X)
  <2>1. \A x \in X : <<x>> \in Seq(X)
    OBVIOUS
  <2>2. <<>> \in Seq(X)
    OBVIOUS
  <2> QED BY <1>0, <2>1, <2>2 DEF Piece
<1>6. f[p] \in Seq(X)
  <2>1. p \in 0..n
    BY <1>0
  <2> QED BY <1>1, <2>1
<1> HIDE DEF n
<1>3. 0 \in S
  BY <1>0 DEF n
<1>4. ASSUME NEW i \in 0..(n - 1), i \in S PROVE i + 1 \in S
  <2>1. i + 1 \in 1..n /\ (i + 1) - 1 = i /\ i \in 0..n /\ i + 1 \in 0..n
    BY <1>0
  <2> DEFINE s == f[i]  v == Piece(t, T, o, u, i + 1)
  <2>2. s \in Seq(X) /\ v \in Seq(X) /\ f[i + 1] = s \o v
    BY <1>1, <1>2, <2>1
  <2> HIDE DEF s, v
  <2>3. /\ Len(s \o v) = Len(s) + Len(v) /\ Len(s) \in Nat /\ Len(v) \in Nat
        /\ \A m \in 1..Len(s) : (s \o v)[m] = s[m]
    BY <2>2, Behind
  <2>4. CASE i >= p
    <3>1. Len(s) >= Len(f[p]) /\ s[k] = f[p][k]
      BY <1>4, <2>4 DEF s
    <3>2. f[p] \in Seq(X)
      BY <1>6
    <3>3. Len(f[p]) \in Nat
      BY <3>2, LenProperties
    <3>4. k \in 1..Len(s)
      BY <2>3, <3>1, <3>3
    <3>5. Len(f[i + 1]) >= Len(f[p]) /\ f[i + 1][k] = f[p][k]
      BY <2>2, <2>3, <3>1, <3>3, <3>4
    <3> QED BY <2>1, <3>5
  <2>5. CASE i + 1 = p
    <3>1. f[p] \in Seq(X)
      BY <1>6
    <3>2. Len(f[p]) \in Nat
      BY <3>1, LenProperties
    <3> QED BY <2>1, <2>5, <3>2
  <2>6. CASE i + 1 < p
    BY <1>0, <2>1, <2>6
  <2> QED BY <1>0, <2>4, <2>5, <2>6
<1> HIDE DEF S
<1>5. 0..n \subseteq S
  BY <1>0, <1>3, <1>4, Upwards
<1> QED BY <1>0, <1>5 DEF n, S

\* At each of the places in t there is an o.
LEMMA PlacesAre ==
    ASSUME NEW X, NEW t \in Seq(X), NEW o \in Seq(X)
    PROVE  \A p \in Places(t, o) : /\ p \in 1..(Len(t) + 1) /\ p + Len(o) <= Len(t) + 1
                                   /\ \A k \in 1..Len(o) : t[p + k - 1] = o[k]
<1> DEFINE n == Len(t)  L == Len(o)
<1>1. n \in Nat /\ L \in Nat /\ t \in [1..n -> X]
  BY LenProperties
<1> HIDE DEF n, L
<1> SUFFICES ASSUME NEW p \in Places(t, o)
             PROVE  p \in 1..(n + 1) /\ p + L <= n + 1 /\ \A k \in 1..L : t[p + k - 1] = o[k]
  BY DEF n, L
<1>2. p \in 1..(n + 1 - L) /\ SubSeq(t, p, p + L - 1) = o
  BY DEF Places, n, L
<1>3. p \in 1..(n + 1) /\ p + L <= n + 1
  BY <1>1, <1>2
<1>4. \A i \in p..(p + L - 1) : t[i] \in X
  BY <1>1, <1>2
<1> DEFINE q == p + L - 1
<1>5. p \in Int /\ q \in Int /\ q - p + 1 = L
  BY <1>1, <1>2
<1>6. \A k \in 1..(q - p + 1) : SubSeq(t, p, q)[k] = t[p + k - 1]
  BY <1>4, <1>5, SubSeqProperties
<1> HIDE DEF q
<1>7. \A k \in 1..L : o[k] = t[p + k - 1]
  BY <1>2, <1>5, <1>6 DEF q
<1> QED BY <1>3, <1>7

\* Whoever puts something else in the place of what is there changes the text.
LEMMA SpliceDiffers ==
    ASSUME NEW X, NEW t \in Seq(X), NEW o \in Seq(X), NEW u \in Seq(X), o # <<>>, u # o,
           NEW T, T \subseteq Places(t, o), T # {}, T \subseteq DOMAIN t,
           \A i, j \in T : j < i => j + Len(o) <= i
    PROVE  Splice(t, T, o, u) # t
<1>a. \A p \in T : p + Len(o) <= Len(t) + 1 /\ \A k \in 1..Len(o) : t[p + k - 1] = o[k]
  BY PlacesAre
<1>b. \A s \in Seq(X) : /\ Len(s \o u) = Len(s) + Len(u)
                         /\ \A k \in 1..Len(u) : (s \o u)[Len(s) + k] = u[k]
  BY Behind
<1> DEFINE n == Len(t)  L == Len(o)  K == Len(u)
<1>1. /\ n \in Nat /\ L \in Nat /\ L > 0 /\ K \in Nat /\ DOMAIN t = 1..n
      /\ \A i \in 1..n : t[i] \in X
  BY LenProperties, ElementOfSeq, EmptySeq
<1>2. PICK f : Spliced(f, X, t, T, o, u) /\ Splice(t, T, o, u) = f[n]
  BY Pieces
<1>3. /\ f \in [0..n -> Seq(X)] /\ f[0] = <<>>
      /\ \A i \in 1..n : f[i] = f[i - 1] \o Piece(t, T, o, u, i)
  BY <1>2 DEF Spliced
<1> HIDE DEF n, L, K
<1>4. Apart(T, L, n)
  <2>1. T \subseteq 1..n
    BY <1>1
  <2>2. \A p \in T : p + L <= n + 1
    BY <1>a DEF L, n
  <2>3. \A i, j \in T : j < i => j + L <= i
    BY DEF L
  <2> QED BY <2>1, <2>2, <2>3 DEF Apart
<1> DEFINE len == [i \in 0..n |-> Len(f[i])]
<1>5. Measures(len, T, K, L, n)
  <2>1. len \in [0..n -> Nat]
    <3>1. \A i \in 0..n : Len(f[i]) \in Nat
      BY <1>3, LenProperties
    <3> QED BY <3>1
  <2>2. len[0] = 0
    BY <1>1, <1>3
  <2>3. ASSUME NEW i \in 1..n
        PROVE  len[i] = len[i - 1] + (IF i \in T THEN K ELSE IF Inside(T, L, i) THEN 0 ELSE 1)
    <3> DEFINE s == f[i - 1]  x == t[i]  v == Piece(t, T, o, u, i)
    <3>1. i \in 0..n /\ i - 1 \in 0..n
      BY <1>1
    <3>2. s \in Seq(X) /\ x \in X /\ f[i] = s \o v
      BY <1>1, <1>3, <3>1
    <3>3. v = IF i \in T THEN u ELSE IF Inside(T, L, i) THEN <<>> ELSE <<x>>
      BY DEF Piece, Covered, Inside, L
    <3> HIDE DEF s, x, v
    <3>4. <<x>> \in Seq(X) /\ Len(<<x>>) = 1 /\ <<>> \in Seq(X) /\ Len(<<>>) = 0
      BY <3>2
    <3>5. v \in Seq(X) /\ Len(v) = IF i \in T THEN K ELSE IF Inside(T, L, i) THEN 0 ELSE 1
      BY <3>3, <3>4 DEF K
    <3>6. Len(s \o v) = Len(s) + Len(v)
      BY <3>2, <3>5, Behind
    <3>7. len[i] = Len(s \o v) /\ len[i - 1] = Len(s)
      BY <3>1, <3>2 DEF s
    <3> QED BY <3>5, <3>6, <3>7
  <2> HIDE DEF len
  <2> QED BY <2>1, <2>2, <2>3 DEF Measures
<1>6. len[n] = Len(f[n])
  BY <1>1
<1> HIDE DEF len
<1> SUFFICES ASSUME f[n] = t PROVE FALSE
  BY <1>2
<1>7. len[n] = n
  BY <1>6 DEF n
<1>8. K = L
  BY <1>1, <1>4, <1>5, <1>7, Longer, Shorter
<1>9. PICK p \in T : TRUE
  OBVIOUS
<1>10. p \in 1..n /\ p - 1 \in 0..n /\ p \in Places(t, o) /\ p + L <= n + 1
  BY <1>1, <1>4, <1>9 DEF Apart
<1>11. len[p - 1] = p - 1
  BY <1>1, <1>4, <1>5, <1>8, <1>9, AsLong
<1> DEFINE s == f[p - 1]
<1>12. s \in Seq(X) /\ Len(s) = p - 1 /\ f[p] = s \o u
  BY <1>3, <1>9, <1>10, <1>11 DEF Piece, len
<1> HIDE DEF s
<1>13. Len(s \o u) = Len(s) + K /\ \A k \in 1..K : (s \o u)[Len(s) + k] = u[k]
  BY <1>12, <1>b DEF K
<1>14. ASSUME NEW k \in 1..L PROVE u[k] = o[k]
  <2>1. (p - 1) + k = p + k - 1 /\ p + k - 1 \in 1..Len(f[p])
    BY <1>1, <1>8, <1>10, <1>12, <1>13
  <2>2. f[p][p + k - 1] = u[k]
    BY <1>8, <1>12, <1>13, <2>1
  <2>3. f[n][p + k - 1] = f[p][p + k - 1]
    BY <1>2, <1>10, <2>1, Beginnings DEF n
  <2>4. t[p + k - 1] = o[k]
    BY <1>a, <1>9 DEF L
  <2> QED BY <2>2, <2>3, <2>4
<1>15. u = o
  BY <1>8, <1>14, SeqEqual DEF K, L
<1> QED BY <1>15

-----------------------------------------------------------------------------
(* multiedit's edits and those of edit.                                    *)

\* An edit of texts over X that says what to replace and changes it.
Proper(e, X) == e.old \in Seq(X) /\ e.new \in Seq(X) /\ e.old # <<>> /\ e.old # e.new

\* What Count counts begins inside of the text, and nothing of it overlaps.
LEMMA TakenApart ==
    ASSUME NEW X, NEW t \in Seq(X), NEW o \in Seq(X), o # <<>>
    PROVE  /\ Taken(t, o) \subseteq Places(t, o) /\ Taken(t, o) \subseteq DOMAIN t
           /\ \A i, j \in Taken(t, o) : j < i => j + Len(o) <= i
<1>1. Len(o) \in Nat
  BY LenProperties
<1>2. /\ Taken(t, o) \subseteq DOMAIN t
      /\ \A i \in DOMAIN t : i \in Taken(t, o) <=>
            i \in Places(t, o) /\ \A j \in Taken(t, o) : j < i => j + Len(o) <= i
  BY <1>1, TakenIs
<1> QED BY <1>2

\* One that is the first and the last is the one that Count counts.
LEMMA OnePlace ==
    ASSUME NEW X, NEW t \in Seq(X), NEW o \in Seq(X), o # <<>>, Cardinality(Places(t, o)) = 1
    PROVE  Taken(t, o) = Places(t, o)
<1> DEFINE n == Len(t)  L == Len(o)
<1>1. /\ n \in Nat /\ L \in Nat /\ L > 0 /\ DOMAIN t = 1..n
  BY LenProperties, EmptySeq
<1>2. Places(t, o) \subseteq 1..n
  BY <1>1 DEF Places
<1>3. PICK p : Places(t, o) = {p}
  <2>1. IsFiniteSet(1..n)
    BY <1>1, FS_Interval
  <2>2. IsFiniteSet(Places(t, o))
    BY <1>2, <2>1, FS_Subset
  <2> QED BY <2>2, FS_Singleton
<1>4. /\ Taken(t, o) \subseteq DOMAIN t
      /\ \A i \in DOMAIN t : i \in Taken(t, o) <=>
            i \in Places(t, o) /\ \A j \in Taken(t, o) : j < i => j + L <= i
  BY <1>1, TakenIs
<1>5. Taken(t, o) \subseteq {p}
  BY <1>3, <1>4
<1>6. p \in Taken(t, o)
  <2>1. p \in 1..n
    BY <1>2, <1>3
  <2>2. \A j \in Taken(t, o) : ~(j < p)
    BY <1>5, <2>1
  <2> QED BY <1>1, <1>3, <1>4, <2>1, <2>2
<1> QED BY <1>3, <1>5, <1>6

\* multiedit is the stricter of the two.
LEMMA AppliedIsEdited ==
    ASSUME NEW X, NEW t \in Seq(X), NEW e, Proper(e, X)
    PROVE  applyEditToContent(t, e) \subseteq EditText(t, e)
<1> DEFINE o == e.old  u == e.new  T == Taken(t, o)
<1>1. o \in Seq(X) /\ u \in Seq(X) /\ o # <<>> /\ o # u
  BY DEF Proper
<1> SUFFICES ASSUME NEW r \in applyEditToContent(t, e) PROVE r \in EditText(t, e)
  OBVIOUS
<1> DEFINE places == IF e.all THEN T ELSE Places(t, o)
<1>2. r = Splice(t, places, o, u) /\ places # {} /\ (e.all \/ Cardinality(places) = 1)
  BY DEF applyEditToContent
<1>3. places = T
  BY <1>1, <1>2, OnePlace
<1>4. Splice(t, T, o, u) # t
  <2>1. T # {}
    BY <1>2, <1>3
  <2>2. /\ T \subseteq Places(t, o) /\ T \subseteq DOMAIN t
        /\ \A i, j \in T : j < i => j + Len(o) <= i
    BY <1>1, TakenApart
  <2> HIDE DEF T, o, u
  <2> QED BY <1>1, <2>1, <2>2, SpliceDiffers
<1> QED BY <1>2, <1>3, <1>4 DEF EditText

\* An edit makes texts of texts.
LEMMA EditedTyped ==
    ASSUME NEW X, NEW t \in Seq(X), NEW e, e.new \in Seq(X)
    PROVE  applyEditToContent(t, e) \subseteq Seq(X) /\ EditText(t, e) \subseteq Seq(X)
<1>1. \A places : Splice(t, places, e.old, e.new) \in Seq(X)
  BY SpliceTyped
<1> QED BY <1>1 DEF applyEditToContent, EditText

-----------------------------------------------------------------------------
\* A text that has a CRLF is not its own with Unix line endings.
LEMMA NoEndings ==
    ASSUME NEW X, NEW t \in Seq(X), {"CR", "LF"} \subseteq X, Unix(t) = t
    PROVE  Places(t, CRLF) = {}
<1> DEFINE n == Len(t)
           At(i) == t[i] = "CR" /\ i < n /\ t[i + 1] = "LF"
           piece == [i \in DOMAIN t |-> IF At(i) THEN <<>> ELSE <<t[i]>>]
<1>1. n \in Nat /\ DOMAIN t = 1..n /\ \A i \in 1..n : t[i] \in X
  BY LenProperties, ElementOfSeq
<1>2. \A p \in Places(t, CRLF) : p \in 1..n /\ At(p)
  <2>1. CRLF \in Seq(X) /\ Len(CRLF) = 2 /\ CRLF[1] = "CR" /\ CRLF[2] = "LF"
    BY DEF CRLF
  <2>0. CRLF \in Seq(X)
    BY <2>1
  <2>a. \A p \in Places(t, CRLF) :
            /\ p \in 1..(n + 1) /\ p + Len(CRLF) <= n + 1
            /\ \A k \in 1..Len(CRLF) : t[p + k - 1] = CRLF[k]
    BY <2>0, PlacesAre
  <2> SUFFICES ASSUME NEW p \in Places(t, CRLF) PROVE p \in 1..n /\ At(p)
    OBVIOUS
  <2>2. p \in 1..(n + 1) /\ p + 2 <= n + 1 /\ \A k \in 1..2 : t[p + k - 1] = CRLF[k]
    BY <2>1, <2>a
  <2>3. p + 1 - 1 = p /\ p + 2 - 1 = p + 1 /\ p \in 1..n /\ p < n
    BY <1>1, <2>2
  <2>4. 1 \in 1..2 /\ 2 \in 1..2
    OBVIOUS
  <2>5. t[p + 1 - 1] = "CR" /\ t[p + 2 - 1] = "LF"
    BY <2>1, <2>2, <2>4
  <2> QED BY <2>3, <2>5
<1>3. piece \in Seq(Seq(X)) /\ Len(piece) = n
  <2>1. \A i \in 1..n : piece[i] \in Seq(X)
    <3>1. (\A x \in X : <<x>> \in Seq(X)) /\ <<>> \in Seq(X)
      OBVIOUS
    <3> QED BY <1>1, <3>1
  <2> QED BY <1>1, <2>1
<1>4. \A i \in 1..n : /\ At(i) => piece[i] = <<>>
                      /\ ~At(i) => piece[i] = <<t[i]>>
  BY <1>1
<1>5. FlattenSeq(piece) = t
  BY DEF Unix
<1> HIDE DEF n, At, piece
<1>6. PICK f \in [0..n -> Seq(X)] : /\ f[0] = <<>> /\ t = f[n]
                                     /\ \A i \in 1..n : f[i] = f[i - 1] \o piece[i]
  BY <1>3, <1>5, Flattened
<1>7. \A i \in 1..n : piece[i] \in Seq(X) /\ Len(piece[i]) = IF At(i) THEN 0 ELSE 1
  <2>1. \A x \in X : <<x>> \in Seq(X) /\ Len(<<x>>) = 1
    OBVIOUS
  <2>2. <<>> \in Seq(X) /\ Len(<<>>) = 0
    OBVIOUS
  <2> QED BY <1>1, <1>4, <2>1, <2>2
<1> DEFINE len == [i \in 0..n |-> Len(f[i])]
<1>8. /\ len[0] = 0 /\ \A i \in 0..n : len[i] \in Nat
      /\ \A i \in 1..n : len[i] = len[i - 1] + IF At(i) THEN 0 ELSE 1
  <2>1. len[0] = 0
    BY <1>1, <1>6
  <2>2. \A i \in 0..n : len[i] \in Nat
    BY <1>6, LenProperties
  <2>3. ASSUME NEW i \in 1..n PROVE len[i] = len[i - 1] + IF At(i) THEN 0 ELSE 1
    <3> DEFINE s == f[i - 1]  v == piece[i]
    <3>1. i \in 0..n /\ i - 1 \in 0..n
      BY <1>1
    <3>2. s \in Seq(X) /\ v \in Seq(X) /\ f[i] = s \o v /\ Len(v) = IF At(i) THEN 0 ELSE 1
      BY <1>6, <1>7, <3>1
    <3>3. len[i] = Len(f[i]) /\ len[i - 1] = Len(s)
      BY <3>1
    <3> HIDE DEF s, v
    <3>4. Len(s \o v) = Len(s) + Len(v)
      BY <3>2, Behind
    <3> QED BY <3>2, <3>3, <3>4
  <2> QED BY <2>1, <2>2, <2>3
<1>9. len[n] = n
  <2>1. n \in 0..n
    BY <1>1
  <2> QED BY <1>6, <2>1 DEF n
<1> HIDE DEF len
<1> DEFINE S == {i \in 0..n : /\ len[i] <= i
                              /\ (\E p \in 1..i : At(p)) => len[i] < i}
<1>10. 0 \in S
  BY <1>1, <1>8
<1>11. ASSUME NEW i \in 0..(n - 1), i \in S PROVE i + 1 \in S
  <2>1. i + 1 \in 1..n /\ i + 1 \in 0..n /\ i \in 0..n /\ (i + 1) - 1 = i
    BY <1>1
  <2>2. len[i + 1] = len[i] + (IF At(i + 1) THEN 0 ELSE 1) /\ len[i] \in Nat
    BY <1>8, <2>1
  <2>3. len[i + 1] <= i + 1
    BY <1>11, <2>1, <2>2
  <2>4. ASSUME NEW p \in 1..(i + 1), At(p) PROVE len[i + 1] < i + 1
    <3>1. CASE p = i + 1
      BY <1>11, <2>1, <2>2, <2>4, <3>1
    <3>2. CASE p \in 1..i
      BY <1>11, <2>1, <2>2, <2>4, <3>2
    <3> QED BY <2>1, <3>1, <3>2
  <2> QED BY <2>1, <2>3, <2>4
<1> HIDE DEF S
<1>12. 0..n \subseteq S
  BY <1>1, <1>10, <1>11, Upwards
<1>13. ~(\E p \in 1..n : At(p))
  BY <1>1, <1>9, <1>12 DEF S
<1> QED BY <1>2, <1>13

\* The edits of a text with Unix line endings are made on the text itself.
LEMMA UnixEdits ==
    ASSUME NEW X, NEW t \in Seq(X), {"CR", "LF"} \subseteq X, Unix(t) = t, NEW edits
    PROVE  MultiEditText(t, edits) \subseteq ApplyEdits(t, edits)
<1>1. Places(t, CRLF) = {}
  BY NoEndings
<1>2. CRLF \in Seq(X) /\ <<"LF">> \in Seq(X) /\ CRLF # <<>>
  BY DEF CRLF
<1>3. Taken(t, CRLF) = {}
  BY <1>1, <1>2, TakenApart
<1>4. normalizeLineEndings(t) = t
  BY <1>2, <1>3, SpliceNothing DEF normalizeLineEndings, ReplaceEvery
<1> QED BY <1>1, <1>4 DEF MultiEditText, RestoreLineEndings

\* Every one of n steps makes texts of each text, which does says.
Chains(f, V, A, n, does) ==
    /\ f \in [0..n -> SUBSET V]
    /\ f = [i \in 0..n |-> IF i = 0 THEN A ELSE UNION {does[<<r, i>>] : r \in f[i - 1]}]

\* There is such a function.
LEMMA Chained ==
    ASSUME NEW V, NEW A \in SUBSET V, NEW n \in Nat, NEW does \in [V \X (1..n) -> SUBSET V]
    PROVE  \E f : Chains(f, V, A, n, does)
<1> DEFINE W == SUBSET V
           step == [p \in W \X (1..n) |-> UNION {does[<<r, p[2]>>] : r \in p[1]}]
<1>1. step \in [W \X (1..n) -> W]
  OBVIOUS
<1>2. \A B \in W : \A i \in 1..n : step[<<B, i>>] = UNION {does[<<r, i>>] : r \in B}
  OBVIOUS
<1>3. PICK f : Walks(f, W, A, n, step)
  <2> A \in W
    OBVIOUS
  <2> HIDE DEF W, step
  <2> QED BY <1>1, Recursion
<1>4. f \in [0..n -> W] /\ f[0] = A /\ \A i \in 1..n : f[i] = step[<<f[i - 1], i>>]
  BY <1>3 DEF Walks
<1> DEFINE G(i) == IF i = 0 THEN A ELSE UNION {does[<<r, i>>] : r \in f[i - 1]}
<1>5. ASSUME NEW i \in 0..n PROVE f[i] = G(i)
  <2>1. CASE i = 0
    BY <1>4, <2>1
  <2>2. CASE i # 0
    <3>1. i \in 1..n /\ i - 1 \in 0..n
      BY <2>2
    <3>2. f[i - 1] \in W
      BY <1>4, <3>1
    <3>3. f[i] = step[<<f[i - 1], i>>]
      BY <1>4, <3>1
    <3> HIDE DEF W, step
    <3>4. f[i] = UNION {does[<<r, i>>] : r \in f[i - 1]}
      BY <1>2, <3>1, <3>2, <3>3
    <3> QED BY <2>2, <3>4
  <2> QED BY <2>1, <2>2
<1>6. f = [i \in 0..n |-> G(i)]
  <2> HIDE DEF G, W
  <2> QED BY <1>4, <1>5
<1> QED BY <1>4, <1>6 DEF Chains

\* f[i] are the texts that t may have become after i of the edits.
Stages(f, X, t, edits) == f \in [0..Len(edits) -> SUBSET Seq(X)] /\ f[0] = {t}

\* multiedit makes f[i] of f[i - 1].
AppliedAt(f, t, edits) ==
    /\ ApplyEdits(t, edits) = f[Len(edits)]
    /\ \A i \in 1..Len(edits) : f[i] = UNION {applyEditToContent(r, edits[i]) : r \in f[i - 1]}

\* ApplyEdits goes through such stages,
LEMMA AppliedStages ==
    ASSUME NEW X, NEW t \in Seq(X), NEW edits, Len(edits) \in Nat,
           \A i \in 1..Len(edits) : edits[i].new \in Seq(X)
    PROVE  \E f : Stages(f, X, t, edits) /\ AppliedAt(f, t, edits)
<1> DEFINE n == Len(edits)  V == Seq(X)  A == {t}
           Does(r, i) == applyEditToContent(r, edits[i])
           Is(g) == g = [i \in 0..n |-> IF i = 0 THEN A ELSE UNION {Does(r, i) : r \in g[i - 1]}]
           after == CHOOSE g : Is(g)
<1>1. ApplyEdits(t, edits) = after[n]
  BY DEF ApplyEdits
<1>2. n \in Nat
  OBVIOUS
<1>3. \A i \in 1..n : \A r \in V : Does(r, i) \subseteq V
  BY EditedTyped
<1>4. A \in SUBSET V
  OBVIOUS
<1> DEFINE does == [p \in V \X (1..n) |-> Does(p[1], p[2])]
<1> HIDE DEF n, Does
<1>5. does \in [V \X (1..n) -> SUBSET V]
  BY <1>3
<1>6. \A r \in V : \A i \in 1..n : does[<<r, i>>] = Does(r, i)
  OBVIOUS
<1> HIDE DEF does, V, A
<1>7. PICK f : Chains(f, V, A, n, does)
  BY <1>2, <1>4, <1>5, Chained
<1> DEFINE G(i) == IF i = 0 THEN A ELSE UNION {does[<<r, i>>] : r \in f[i - 1]}
           H(i) == IF i = 0 THEN A ELSE UNION {Does(r, i) : r \in f[i - 1]}
<1>8. f \in [0..n -> SUBSET V]
  BY <1>7 DEF Chains
<1>9. ASSUME NEW i \in 0..n PROVE G(i) = H(i)
  <2>1. CASE i # 0
    <3>1. i \in 1..n /\ i - 1 \in 0..n
      BY <1>2, <2>1
    <3>2. f[i - 1] \subseteq V
      BY <1>8, <3>1
    <3>3. \A r \in f[i - 1] : does[<<r, i>>] = Does(r, i)
      BY <1>6, <3>1, <3>2
    <3> QED BY <2>1, <3>3
  <2> QED BY <2>1
<1>10. f = [i \in 0..n |-> G(i)]
  BY <1>7 DEF Chains
<1>11. f = [i \in 0..n |-> H(i)]
  <2> HIDE DEF G, H
  <2> QED BY <1>9, <1>10
<1>12. Is(after)
  BY <1>11
<1> HIDE DEF after
<1>13. after[0] = A /\ \A i \in 1..n : after[i] = UNION {Does(r, i) : r \in after[i - 1]}
  <2>1. 0 \in 0..n
    BY <1>2
  <2>2. \A i \in 1..n : i \in 0..n /\ i # 0
    BY <1>2
  <2>3. ASSUME NEW i \in 1..n PROVE after[i] = UNION {Does(r, i) : r \in after[i - 1]}
    BY <1>12, <2>2
  <2> QED BY <1>12, <2>1, <2>3
<1> DEFINE S == {i \in 0..n : after[i] \subseteq V}
<1>14. \A i \in 0..n : after[i] \subseteq V
  <2>1. 0 \in S
    BY <1>2, <1>4, <1>13
  <2>2. \A i \in 0..(n - 1) : i \in S => i + 1 \in S
    <3> SUFFICES ASSUME NEW i \in 0..(n - 1), i \in S PROVE i + 1 \in S
      OBVIOUS
    <3>1. i + 1 \in 1..n /\ (i + 1) - 1 = i
      BY <1>2
    <3>2. after[i + 1] = UNION {Does(r, i + 1) : r \in after[i]}
      BY <1>13, <3>1
    <3> QED BY <1>3, <3>1, <3>2
  <2> HIDE DEF S
  <2>3. 0..n \subseteq S
    BY <1>2, <2>1, <2>2, Upwards
  <2> QED BY <2>3 DEF S
<1>15. after \in [0..n -> SUBSET V]
  BY <1>12, <1>14
<1> QED BY <1>1, <1>13, <1>15 DEF n, V, A, Does, Stages, AppliedAt

\* The edit tool does.
SinglyAt(f, t, edits) ==
    /\ Singly(t, edits) = f[Len(edits)]
    /\ \A i \in 1..Len(edits) : f[i] = UNION {EditText(r, edits[i]) : r \in f[i - 1]}

\* and so does the edit tool, called once for each of the edits.
LEMMA SinglyStages ==
    ASSUME NEW X, NEW t \in Seq(X), NEW edits, Len(edits) \in Nat,
           \A i \in 1..Len(edits) : edits[i].new \in Seq(X)
    PROVE  \E f : Stages(f, X, t, edits) /\ SinglyAt(f, t, edits)
<1> DEFINE n == Len(edits)  V == Seq(X)  A == {t}
           Does(r, i) == EditText(r, edits[i])
           Is(g) == g = [i \in 0..n |-> IF i = 0 THEN A ELSE UNION {Does(r, i) : r \in g[i - 1]}]
           after == CHOOSE g : Is(g)
<1>1. Singly(t, edits) = after[n]
  BY DEF Singly
<1>2. n \in Nat
  OBVIOUS
<1>3. \A i \in 1..n : \A r \in V : Does(r, i) \subseteq V
  BY EditedTyped
<1>4. A \in SUBSET V
  OBVIOUS
<1> DEFINE does == [p \in V \X (1..n) |-> Does(p[1], p[2])]
<1> HIDE DEF n, Does
<1>5. does \in [V \X (1..n) -> SUBSET V]
  BY <1>3
<1>6. \A r \in V : \A i \in 1..n : does[<<r, i>>] = Does(r, i)
  OBVIOUS
<1> HIDE DEF does, V, A
<1>7. PICK f : Chains(f, V, A, n, does)
  BY <1>2, <1>4, <1>5, Chained
<1> DEFINE G(i) == IF i = 0 THEN A ELSE UNION {does[<<r, i>>] : r \in f[i - 1]}
           H(i) == IF i = 0 THEN A ELSE UNION {Does(r, i) : r \in f[i - 1]}
<1>8. f \in [0..n -> SUBSET V]
  BY <1>7 DEF Chains
<1>9. ASSUME NEW i \in 0..n PROVE G(i) = H(i)
  <2>1. CASE i # 0
    <3>1. i \in 1..n /\ i - 1 \in 0..n
      BY <1>2, <2>1
    <3>2. f[i - 1] \subseteq V
      BY <1>8, <3>1
    <3>3. \A r \in f[i - 1] : does[<<r, i>>] = Does(r, i)
      BY <1>6, <3>1, <3>2
    <3> QED BY <2>1, <3>3
  <2> QED BY <2>1
<1>10. f = [i \in 0..n |-> G(i)]
  BY <1>7 DEF Chains
<1>11. f = [i \in 0..n |-> H(i)]
  <2> HIDE DEF G, H
  <2> QED BY <1>9, <1>10
<1>12. Is(after)
  BY <1>11
<1> HIDE DEF after
<1>13. after[0] = A /\ \A i \in 1..n : after[i] = UNION {Does(r, i) : r \in after[i - 1]}
  <2>1. 0 \in 0..n
    BY <1>2
  <2>2. \A i \in 1..n : i \in 0..n /\ i # 0
    BY <1>2
  <2>3. ASSUME NEW i \in 1..n PROVE after[i] = UNION {Does(r, i) : r \in after[i - 1]}
    BY <1>12, <2>2
  <2> QED BY <1>12, <2>1, <2>3
<1> DEFINE S == {i \in 0..n : after[i] \subseteq V}
<1>14. \A i \in 0..n : after[i] \subseteq V
  <2>1. 0 \in S
    BY <1>2, <1>4, <1>13
  <2>2. \A i \in 0..(n - 1) : i \in S => i + 1 \in S
    <3> SUFFICES ASSUME NEW i \in 0..(n - 1), i \in S PROVE i + 1 \in S
      OBVIOUS
    <3>1. i + 1 \in 1..n /\ (i + 1) - 1 = i
      BY <1>2
    <3>2. after[i + 1] = UNION {Does(r, i + 1) : r \in after[i]}
      BY <1>13, <3>1
    <3> QED BY <1>3, <3>1, <3>2
  <2> HIDE DEF S
  <2>3. 0..n \subseteq S
    BY <1>2, <2>1, <2>2, Upwards
  <2> QED BY <2>3 DEF S
<1>15. after \in [0..n -> SUBSET V]
  BY <1>12, <1>14
<1> QED BY <1>1, <1>13, <1>15 DEF n, V, A, Does, Stages, SinglyAt

\* The edits make texts of texts.
LEMMA AppliedTyped ==
    ASSUME NEW X, NEW t \in Seq(X), NEW edits, Len(edits) \in Nat,
           \A i \in 1..Len(edits) : edits[i].new \in Seq(X)
    PROVE  ApplyEdits(t, edits) \subseteq Seq(X)
<1>1. PICK f : Stages(f, X, t, edits) /\ AppliedAt(f, t, edits)
  BY AppliedStages
<1> QED BY <1>1 DEF Stages, AppliedAt

\* Whatever multiedit makes of a text, edit would make of it, too.
LEMMA AppliedSingly ==
    ASSUME NEW X, NEW t \in Seq(X), NEW edits, Len(edits) \in Nat,
           \A i \in 1..Len(edits) : Proper(edits[i], X)
    PROVE  ApplyEdits(t, edits) \subseteq Singly(t, edits)
<1> DEFINE n == Len(edits)
<1>1. \A i \in 1..n : edits[i].new \in Seq(X)
  BY DEF Proper
<1>a. PICK f : Stages(f, X, t, edits) /\ AppliedAt(f, t, edits)
  BY <1>1, AppliedStages
<1>b. PICK g : Stages(g, X, t, edits) /\ SinglyAt(g, t, edits)
  BY <1>1, SinglyStages
<1>2. /\ Stages(f, X, t, edits) /\ ApplyEdits(t, edits) = f[n]
      /\ \A i \in 1..n : f[i] = UNION {applyEditToContent(r, edits[i]) : r \in f[i - 1]}
  BY <1>a DEF AppliedAt
<1>3. /\ Stages(g, X, t, edits) /\ Singly(t, edits) = g[n]
      /\ \A i \in 1..n : g[i] = UNION {EditText(r, edits[i]) : r \in g[i - 1]}
  BY <1>b DEF SinglyAt
<1>4. f \in [0..n -> SUBSET Seq(X)] /\ f[0] = {t} /\ g[0] = {t}
  BY <1>2, <1>3 DEF Stages
<1> HIDE DEF n
<1> DEFINE S == {i \in 0..n : f[i] \subseteq g[i]}
<1>5. n \in Nat
  BY DEF n
<1>6. 0 \in S
  BY <1>4, <1>5
<1>7. ASSUME NEW i \in 0..(n - 1), i \in S PROVE i + 1 \in S
  <2>1. i + 1 \in 1..n /\ (i + 1) - 1 = i /\ i \in 0..n
    BY <1>5
  <2>2. /\ f[i + 1] = UNION {applyEditToContent(r, edits[i + 1]) : r \in f[i]}
        /\ g[i + 1] = UNION {EditText(r, edits[i + 1]) : r \in g[i]}
    BY <1>2, <1>3, <2>1
  <2>3. \A r \in Seq(X) : applyEditToContent(r, edits[i + 1]) \subseteq EditText(r, edits[i + 1])
    <3>1. Proper(edits[i + 1], X)
      BY <2>1 DEF n
    <3> QED BY <3>1, AppliedIsEdited
  <2>4. f[i] \subseteq g[i] /\ f[i] \subseteq Seq(X)
    BY <1>4, <1>7, <2>1
  <2> QED BY <2>1, <2>2, <2>3, <2>4
<1> HIDE DEF S
<1>8. 0..n \subseteq S
  BY <1>5, <1>6, <1>7, Upwards
<1>9. f[n] \subseteq g[n]
  BY <1>5, <1>8 DEF S
<1> QED BY <1>2, <1>3, <1>9

-----------------------------------------------------------------------------
(* The types of what the requests make.                                    *)

\* The edits of a request that edits.
LEMMA EditsTyped ==
    ASSUME NEW r, IsRequest(r), Editing(r)
    PROVE  /\ r.edits \in Seq([old : Texts, new : Texts, all : BOOLEAN]) /\ Len(r.edits) \in Nat
           /\ DOMAIN r.edits = 1..Len(r.edits)
           /\ \A i \in 1..Len(r.edits) : r.edits[i].old \in Texts /\ r.edits[i].new \in Texts
           /\ r.tool = "edit" => Len(r.edits) = 1
<1> DEFINE E == [old : Texts, new : Texts, all : BOOLEAN]
<1>1. r.edits \in Seq(E) /\ (r.tool = "edit" => Len(r.edits) = 1)
  BY DEF IsRequest, Editing
<1>2. \A e \in E : e.old \in Texts /\ e.new \in Texts
  OBVIOUS
<1> HIDE DEF E
<1>3. Len(r.edits) \in Nat /\ DOMAIN r.edits = 1..Len(r.edits) /\ \A i \in 1..Len(r.edits) : r.edits[i] \in E
  BY <1>1, LenProperties, ElementOfSeq
<1> QED BY <1>1, <1>2, <1>3 DEF E

\* multiedit makes texts of texts, with the endings of the file.
LEMMA MultiEditTyped ==
    ASSUME NEW t \in Texts, NEW edits, Len(edits) \in Nat,
           \A i \in 1..Len(edits) : edits[i].new \in Texts
    PROVE  MultiEditText(t, edits) \subseteq Texts
<1>1. CRLF \in Texts /\ <<"LF">> \in Texts
  BY TextsAssumption DEF CRLF, Texts
<1>2. \A s \in Texts : \A o : \A n \in Texts : ReplaceEvery(s, o, n) \in Texts
  BY SpliceTyped DEF ReplaceEvery, Texts
<1>3. normalizeLineEndings(t) \in Texts
  BY <1>1, <1>2 DEF normalizeLineEndings
<1>4. ApplyEdits(normalizeLineEndings(t), edits) \subseteq Texts
  BY <1>3, AppliedTyped DEF Texts
<1>5. \A r \in Texts : RestoreLineEndings(t, r) \in Texts
  BY <1>1, <1>2 DEF RestoreLineEndings
<1> QED BY <1>4, <1>5 DEF MultiEditText

\* A request makes a text of a text, and a text where there is none.
LEMMA RequestsTyped ==
    ASSUME NEW r, IsRequest(r)
    PROVE  /\ \A t \in Texts : r.tool # "view" => TextFrom(r, t) \subseteq Texts
           /\ NewText(r) \subseteq Texts
<1>1. r.tool \in {"view", "write", "edit", "multiedit"}
  BY DEF IsRequest
<1>2. r.tool = "write" => r.text \in Texts
  BY DEF IsRequest
<1>3. ASSUME NEW t \in Texts, r.tool # "view" PROVE TextFrom(r, t) \subseteq Texts
  <2>1. CASE r.tool = "write"
    BY <1>2, <2>1 DEF TextFrom
  <2>2. CASE r.tool = "edit"
    <3>1. r.edits[1].new \in Texts
      BY <2>2, EditsTyped DEF Editing
    <3>2. EditText(t, r.edits[1]) \subseteq Texts
      BY <3>1, EditedTyped DEF Texts
    <3> QED BY <2>2, <3>2 DEF TextFrom
  <2>3. CASE r.tool = "multiedit"
    <3>1. Len(r.edits) \in Nat /\ \A i \in 1..Len(r.edits) : r.edits[i].new \in Texts
      BY <2>3, EditsTyped DEF Editing
    <3>2. MultiEditText(t, r.edits) \subseteq Texts
      BY <3>1, MultiEditTyped
    <3> QED BY <2>3, <3>2 DEF TextFrom
  <2> QED BY <1>1, <1>3, <2>1, <2>2, <2>3
<1>4. ASSUME Creating(r) PROVE CreateText(r.edits) \subseteq Texts
  <2> DEFINE E == [old : Texts, new : Texts, all : BOOLEAN]
  <2>1. /\ r.edits \in Seq(E) /\ Len(r.edits) \in Nat /\ r.edits # <<>>
        /\ \A i \in 1..Len(r.edits) : r.edits[i].new \in Texts
    BY <1>4, EditsTyped DEF Creating
  <2> DEFINE es == Tail(r.edits)
  <2>2. Len(es) = Len(r.edits) - 1 /\ Len(es) \in Nat /\ \A i \in 1..Len(es) : es[i] = r.edits[i + 1]
    BY <2>1, HeadTailProperties, EmptySeq
  <2>3. \A i \in 1..Len(es) : es[i].new \in Texts
    BY <2>1, <2>2
  <2>4. r.edits[1].new \in Texts
    BY <2>1, EmptySeq
  <2> HIDE DEF es
  <2>5. ApplyEdits(r.edits[1].new, es) \subseteq Texts
    BY <2>2, <2>3, <2>4, AppliedTyped DEF Texts
  <2> QED BY <2>5 DEF CreateText, es
<1> QED BY <1>2, <1>3, <1>4 DEF NewText

-----------------------------------------------------------------------------
(* Types.                                                                  *)

\* There is a file wherever a call has opened one: none is taken away.
Opened == \A c \in Calls : at[c] = "put" => file # Absent

\* The requests of the calls.
LEMMA Requested ==
    ASSUME job \in Jobs
    PROVE  \A c \in Calls : IsRequest(Request(c))
BY JobsAssumption DEF Calls, Request

\* What is written over a text is one.
LEMMA WrittenTyped ==
    ASSUME NEW t \in Texts, file \in Texts, Write(t)
    PROVE  file' \in Texts
<1> DEFINE n == Len(file)  m == Len(t)  u == SubSeq(file, m + 1, n)
<1>1. n \in Nat /\ m \in Nat /\ m + 1 \in Int /\ \A i \in 1..n : file[i] \in Chars
  BY LenProperties, ElementOfSeq DEF Texts
<1>2. u \in Seq(Chars)
  <2>1. \A i \in (m + 1)..n : file[i] \in Chars
    BY <1>1
  <2> DEFINE k == m + 1
  <2>2. k \in Int /\ n \in Int /\ \A i \in k..n : file[i] \in Chars
    BY <1>1, <2>1
  <2> HIDE DEF n, m, k
  <2>3. SubSeq(file, k, n) \in Seq(Chars)
    BY <2>2, SubSeqProperties
  <2> QED BY <2>3 DEF k
<1>3. file' = t \o u
  BY DEF Write
<1> HIDE DEF u
<1> QED BY <1>2, <1>3, ConcatProperties DEF Texts

\* The same of a beginning of a text.
LEMMA CutTyped ==
    ASSUME NEW t \in Texts, file \in Texts, \E k \in 0..(Len(t) - 1) : Write(SubSeq(t, 1, k))
    PROVE  file' \in Texts
<1>1. PICK k \in 0..(Len(t) - 1) : Write(SubSeq(t, 1, k))
  OBVIOUS
<1>2. t \in Seq(Chars) /\ Len(t) \in Nat /\ \A i \in 1..Len(t) : t[i] \in Chars
  BY LenProperties, ElementOfSeq DEF Texts
<1>3. k \in Int /\ \A i \in 1..k : t[i] \in Chars
  BY <1>2
<1>4. SubSeq(t, 1, k) \in Texts
  BY <1>3, SubSeqProperties DEF Texts
<1> QED BY <1>1, <1>4, WrittenTyped

\* A call has been refused, or has a text to write.
GoesOn(c) ==
    /\ at' \in [Calls -> {"new", "stat", "read", "open", "put", "record", "done"}]
    /\ out' \in [Calls -> Texts]
    /\ answer' \in [Calls -> {"none", "refused", "failed", "unchanged", "ok"}]
    /\ at' = [at EXCEPT ![c] = "done"] \/ at' = [at EXCEPT ![c] = "open"]

\* Where a request goes on, it is with a text of its own.
LEMMA ProceedTyped ==
    ASSUME TypeOK, NEW c \in Calls, NEW from, NEW texts \in SUBSET Texts, Proceed(c, from, texts)
    PROVE  GoesOn(c)
<1>1. CASE texts = {} /\ Answer(c, from, "refused") /\ UNCHANGED out
  BY <1>1 DEF TypeOK, Answer, Goto, GoesOn
<1>2. CASE Goto(c, from, "open") /\ out' \in {[out EXCEPT ![c] = t] : t \in texts} /\ UNCHANGED answer
  <2>1. PICK t \in texts : out' = [out EXCEPT ![c] = t]
    BY <1>2
  <2> QED BY <1>2, <2>1 DEF TypeOK, Goto, GoesOn
<1> QED BY <1>1, <1>2 DEF Proceed

\* Every variable keeps its type, and texts are only made of characters.
THEOREM TypeCorrect == Spec => []TypeOK
<1> DEFINE Inv == TypeOK /\ Opened
<1>1. Init => Inv
  <2> SUFFICES ASSUME Init PROVE Inv
    OBVIOUS
  <2>1. <<>> \in Texts
    BY DEF Texts
  <2> QED BY <2>1, JobsAssumption DEF Init, TypeOK, Opened
<1>2. Inv /\ [Next]_vars => Inv'
  <2> SUFFICES ASSUME Inv, [Next]_vars PROVE Inv'
    OBVIOUS
  <2>0. /\ job \in Jobs /\ file \in Texts \cup {Absent}
        /\ \A c \in Calls : IsRequest(Request(c)) /\ out[c] \in Texts
    BY Requested DEF TypeOK
  <2>1. ASSUME NEW c \in Calls, Begin(c) PROVE Inv'
    BY <2>1 DEF Begin, Answer, Goto, TypeOK, Opened
  <2>2. ASSUME NEW c \in Calls, Stat(c) PROVE Inv'
    <3>1. CASE Goto(c, "stat", "read") /\ UNCHANGED <<out, answer>>
      BY <2>2, <3>1 DEF Stat, Goto, TypeOK, Opened
    <3>2. CASE Proceed(c, "stat", IF file = Absent THEN NewText(Request(c)) ELSE {})
      <4> DEFINE texts == IF file = Absent THEN NewText(Request(c)) ELSE {}
      <4>1. texts \in SUBSET Texts
        BY <2>0, RequestsTyped
      <4> HIDE DEF texts
      <4>2. Proceed(c, "stat", texts)
        BY <3>2 DEF texts
      <4>3. GoesOn(c)
        BY <4>1, <4>2, ProceedTyped
      <4> QED BY <2>2, <4>3 DEF Stat, TypeOK, Opened, GoesOn
    <3> QED BY <2>2, <3>1, <3>2 DEF Stat
  <2>3. ASSUME NEW c \in Calls, StatFails(c) PROVE Inv'
    <3>1. CASE Tool(c) = "write" /\ Proceed(c, "stat", {Request(c).text})
      <4> DEFINE texts == {Request(c).text}
      <4>1. texts \in SUBSET Texts
        BY <2>0, <3>1 DEF IsRequest, Tool
      <4> HIDE DEF texts
      <4>2. Proceed(c, "stat", texts)
        BY <3>1 DEF texts
      <4>3. GoesOn(c)
        BY <4>1, <4>2, ProceedTyped
      <4> QED BY <2>3, <4>3 DEF StatFails, TypeOK, Opened, GoesOn
    <3>2. CASE Answer(c, "stat", "failed") /\ UNCHANGED out
      BY <2>3, <3>2 DEF StatFails, Answer, Goto, TypeOK, Opened
    <3> QED BY <2>3, <3>1, <3>2 DEF StatFails
  <2>4. ASSUME NEW c \in Calls, ReadView(c) PROVE Inv'
    BY <2>4 DEF ReadView, Goto, TypeOK, Opened
  <2>5. ASSUME NEW c \in Calls, ReadSame(c) PROVE Inv'
    BY <2>5 DEF ReadSame, Answer, Goto, TypeOK, Opened
  <2>6. ASSUME NEW c \in Calls, Read(c) PROVE Inv'
    <3> DEFINE texts == TextFrom(Request(c), file)
    <3>1. file \in Texts /\ texts \in SUBSET Texts
      BY <2>0, <2>6, RequestsTyped DEF Read, Tool
    <3> HIDE DEF texts
    <3>2. Proceed(c, "read", texts)
      BY <2>6 DEF Read, texts
    <3>3. GoesOn(c)
      BY <3>1, <3>2, ProceedTyped
    <3> QED BY <2>6, <3>3 DEF Read, TypeOK, Opened, GoesOn
  <2>7. ASSUME NEW c \in Calls, ReadFails(c) PROVE Inv'
    BY <2>7 DEF ReadFails, Answer, Goto, TypeOK, Opened
  <2>8. ASSUME NEW c \in Calls, Open(c) PROVE Inv'
    <3>1. <<>> \in Texts
      BY DEF Texts
    <3> QED BY <2>8, <3>1, TextsAssumption DEF Open, Goto, TypeOK, Opened
  <2>9. ASSUME NEW c \in Calls, OpenFails(c) PROVE Inv'
    BY <2>9 DEF OpenFails, Answer, Goto, TypeOK, Opened
  <2>10. ASSUME NEW c \in Calls, Put(c) PROVE Inv'
    <3>1. file \in Texts
      BY <2>0, <2>10 DEF Put, Goto, Opened
    <3>2. file' \in Texts
      BY <2>0, <2>10, <3>1, WrittenTyped DEF Put
    <3> QED BY <2>10, <3>2, TextsAssumption DEF Put, Goto, TypeOK, Opened
  <2>11. ASSUME NEW c \in Calls, PutFails(c) PROVE Inv'
    <3>1. file \in Texts
      BY <2>0, <2>11 DEF PutFails, Answer, Goto, Opened
    <3>2. file' \in Texts
      BY <2>0, <2>11, <3>1, CutTyped DEF PutFails
    <3> QED BY <2>11, <3>2, TextsAssumption DEF PutFails, Answer, Goto, TypeOK, Opened
  <2>12. ASSUME NEW c \in Calls, Record(c) PROVE Inv'
    BY <2>12 DEF Record, Answer, Goto, TypeOK, Opened, recordFileRead, recordFileWrite
  <2>13. CASE UNCHANGED vars
    BY <2>13 DEF vars, TypeOK, Opened
  <2> QED BY <2>1, <2>2, <2>3, <2>4, <2>5, <2>6, <2>7, <2>8, <2>9, <2>10, <2>11, <2>12, <2>13 DEF Next
<1>3. Inv => TypeOK
  OBVIOUS
<1> HIDE DEF Inv
<1> QED BY <1>1, <1>2, <1>3, PTL DEF Spec

-----------------------------------------------------------------------------
(* Creations.                                                              *)

\* The requests stay the same.
LEMMA JobStays == [Next]_vars => job' = job
<1> SUFFICES ASSUME [Next]_vars PROVE job' = job
  OBVIOUS
<1>1. ASSUME NEW c \in Calls, Begin(c) \/ Stat(c) \/ StatFails(c) PROVE job' = job
  BY <1>1 DEF Begin, Stat, StatFails
<1>2. ASSUME NEW c \in Calls, ReadView(c) \/ ReadSame(c) \/ Read(c) \/ ReadFails(c) PROVE job' = job
  BY <1>2 DEF ReadView, ReadSame, Read, ReadFails
<1>3. ASSUME NEW c \in Calls, Open(c) \/ OpenFails(c) \/ Put(c) \/ PutFails(c) \/ Record(c)
      PROVE  job' = job
  BY <1>3 DEF Open, OpenFails, Put, PutFails, Record
<1> QED BY <1>1, <1>2, <1>3 DEF Next, vars

\* The file that was there stays, and a request to create it does not go on.
Refusing ==
    job.file # Absent =>
        /\ file # Absent
        /\ \A c \in Calls : Creating(Request(c)) => at[c] \in {"new", "stat", "done"} /\ answer[c] # "ok"

\* A request to create a file never touches one that was there all along.
THEOREM FilesAreKept == Spec => []CreationsRefused
<1>1. Init => Refusing
  BY DEF Init, Refusing
<1>2. TypeOK /\ Refusing /\ [Next]_vars => Refusing'
  <2> SUFFICES ASSUME TypeOK, Refusing, [Next]_vars, job.file # Absent PROVE Refusing'
    BY JobStays DEF Refusing
  <2>0. /\ file # Absent
        /\ \A c \in Calls : Creating(Request(c)) => at[c] \in {"new", "stat", "done"} /\ answer[c] # "ok"
    BY DEF Refusing
  <2>a. /\ file \in Texts
        /\ \A c \in Calls : IsRequest(Request(c)) /\ out[c] \in Texts
        /\ \A t \in Texts : t # Absent
    BY <2>0, Requested, TextsAssumption DEF TypeOK
  <2>b. at \in [Calls -> {"new", "stat", "read", "open", "put", "record", "done"}] /\ DOMAIN answer = Calls
    BY DEF TypeOK
  <2> DEFINE Fresh(c) == at[c] \in {"new", "stat", "done"} /\ answer[c] # "ok"
  <2>c. ASSUME job' = job, file' # Absent, \A c \in Calls : Creating(Request(c)) => Fresh(c)'
        PROVE  Refusing'
    BY <2>c DEF Refusing, Request, Creating, Editing
  <2>1. ASSUME NEW c \in Calls, Begin(c) PROVE Refusing'
    <3>1. \A d \in Calls : Creating(Request(d)) => Fresh(d)'
      BY <2>0, <2>1, <2>b DEF Begin, Answer, Goto
    <3> QED BY <2>0, <2>1, <2>c, <3>1 DEF Begin
  <2>2. ASSUME NEW c \in Calls, Stat(c) PROVE Refusing'
    <3>1. \A d \in Calls : Creating(Request(d)) => Fresh(d)'
      BY <2>0, <2>2, <2>b DEF Stat, Proceed, Answer, Goto
    <3> QED BY <2>0, <2>2, <2>c, <3>1 DEF Stat
  <2>3. ASSUME NEW c \in Calls, StatFails(c) PROVE Refusing'
    <3>1. Tool(c) = "write" => ~Creating(Request(c))
      BY DEF Tool, Creating, Editing
    <3>2. \A d \in Calls : Creating(Request(d)) => Fresh(d)'
      BY <2>0, <2>3, <2>b, <3>1 DEF StatFails, Proceed, Answer, Goto
    <3> QED BY <2>0, <2>3, <2>c, <3>2 DEF StatFails
  <2>4. ASSUME NEW c \in Calls, ReadView(c) PROVE Refusing'
    <3>1. \A d \in Calls : Creating(Request(d)) => Fresh(d)'
      BY <2>0, <2>4, <2>b DEF ReadView, Goto
    <3> QED BY <2>0, <2>4, <2>c, <3>1 DEF ReadView
  <2>5. ASSUME NEW c \in Calls, ReadSame(c) PROVE Refusing'
    <3>1. \A d \in Calls : Creating(Request(d)) => Fresh(d)'
      BY <2>0, <2>5, <2>b DEF ReadSame, Answer, Goto
    <3> QED BY <2>0, <2>5, <2>c, <3>1 DEF ReadSame
  <2>6. ASSUME NEW c \in Calls, Read(c) PROVE Refusing'
    <3>1. \A d \in Calls : Creating(Request(d)) => Fresh(d)'
      BY <2>0, <2>6, <2>b DEF Read, Proceed, Answer, Goto
    <3> QED BY <2>0, <2>6, <2>c, <3>1 DEF Read
  <2>7. ASSUME NEW c \in Calls, ReadFails(c) PROVE Refusing'
    <3>1. \A d \in Calls : Creating(Request(d)) => Fresh(d)'
      BY <2>0, <2>7, <2>b DEF ReadFails, Answer, Goto
    <3> QED BY <2>0, <2>7, <2>c, <3>1 DEF ReadFails
  <2>8. ASSUME NEW c \in Calls, Open(c) PROVE Refusing'
    <3>1. \A d \in Calls : Creating(Request(d)) => Fresh(d)'
      BY <2>0, <2>8, <2>b DEF Open, Goto
    <3>2. <<>> # Absent
      <4>1. <<>> \in Texts
        BY DEF Texts
      <4> QED BY <2>a, <4>1
    <3> QED BY <2>8, <2>c, <3>1, <3>2 DEF Open
  <2>9. ASSUME NEW c \in Calls, OpenFails(c) PROVE Refusing'
    <3>1. \A d \in Calls : Creating(Request(d)) => Fresh(d)'
      BY <2>0, <2>9, <2>b DEF OpenFails, Answer, Goto
    <3> QED BY <2>0, <2>9, <2>c, <3>1 DEF OpenFails
  <2>10. ASSUME NEW c \in Calls, Put(c) PROVE Refusing'
    <3>1. \A d \in Calls : Creating(Request(d)) => Fresh(d)'
      BY <2>0, <2>10, <2>b DEF Put, Goto
    <3>2. file' \in Texts
      BY <2>10, <2>a, WrittenTyped DEF Put
    <3> QED BY <2>10, <2>a, <2>c, <3>1, <3>2 DEF Put
  <2>11. ASSUME NEW c \in Calls, PutFails(c) PROVE Refusing'
    <3>1. \A d \in Calls : Creating(Request(d)) => Fresh(d)'
      BY <2>0, <2>11, <2>b DEF PutFails, Answer, Goto
    <3>2. file' \in Texts
      BY <2>11, <2>a, CutTyped DEF PutFails
    <3> QED BY <2>11, <2>a, <2>c, <3>1, <3>2 DEF PutFails
  <2>12. ASSUME NEW c \in Calls, Record(c) PROVE Refusing'
    <3>1. \A d \in Calls : Creating(Request(d)) => Fresh(d)'
      BY <2>0, <2>12, <2>b DEF Record, Answer, Goto
    <3> QED BY <2>0, <2>12, <2>c, <3>1 DEF Record
  <2>13. CASE UNCHANGED vars
    BY <2>0, <2>13 DEF vars, Refusing, Request
  <2> QED BY <2>1, <2>2, <2>3, <2>4, <2>5, <2>6, <2>7, <2>8, <2>9, <2>10, <2>11, <2>12, <2>13 DEF Next
<1>3. Refusing => CreationsRefused
  BY DEF Refusing, CreationsRefused
<1> QED BY <1>1, <1>2, <1>3, TypeCorrect, PTL DEF Spec

-----------------------------------------------------------------------------
(* multiedit and edit.                                                     *)

\* What a call has found, and that its edits have been looked at.
Ready(c) ==
    /\ at[c] \in {"new", "stat", "read"} => base[c] = Absent
    /\ at[c] \in {"stat", "read", "open"} /\ Editing(Request(c)) => validateEdits(Request(c).edits)
    /\ at[c] = "read" => ~Creating(Request(c))

\* What multiedit writes over a file, it has made of that.
Made(c) ==
    at[c] = "open" /\ Tool(c) = "multiedit" /\ base[c] # Absent =>
        ~Creating(Request(c)) /\ out[c] \in MultiEditText(base[c], Request(c).edits)

Computed == \A c \in Calls : Ready(c) /\ Made(c)

\* The edits of a request that does not create a file are proper ones.
LEMMA ProperEdits ==
    ASSUME NEW r, IsRequest(r), r.tool = "multiedit", validateEdits(r.edits), ~Creating(r)
    PROVE  Len(r.edits) \in Nat /\ \A i \in 1..Len(r.edits) : Proper(r.edits[i], Chars)
<1>1. /\ Editing(r) /\ Len(r.edits) \in Nat /\ DOMAIN r.edits = 1..Len(r.edits)
      /\ \A i \in 1..Len(r.edits) : r.edits[i].old \in Texts /\ r.edits[i].new \in Texts
  BY EditsTyped DEF Editing
<1>2. \A i \in 1..Len(r.edits) : r.edits[i].old # r.edits[i].new /\ (i > 1 => r.edits[i].old # <<>>)
  BY <1>1 DEF validateEdits
<1>3. r.edits[1].old # <<>>
  BY <1>1 DEF validateEdits, Creating
<1>4. \A i \in 1..Len(r.edits) : r.edits[i].old # <<>>
  BY <1>1, <1>2, <1>3
<1> QED BY <1>1, <1>2, <1>4 DEF Proper, Texts

\* What a call has computed stays what its request makes of what it has read.
LEMMA AlwaysComputed == Spec => []Computed
<1>1. Init => Computed
  BY DEF Init, Computed, Ready, Made
<1>2. TypeOK /\ Computed /\ [Next]_vars => Computed'
  <2> SUFFICES ASSUME TypeOK, Computed, [Next]_vars PROVE Computed'
    OBVIOUS
  <2>0. \A d \in Calls : Ready(d) /\ Made(d)
    BY DEF Computed
  <2>a. /\ at \in [Calls -> {"new", "stat", "read", "open", "put", "record", "done"}]
        /\ DOMAIN out = Calls /\ DOMAIN base = Calls
    BY DEF TypeOK
  <2>b. job' = job
    BY JobStays
  <2>c. \A d \in Calls : Request(d)' = Request(d) /\ Tool(d)' = Tool(d)
    BY <2>b DEF Request, Tool
  <2>d. ASSUME NEW d \in Calls, \/ at'[d] \in {"put", "record", "done"}
                                \/ at'[d] = at[d] /\ base'[d] = base[d] /\ out'[d] = out[d]
        PROVE  Ready(d)' /\ Made(d)'
    <3>1. Request(d)' = Request(d) /\ Tool(d)' = Tool(d) /\ Ready(d) /\ Made(d)
      BY <2>0, <2>c
    <3>2. CASE at'[d] = at[d] /\ base'[d] = base[d] /\ out'[d] = out[d]
      <4>1. Ready(d)'
        BY <3>1, <3>2 DEF Ready, Editing, Creating
      <4>2. Made(d)'
        BY <3>1, <3>2 DEF Made, Editing, Creating
      <4> QED BY <4>1, <4>2
    <3>3. CASE at'[d] \in {"put", "record", "done"}
      BY <3>3 DEF Ready, Made
    <3> QED BY <2>d, <3>2, <3>3
  <2>1. ASSUME NEW c \in Calls, Begin(c) PROVE Computed'
    <3>1. \A d \in Calls \ {c} : at'[d] = at[d] /\ base'[d] = base[d] /\ out'[d] = out[d]
      BY <2>1, <2>a DEF Begin, Answer, Goto
    <3>2. CASE at'[c] = "done"
      BY <2>d, <3>1, <3>2 DEF Computed
    <3>3. CASE at'[c] = "stat"
      <4>1. at[c] = "new" /\ base' = base /\ (Editing(Request(c)) => validateEdits(Request(c).edits))
        BY <2>1, <2>a, <3>3 DEF Begin, Answer, Goto
      <4>2. Ready(c)' /\ Made(c)'
        BY <2>0, <2>c, <3>3, <4>1 DEF Ready, Made, Editing, Creating
      <4> QED BY <2>d, <3>1, <4>2 DEF Computed
    <3> QED BY <2>1, <2>a, <3>2, <3>3 DEF Begin, Answer, Goto
  <2>2. ASSUME NEW c \in Calls, Stat(c) \/ StatFails(c) PROVE Computed'
    <3>1. base' = base /\ at[c] = "stat" /\ Ready(c)
      BY <2>0, <2>2 DEF Stat, StatFails, Proceed, Answer, Goto
    <3>2. \A d \in Calls \ {c} : at'[d] = at[d] /\ out'[d] = out[d]
      BY <2>2, <2>a DEF Stat, StatFails, Proceed, Answer, Goto
    <3>3. at'[c] \in {"read", "open", "done"} /\ (at'[c] = "read" => ~Creating(Request(c)))
      BY <2>2, <2>a DEF Stat, StatFails, Proceed, Answer, Goto
    <3>4. CASE at'[c] = "done"
      BY <2>d, <3>1, <3>2, <3>4 DEF Computed
    <3>5. CASE at'[c] \in {"read", "open"}
      <4>1. base'[c] = Absent /\ (Editing(Request(c)) => validateEdits(Request(c).edits))
        BY <3>1 DEF Ready
      <4>2. Ready(c)' /\ Made(c)'
        BY <2>c, <3>3, <3>5, <4>1 DEF Ready, Made, Editing, Creating
      <4> QED BY <2>d, <3>1, <3>2, <4>2 DEF Computed
    <3> QED BY <3>3, <3>4, <3>5
  <2>3. ASSUME NEW c \in Calls, Read(c) PROVE Computed'
    <3>1. base' = [base EXCEPT ![c] = file] /\ at[c] = "read" /\ Ready(c)
      BY <2>0, <2>3 DEF Read, Proceed, Answer, Goto
    <3>2. \A d \in Calls \ {c} : at'[d] = at[d] /\ out'[d] = out[d] /\ base'[d] = base[d]
      BY <2>3, <2>a, <3>1 DEF Read, Proceed, Answer, Goto
    <3>3. CASE at'[c] = "done"
      BY <2>d, <3>2, <3>3 DEF Computed
    <3>4. CASE at'[c] = "open"
      <4>1. out'[c] \in TextFrom(Request(c), file)
        BY <2>3, <2>a, <3>4 DEF Read, Proceed, Answer, Goto
      <4>2. Tool(c) = "multiedit" => out'[c] \in MultiEditText(file, Request(c).edits)
        BY <4>1 DEF TextFrom, Tool
      <4>3. base'[c] = file
        BY <2>a, <3>1
      <4>4. ~Creating(Request(c)) /\ (Editing(Request(c)) => validateEdits(Request(c).edits))
        BY <3>1 DEF Ready
      <4>5. Ready(c)'
        BY <2>c, <3>4, <4>4 DEF Ready, Editing, Creating
      <4>6. Made(c)'
        BY <2>c, <4>2, <4>3, <4>4 DEF Made, Editing, Creating
      <4> QED BY <2>d, <3>2, <4>5, <4>6 DEF Computed
    <3> QED BY <2>3, <2>a, <3>3, <3>4 DEF Read, Proceed, Answer, Goto
  <2>4. ASSUME NEW c \in Calls, ReadView(c) \/ ReadSame(c) \/ ReadFails(c) PROVE Computed'
    <3>1. at'[c] \in {"record", "done"}
      BY <2>4, <2>a DEF ReadView, ReadSame, ReadFails, Answer, Goto
    <3>2. \A d \in Calls \ {c} : at'[d] = at[d] /\ base'[d] = base[d] /\ out'[d] = out[d]
      BY <2>4, <2>a DEF ReadView, ReadSame, ReadFails, Answer, Goto
    <3> QED BY <2>d, <3>1, <3>2 DEF Computed
  <2>5. ASSUME NEW c \in Calls, Open(c) \/ OpenFails(c) \/ Put(c) \/ PutFails(c) \/ Record(c)
        PROVE  Computed'
    <3>1. at'[c] \in {"put", "record", "done"} /\ base' = base /\ out' = out
      BY <2>5, <2>a DEF Open, OpenFails, Put, PutFails, Record, Answer, Goto
    <3>2. \A d \in Calls \ {c} : at'[d] = at[d]
      BY <2>5, <2>a DEF Open, OpenFails, Put, PutFails, Record, Answer, Goto
    <3> QED BY <2>d, <3>1, <3>2 DEF Computed
  <2>6. CASE UNCHANGED vars
    BY <2>d, <2>6 DEF vars, Computed
  <2> QED BY <2>1, <2>2, <2>3, <2>4, <2>5, <2>6 DEF Next
<1> QED BY <1>1, <1>2, TypeCorrect, PTL DEF Spec

\* What multiedit is about to make of a file with Unix line endings, the edit
\* tool would have made of it with the same edits, one call each.
THEOREM MultiEditIsEdits == Spec => []EditsAgree
<1>1. TypeOK /\ Computed => EditsAgree
  <2> SUFFICES ASSUME TypeOK, Computed, NEW c \in Calls, at[c] = "open", Tool(c) = "multiedit",
                      base[c] # Absent, base[c] = Unix(base[c])
               PROVE  out[c] \in Singly(base[c], Request(c).edits)
    BY DEF EditsAgree
  <2> DEFINE r == Request(c)  t == base[c]
  <2>1. /\ IsRequest(r) /\ r.tool = "multiedit" /\ t \in Texts
        /\ validateEdits(r.edits) /\ ~Creating(r) /\ out[c] \in MultiEditText(t, r.edits)
    BY Requested DEF TypeOK, Computed, Ready, Made, Tool, Editing
  <2> HIDE DEF r, t
  <2>2. Len(r.edits) \in Nat /\ \A i \in 1..Len(r.edits) : Proper(r.edits[i], Chars)
    BY <2>1, ProperEdits
  <2>3. MultiEditText(t, r.edits) \subseteq ApplyEdits(t, r.edits)
    <3>1. Unix(t) = t
      BY DEF t
    <3> QED BY <2>1, <3>1, UnixEdits, TextsAssumption DEF Texts
  <2>4. ApplyEdits(t, r.edits) \subseteq Singly(t, r.edits)
    BY <2>1, <2>2, AppliedSingly DEF Texts
  <2> QED BY <2>1, <2>3, <2>4 DEF r, t
<1> QED BY <1>1, AlwaysComputed, TypeCorrect, PTL DEF Spec

-----------------------------------------------------------------------------
(* What the tools say of themselves: the meaning of a splice.              *)

\* A recursion that goes down: what a number gets depends on what the greater
\* ones have.
Descends(next, W, n) ==
    /\ next \in [(1..n) \X [1..n -> W] -> W]
    /\ \A i \in 1..n : \A g, h \in [1..n -> W] :
           (\A j \in 1..n : j > i => g[j] = h[j]) => next[<<i, g>>] = next[<<i, h>>]

Descended(f, next, W, n) == f \in [1..n -> W] /\ \A i \in 1..n : f[i] = next[<<i, f>>]

\* There is a function that does.
LEMMA Descent ==
    ASSUME NEW W, NEW w \in W, NEW n \in Nat, NEW next, Descends(next, W, n)
    PROVE  \E f : Descended(f, next, W, n)
<1>a. /\ next \in [(1..n) \X [1..n -> W] -> W]
      /\ \A i \in 1..n : \A g, h \in [1..n -> W] :
             (\A j \in 1..n : j > i => g[j] = h[j]) => next[<<i, g>>] = next[<<i, h>>]
  BY DEF Descends
<1> DEFINE V == [1..n -> W]  a == [j \in 1..n |-> w]
           step == [p \in V \X (1..n) |-> [p[1] EXCEPT ![n + 1 - p[2]] = next[<<n + 1 - p[2], p[1]>>]]]
<1>1. a \in V
  OBVIOUS
<1>2. \A k \in 1..n : n + 1 - k \in 1..n
  OBVIOUS
<1>3. \A g \in V : \A k \in 1..n :
          /\ step[<<g, k>>] = [g EXCEPT ![n + 1 - k] = next[<<n + 1 - k, g>>]]
          /\ next[<<n + 1 - k, g>>] \in W
  BY <1>2, <1>a
<1>4. step \in [V \X (1..n) -> V]
  <2>1. ASSUME NEW p \in V \X (1..n) PROVE step[p] \in V
    <3>1. p[1] \in V /\ p[2] \in 1..n /\ p = <<p[1], p[2]>>
      OBVIOUS
    <3>2. step[p] = [p[1] EXCEPT ![n + 1 - p[2]] = next[<<n + 1 - p[2], p[1]>>]]
      OBVIOUS
    <3>3. next[<<n + 1 - p[2], p[1]>>] \in W
      BY <1>3, <3>1
    <3> HIDE DEF step
    <3> QED BY <3>1, <3>2, <3>3
  <2>2. DOMAIN step = V \X (1..n) /\ step = [p \in V \X (1..n) |-> step[p]]
    OBVIOUS
  <2> HIDE DEF step, V
  <2> QED BY <2>1, <2>2
<1>5. PICK F : Walks(F, V, a, n, step)
  <2> HIDE DEF V, step, a
  <2> QED BY <1>1, <1>4, Recursion
<1>6. F \in [0..n -> V] /\ \A k \in 1..n : F[k] = step[<<F[k - 1], k>>]
  BY <1>5 DEF Walks
<1>7. ASSUME NEW k \in 1..n
      PROVE  /\ F[k - 1] \in V /\ F[k] \in V
             /\ F[k] = [F[k - 1] EXCEPT ![n + 1 - k] = next[<<n + 1 - k, F[k - 1]>>]]
  <2>1. k - 1 \in 0..n /\ k \in 0..n
    OBVIOUS
  <2>2. F[k - 1] \in V /\ F[k] \in V
    BY <1>6, <2>1
  <2> HIDE DEF V, step
  <2> QED BY <1>3, <1>6, <2>2
<1> HIDE DEF step
<1> DEFINE Agrees(k, i) == \A x \in 1..n : x > n - i => F[k][x] = F[i][x]
           R == {k \in 0..n : \A i \in 0..k : Agrees(k, i)}
<1>8. 0 \in R
  OBVIOUS
<1>9. ASSUME NEW k \in 0..(n - 1), k \in R PROVE k + 1 \in R
  <2>1. k + 1 \in 1..n /\ (k + 1) - 1 = k /\ k + 1 \in 0..n /\ n + 1 - (k + 1) = n - k
    OBVIOUS
  <2>2. \A x \in 1..n : x # n - k => F[k + 1][x] = F[k][x]
    <3>1. F[k] \in V /\ F[k + 1] = [F[k] EXCEPT ![n - k] = next[<<n - k, F[k]>>]]
      BY <1>7, <2>1
    <3> QED BY <3>1
  <2>3. ASSUME NEW i \in 0..(k + 1) PROVE Agrees(k + 1, i)
    <3>1. CASE i = k + 1
      BY <3>1
    <3>2. CASE i \in 0..k
      <4>1. Agrees(k, i)
        BY <1>9, <3>2
      <4>2. \A x \in 1..n : x > n - i => x # n - k
        BY <3>2
      <4> QED BY <2>2, <4>1, <4>2
    <3> QED BY <3>1, <3>2
  <2> QED BY <2>1, <2>3
<1> HIDE DEF R
<1>10. 0..n \subseteq R
  BY <1>8, <1>9, Upwards
<1>11. \A i \in 0..n : Agrees(n, i)
  BY <1>10 DEF R
<1> DEFINE f == F[n]
<1>12. f \in V
  BY <1>6
<1>13. ASSUME NEW i \in 1..n PROVE f[i] = next[<<i, f>>]
  <2> DEFINE k == n + 1 - i
  <2>1. k \in 1..n /\ n + 1 - k = i /\ k \in 0..n /\ k - 1 \in 0..n
    OBVIOUS
  <2>2. /\ F[k - 1] \in V
        /\ F[k] = [F[k - 1] EXCEPT ![i] = next[<<i, F[k - 1]>>]]
    BY <1>7, <2>1
  <2>3. F[k][i] = next[<<i, F[k - 1]>>]
    BY <2>2
  <2>4. f[i] = F[k][i]
    BY <1>11, <2>1
  <2>5. \A x \in 1..n : x > i => f[x] = F[k - 1][x]
    BY <1>11, <2>1
  <2>6. next[<<i, f>>] = next[<<i, F[k - 1]>>]
    BY <1>a, <1>12, <2>2, <2>5
  <2> QED BY <2>3, <2>4, <2>6
<1>14. Descended(f, next, W, n)
  BY <1>12, <1>13 DEF Descended
<1> QED BY <1>14

\* One text before the other.
Cat(s, t) == s \o t

\* Which two of three are put together first.
LEMMA Associates ==
    ASSUME NEW X, NEW s1 \in Seq(X), NEW s2 \in Seq(X), NEW s3 \in Seq(X)
    PROVE  Cat(Cat(s1, s2), s3) = Cat(s1, Cat(s2, s3))
BY ConcatAssociative, SMT DEF Cat

\* What there is of a text from each of its characters on, if at the places T
\* an o becomes u.
From(g, X, t, T, o, u) ==
    /\ g \in [1..(Len(t) + 1) -> Seq(X)] /\ g[Len(t) + 1] = <<>>
    /\ \A i \in 1..Len(t) : /\ i \in T => g[i] = u \o g[i + Len(o)]
                            /\ i \notin T /\ ~Inside(T, Len(o), i) => g[i] = <<t[i]>> \o g[i + 1]

\* Splice makes that of it.
LEMMA SpliceFrom ==
    ASSUME NEW X, NEW t \in Seq(X), NEW u \in Seq(X), NEW o \in Seq(X), o # <<>>,
           NEW T, Apart(T, Len(o), Len(t)), NEW g, From(g, X, t, T, o, u)
    PROVE  Splice(t, T, o, u) = g[1]
<1> DEFINE n == Len(t)  L == Len(o)
<1>1. n \in Nat /\ L \in Nat /\ L > 0 /\ \A i \in 1..n : t[i] \in X
  BY LenProperties, ElementOfSeq, EmptySeq
<1>2. PICK f : Spliced(f, X, t, T, o, u) /\ Splice(t, T, o, u) = f[n]
  BY Pieces
<1>3. /\ f \in [0..n -> Seq(X)] /\ f[0] = <<>>
      /\ \A i \in 1..n : f[i] = f[i - 1] \o
             (IF i \in T THEN u ELSE IF Inside(T, L, i) THEN <<>> ELSE <<t[i]>>)
  BY <1>2 DEF Spliced, Piece, Covered, Inside
<1>4. /\ T \subseteq 1..n /\ \A p \in T : p + L <= n + 1
      /\ \A i, j \in T : j < i => j + L <= i
  BY DEF Apart
<1>5. /\ g \in [1..(n + 1) -> Seq(X)] /\ g[n + 1] = <<>>
      /\ \A i \in 1..n : /\ i \in T => g[i] = u \o g[i + L]
                         /\ i \notin T /\ ~Inside(T, L, i) => g[i] = <<t[i]>> \o g[i + 1]
  BY DEF From
<1> HIDE DEF n, L
\* After k characters, up to where what has been done of t goes.
<1> DEFINE Until(k, r) == \/ r = k + 1 /\ ~Inside(T, L, k + 1)
                          \/ \E p \in T : p < k + 1 /\ k + 1 < p + L /\ r = p + L
           S == {k \in 0..n : \A r \in 1..(n + 1) : Until(k, r) => f[k] \o g[r] = g[1]}
<1>a. \A s \in Seq(X) : <<>> \o s = s /\ s \o <<>> = s
  BY ConcatEmptySeq
<1>6. 0 \in S
  <2>1. \A r : Until(0, r) => r = 1
    BY <1>1, <1>4 DEF Inside
  <2>2. f[0] \o g[1] = g[1]
    <3>1. g[1] \in Seq(X)
      BY <1>1, <1>5
    <3> QED BY <1>3, <1>a, <3>1
  <2>3. \A r \in 1..(n + 1) : Until(0, r) => f[0] \o g[r] = g[1]
    BY <2>1, <2>2
  <2>4. 0 \in 0..n
    BY <1>1
  <2> HIDE DEF Until
  <2> QED BY <2>3, <2>4
<1>7. ASSUME NEW k \in 0..(n - 1), k \in S PROVE k + 1 \in S
  <2>1. k + 1 \in 1..n /\ (k + 1) - 1 = k /\ k \in 0..n /\ k + 1 \in 0..n /\ (k + 1) + 1 = k + 2
    BY <1>1
  <2>2. \A r \in 1..(n + 1) : Until(k, r) => f[k] \o g[r] = g[1]
    BY <1>7
  <2>t. f[k] \in Seq(X) /\ \A r \in 1..(n + 1) : g[r] \in Seq(X)
    BY <1>3, <1>5, <2>1
  <2> SUFFICES ASSUME NEW r \in 1..(n + 1), Until(k + 1, r) PROVE f[k + 1] \o g[r] = g[1]
    BY <2>1
  <2>3. CASE k + 1 \in T
    <3>1. ~Inside(T, L, k + 1)
      BY <1>1, <1>4, <2>3 DEF Inside
    <3>2. r = k + 1 + L
      <4>1. \A p \in T : p < k + 2 /\ k + 2 < p + L => p = k + 1
        BY <1>1, <1>4, <2>3
      <4>2. k + 2 < k + 1 + L => Inside(T, L, k + 2)
        BY <1>1, <2>3 DEF Inside
      <4>3. L = 1 \/ k + 2 < k + 1 + L
        BY <1>1
      <4> QED BY <1>1, <2>1, <4>1, <4>2, <4>3
    <3>3. f[k] \o g[k + 1] = g[1] /\ k + 1 \in 1..(n + 1)
      <4>1. k + 1 \in 1..(n + 1)
        BY <1>1
      <4> QED BY <2>2, <3>1, <4>1
    <3>4. g[k + 1] = u \o g[r] /\ f[k + 1] = f[k] \o u
      BY <1>3, <1>5, <2>1, <2>3, <3>2
    <3>5. (f[k] \o u) \o g[r] = f[k] \o (u \o g[r])
      <4> DEFINE s == f[k]  v == g[r]
      <4>1. s \in Seq(X) /\ v \in Seq(X)
        BY <2>t
      <4> HIDE DEF s, v
      <4> HIDE DEF Until, S
      <4>2. Cat(Cat(s, u), v) = Cat(s, Cat(u, v))
        BY <4>1, Associates
      <4> QED BY <4>2 DEF Cat, s, v
    <3> QED BY <3>3, <3>4, <3>5
  <2>4. CASE k + 1 \notin T /\ Inside(T, L, k + 1)
    <3>1. PICK p \in T : p < k + 1 /\ k + 1 < p + L
      BY <2>4 DEF Inside
    <3>2. p + L \in 1..(n + 1) /\ p \in 1..n
      BY <1>1, <1>4
    <3>3. \A q \in T : q < k + 2 /\ k + 2 < q + L => q = p
      <4> SUFFICES ASSUME NEW q \in T, q < k + 2, k + 2 < q + L, q # p PROVE FALSE
        OBVIOUS
      <4>1. q \in 1..n
        BY <1>4
      <4>2. CASE q < p
        <5>1. q + L <= p
          BY <1>4, <4>2
        <5> QED BY <1>1, <3>1, <3>2, <4>1, <5>1
      <4>3. CASE p < q
        <5>1. p + L <= q
          BY <1>4, <4>3
        <5> QED BY <1>1, <2>4, <3>1, <3>2, <4>1, <5>1
      <4> QED BY <3>2, <4>1, <4>2, <4>3
    <3>4. k + 2 < p + L => Inside(T, L, k + 2)
      BY <1>1, <3>1, <3>2 DEF Inside
    <3>5. r = p + L
      BY <1>1, <2>1, <3>1, <3>2, <3>3, <3>4
    <3>6. f[k] \o g[r] = g[1]
      BY <2>2, <3>1, <3>2, <3>5
    <3>7. f[k + 1] = f[k]
      <4>1. f[k + 1] = f[k] \o <<>>
        BY <1>3, <2>1, <2>4
      <4> QED BY <1>a, <2>t, <4>1
    <3> QED BY <3>6, <3>7
  <2>5. CASE k + 1 \notin T /\ ~Inside(T, L, k + 1)
    <3>1. \A q \in T : ~(q < k + 2 /\ k + 2 < q + L)
      <4> SUFFICES ASSUME NEW q \in T, q < k + 2, k + 2 < q + L PROVE FALSE
        OBVIOUS
      <4>1. q \in 1..n /\ q # k + 1
        BY <1>4, <2>5
      <4>2. q < k + 1 /\ k + 1 < q + L
        BY <1>1, <4>1
      <4> QED BY <2>5, <4>2 DEF Inside
    <3>2. r = k + 2
      BY <2>1, <3>1
    <3>3. f[k] \o g[k + 1] = g[1]
      <4>1. k + 1 \in 1..(n + 1)
        BY <1>1
      <4> QED BY <2>2, <2>5, <4>1
    <3>4. g[k + 1] = <<t[k + 1]>> \o g[r] /\ f[k + 1] = f[k] \o <<t[k + 1]>>
      BY <1>3, <1>5, <2>1, <2>5, <3>2
    <3>5. <<t[k + 1]>> \in Seq(X)
      BY <1>1, <2>1
    <3> DEFINE c == <<t[k + 1]>>
    <3> HIDE DEF c
    <3>6. (f[k] \o c) \o g[r] = f[k] \o (c \o g[r])
      <4> DEFINE s == f[k]  v == g[r]
      <4>1. s \in Seq(X) /\ v \in Seq(X) /\ c \in Seq(X)
        BY <2>t, <3>5 DEF c
      <4> HIDE DEF s, v
      <4> HIDE DEF Until, S
      <4>2. Cat(Cat(s, c), v) = Cat(s, Cat(c, v))
        BY <4>1, Associates
      <4> QED BY <4>2 DEF Cat, s, v
    <3> QED BY <3>3, <3>4, <3>6 DEF c
  <2> QED BY <2>3, <2>4, <2>5
<1> HIDE DEF S
<1>8. 0..n \subseteq S
  BY <1>1, <1>6, <1>7, Upwards
<1>9. f[n] \o g[n + 1] = g[1]
  <2>1. n \in S /\ n + 1 \in 1..(n + 1)
    BY <1>1, <1>8
  <2>2. ~Inside(T, L, n + 1)
    BY <1>1, <1>4 DEF Inside
  <2> QED BY <2>1, <2>2 DEF S
<1>10. f[n] \o g[n + 1] = f[n]
  <2>1. f[n] \in Seq(X)
    BY <1>1, <1>3
  <2> QED BY <1>5, <1>a, <2>1
<1> QED BY <1>2, <1>9, <1>10

\* The same of three.
LEMMA Regrouped ==
    ASSUME NEW X, NEW s1 \in Seq(X), NEW s2 \in Seq(X), NEW s3 \in Seq(X), NEW s4 \in Seq(X)
    PROVE  Cat(Cat(Cat(s1, s2), s3), s4) = Cat(s1, Cat(Cat(s2, s3), s4))
<1>1. Cat(s2, s3) \in Seq(X)
  BY Behind DEF Cat
<1>2. Cat(Cat(s1, s2), s3) = Cat(s1, Cat(s2, s3))
  BY Associates
<1>3. Cat(Cat(s1, Cat(s2, s3)), s4) = Cat(s1, Cat(Cat(s2, s3), s4))
  BY <1>1, Associates
<1> QED BY <1>2, <1>3

\* A part of a text is a text.
LEMMA PartTyped ==
    ASSUME NEW X, NEW t \in Seq(X), NEW a \in 1..(Len(t) + 1), NEW b \in 0..Len(t)
    PROVE  SubSeq(t, a, b) \in Seq(X)
<1>1. Len(t) \in Nat /\ \A i \in 1..Len(t) : t[i] \in X
  BY LenProperties, ElementOfSeq
<1>2. a \in Int /\ b \in Int /\ \A i \in a..b : t[i] \in X
  BY <1>1
<1> QED BY <1>2, SubSeqProperties

\* With one place, Splice takes away what is there and puts the other in.
LEMMA SpliceOne ==
    ASSUME NEW X, NEW t \in Seq(X), NEW u \in Seq(X), NEW o \in Seq(X), o # <<>>, NEW p \in Places(t, o)
    PROVE  Splice(t, {p}, o, u) = Without(t, p - 1, o, u)
<1> DEFINE n == Len(t)  L == Len(o)
<1>1. n \in Nat /\ L \in Nat /\ L > 0 /\ \A i \in 1..n : t[i] \in X
  BY LenProperties, ElementOfSeq, EmptySeq
<1>2. p \in 1..n /\ p + L <= n + 1
  BY <1>1, PlacesAre
<1>3. Apart({p}, L, n)
  BY <1>1, <1>2 DEF Apart
<1>4. \A i \in 1..n : Inside({p}, L, i) <=> p < i /\ i < p + L
  BY DEF Inside
<1> DEFINE behind == SubSeq(t, p + L, n)
           g == [i \in 1..(n + 1) |-> IF i <= p THEN (SubSeq(t, i, p - 1) \o u) \o behind ELSE SubSeq(t, i, n)]
<1>5. \A i \in 1..(n + 1) : SubSeq(t, i, n) \in Seq(X) /\ SubSeq(t, i, p - 1) \in Seq(X)
  <2>1. n \in 0..n /\ p - 1 \in 0..n
    BY <1>1, <1>2
  <2> QED BY <2>1, PartTyped
<1>6. behind \in Seq(X)
  BY <1>1, <1>2, <1>5
<1> HIDE DEF behind
<1>7. \A i \in 1..(n + 1) : g[i] \in Seq(X)
  BY <1>5, <1>6, Behind
<1>8. g[n + 1] = <<>>
  <2>1. SubSeq(t, n + 1, n) = <<>>
    BY <1>1, SubSeqEmpty
  <2> QED BY <1>1, <1>2, <2>1
<1>9. g[p] = u \o g[p + L]
  <2>1. SubSeq(t, p, p - 1) = <<>>
    BY <1>1, <1>2, SubSeqEmpty
  <2>2. <<>> \o u = u
    BY ConcatEmptySeq
  <2>3. g[p] = u \o behind
    BY <1>1, <1>2, <2>1, <2>2
  <2>4. g[p + L] = behind
    <3>1. p + L \in 1..(n + 1) /\ ~(p + L <= p)
      BY <1>1, <1>2
    <3>2. g[p + L] = SubSeq(t, p + L, n)
      BY <3>1
    <3> QED BY <3>2 DEF behind
  <2> QED BY <2>3, <2>4
<1>10. ASSUME NEW i \in 1..n, i # p, ~(p < i /\ i < p + L) PROVE g[i] = <<t[i]>> \o g[i + 1]
  <2>0. <<t[i]>> \in Seq(X) /\ i \in 1..(n + 1) /\ i + 1 \in 1..(n + 1)
    BY <1>1
  <2>1. CASE i < p
    <3> DEFINE s == SubSeq(t, i + 1, p - 1)  c == <<t[i]>>
    <3>1. SubSeq(t, i, p - 1) = c \o s
      <4>1. i \in 1..n /\ p - 1 \in i..n
        BY <1>1, <1>2, <2>1
      <4> HIDE DEF n
      <4> QED BY <4>1, SubSeqRecursiveFirst DEF n
    <3>2. s \in Seq(X) /\ c \in Seq(X)
      BY <1>5, <2>0
    <3>3. g[i] = (SubSeq(t, i, p - 1) \o u) \o behind /\ g[i + 1] = (s \o u) \o behind
      <4>1. i <= p /\ i + 1 <= p
        BY <1>1, <1>2, <2>1
      <4> QED BY <2>0, <4>1
    <3> HIDE DEF s, c, g
    <3>4. Cat(Cat(Cat(c, s), u), behind) = Cat(c, Cat(Cat(s, u), behind))
      BY <1>6, <3>2, Regrouped
    <3> QED BY <3>1, <3>3, <3>4 DEF c, Cat
  <2>2. CASE ~(i < p)
    <3>1. i \in 1..n /\ n \in i..n /\ ~(i <= p) /\ ~(i + 1 <= p)
      BY <1>1, <1>2, <1>10, <2>2
    <3>2. SubSeq(t, i, n) = <<t[i]>> \o SubSeq(t, i + 1, n)
      BY <3>1, SubSeqRecursiveFirst
    <3>3. g[i] = SubSeq(t, i, n) /\ g[i + 1] = SubSeq(t, i + 1, n)
      BY <2>0, <3>1
    <3> QED BY <3>2, <3>3
  <2> QED BY <2>1, <2>2
<1>11. g \in [1..(n + 1) -> Seq(X)]
  BY <1>7
<1>12. g[1] = (SubSeq(t, 1, p - 1) \o u) \o behind
  BY <1>1, <1>2
<1> HIDE DEF g
<1>13. From(g, X, t, {p}, o, u)
  BY <1>4, <1>8, <1>9, <1>10, <1>11 DEF From
<1>14. Splice(t, {p}, o, u) = g[1]
  BY <1>3, <1>13, SpliceFrom
<1>15. (p - 1) + L + 1 = p + L
  BY <1>1, <1>2
<1> QED BY <1>12, <1>14, <1>15 DEF Without, behind

\* A text begins with o where o is at the place.
LEMMA BeginsThere ==
    ASSUME NEW X, NEW t \in Seq(X), NEW o \in Seq(X), o # <<>>, NEW i \in 1..Len(t)
    PROVE  IsPrefix(o, SubSeq(t, i, Len(t))) <=> i \in Places(t, o)
<1> DEFINE n == Len(t)  L == Len(o)  s == SubSeq(t, i, n)
<1>1. n \in Nat /\ L \in Nat /\ L > 0 /\ \A k \in 1..n : t[k] \in X
  BY LenProperties, ElementOfSeq, EmptySeq
<1>2. s \in Seq(X) /\ Len(s) = n - i + 1
  <2>1. i \in Int /\ n \in Int /\ i <= n /\ \A k \in i..n : t[k] \in X
    BY <1>1
  <2> HIDE DEF n
  <2> QED BY <2>1, SubSeqProperties
<1>3. SubSeq(o, 1, L) = o
  BY SubSeqFull
<1>4. ASSUME L <= n - i + 1 PROVE SubSeq(s, 1, L) = SubSeq(t, i, i + L - 1)
  <2>1. i \in 1..n /\ n \in 1..n /\ 1 \in 1..(n - i + 1) /\ L \in 1..(n - i + 1)
    BY <1>1, <1>4
  <2>2. SubSeq(s, 1, L) = SubSeq(t, i + 1 - 1, i + L - 1)
    BY <2>1, SubSeqOfSubSeq
  <2>3. i + 1 - 1 = i
    BY <1>1
  <2> QED BY <2>2, <2>3
<1>5. IsPrefix(o, s) <=> L <= n - i + 1 /\ SubSeq(t, i, i + L - 1) = o
  BY <1>2, <1>3, <1>4 DEF IsPrefix
<1>6. L <= n - i + 1 <=> i \in 1..(n + 1 - L)
  BY <1>1
<1> HIDE DEF s
<1> QED BY <1>5, <1>6 DEF Places, s

\* Splice at what Replace takes makes of all occurrences what AllReplaced says.
LEMMA SpliceAll ==
    ASSUME NEW X, NEW t \in Seq(X), NEW u \in Seq(X), NEW o \in Seq(X), o # <<>>
    PROVE  Splice(t, Taken(t, o), o, u) = AllReplaced(t, o, u)
<1> DEFINE n == Len(t)  L == Len(o)  m == n + L  W == Seq(X)  T == Taken(t, o)
           Here(i) == IsPrefix(o, SubSeq(t, i, n))
           Is(g) == g = [i \in 1..m |-> IF i > n THEN <<>>
                                        ELSE IF Here(i) THEN u \o g[i + L] ELSE <<t[i]>> \o g[i + 1]]
           from == CHOOSE g : Is(g)
           next == [p \in (1..m) \X [1..m -> W] |->
                       IF p[1] > n THEN <<>>
                       ELSE IF Here(p[1]) THEN u \o p[2][p[1] + L] ELSE <<t[p[1]]>> \o p[2][p[1] + 1]]
<1>1. n \in Nat /\ L \in Nat /\ L > 0 /\ m \in Nat /\ DOMAIN t = 1..n /\ \A i \in 1..n : t[i] \in X
  BY LenProperties, ElementOfSeq, EmptySeq
<1>2. AllReplaced(t, o, u) = IF t = <<>> THEN <<>> ELSE from[1]
  BY DEF AllReplaced
<1>3. \A i \in 1..n : <<t[i]>> \in W
  BY <1>1
<1>4. <<>> \in W
  BY <1>1
<1>5. \A s1, s2 \in W : s1 \o s2 \in W
  BY ConcatProperties
<1>6. \A i \in 1..n : Here(i) <=> i \in Places(t, o)
  BY BeginsThere
<1>7. T \subseteq 1..n /\ T \subseteq Places(t, o) /\ \A i, j \in T : j < i => j + L <= i
  BY <1>1, TakenApart
<1>8. \A i \in 1..n : i \in T <=> i \in Places(t, o) /\ \A j \in T : j < i => j + L <= i
  BY <1>1, TakenIs
<1>9. \A p \in T : p + L <= n + 1
  BY <1>7, PlacesAre
<1> HIDE DEF n, L, W, T, Here
<1>10. /\ n + 1 \in 1..m /\ n + 1 > n
       /\ \A i \in 1..m : ~(i > n) => /\ i \in 1..n
                                       /\ i + 1 \in 1..m /\ i + 1 > i
                                       /\ i + L \in 1..m /\ i + L > i
  BY <1>1
<1> HIDE DEF m
<1>11. \A i \in 1..m : \A g \in [1..m -> W] :
           next[<<i, g>>] = IF i > n THEN <<>>
                            ELSE IF Here(i) THEN u \o g[i + L] ELSE <<t[i]>> \o g[i + 1]
  OBVIOUS
<1>12. next \in [(1..m) \X [1..m -> W] -> W]
  <2>1. ASSUME NEW i \in 1..m, NEW g \in [1..m -> W] PROVE next[<<i, g>>] \in W
    <3> DEFINE v == next[<<i, g>>]
    <3>1. v = IF i > n THEN <<>> ELSE IF Here(i) THEN u \o g[i + L] ELSE <<t[i]>> \o g[i + 1]
      BY <1>11
    <3> HIDE DEF v, next
    <3>2. CASE i > n
      BY <1>4, <3>1, <3>2 DEF v
    <3>3. CASE ~(i > n)
      <4>0. i \in 1..n /\ i + L \in 1..m /\ i + 1 \in 1..m
        BY <1>10, <3>3
      <4>1. i \in 1..n /\ g[i + L] \in W /\ g[i + 1] \in W
        BY <4>0
      <4>2. u \in W
        BY DEF W
      <4>3. u \o g[i + L] \in W /\ <<t[i]>> \o g[i + 1] \in W
        BY <1>3, <1>5, <4>1, <4>2
      <4> QED BY <3>1, <3>3, <4>3 DEF v
    <3> QED BY <3>2, <3>3
  <2>2. next = [p \in (1..m) \X [1..m -> W] |-> next[p]]
    OBVIOUS
  <2>3. \A p \in (1..m) \X [1..m -> W] : p[1] \in 1..m /\ p[2] \in [1..m -> W] /\ p = <<p[1], p[2]>>
    OBVIOUS
  <2> HIDE DEF next
  <2>4. \A p \in (1..m) \X [1..m -> W] : next[p] \in W
    BY <2>1, <2>3
  <2> QED BY <2>2, <2>4
<1> HIDE DEF next
<1>13. \A i \in 1..m : \A g, h \in [1..m -> W] :
           (\A j \in 1..m : j > i => g[j] = h[j]) => next[<<i, g>>] = next[<<i, h>>]
  <2> SUFFICES ASSUME NEW i \in 1..m, NEW g \in [1..m -> W], NEW h \in [1..m -> W],
                      \A j \in 1..m : j > i => g[j] = h[j]
               PROVE  next[<<i, g>>] = next[<<i, h>>]
    OBVIOUS
  <2>1. CASE i > n
    BY <1>11, <2>1
  <2>2. CASE ~(i > n)
    <3>1. i + L \in 1..m /\ i + 1 \in 1..m /\ i + L > i /\ i + 1 > i
      BY <1>10, <2>2
    <3>2. g[i + L] = h[i + L] /\ g[i + 1] = h[i + 1]
      BY <3>1
    <3> QED BY <1>11, <3>2
  <2> QED BY <2>1, <2>2
<1>a. PICK f : Descended(f, next, W, m)
  <2> DEFINE w == <<>>
  <2>1. w \in W
    BY <1>4
  <2>2. Descends(next, W, m)
    BY <1>12, <1>13 DEF Descends
  <2>3. m \in Nat
    BY <1>1
  <2> HIDE DEF w, Is, from
  <2> QED BY <2>1, <2>2, <2>3, Descent
<1>14. f \in [1..m -> W] /\ \A i \in 1..m : f[i] = next[<<i, f>>]
  BY <1>a DEF Descended
<1>15. Is(f)
  <2> DEFINE G(i) == IF i > n THEN <<>> ELSE IF Here(i) THEN u \o f[i + L] ELSE <<t[i]>> \o f[i + 1]
  <2>1. \A i \in 1..m : f[i] = G(i)
    BY <1>11, <1>14
  <2> HIDE DEF G
  <2>2. f = [i \in 1..m |-> G(i)]
    BY <1>14, <2>1, Zenon
  <2> QED BY <2>2 DEF G
<1>16. Is(from)
  BY <1>15
<1> HIDE DEF from
<1>17. ASSUME NEW i \in 1..m
       PROVE  from[i] = IF i > n THEN <<>> ELSE IF Here(i) THEN u \o from[i + L] ELSE <<t[i]>> \o from[i + 1]
  BY <1>16
<1>18. CASE n = 0
  <2>1. t = <<>>
    BY <1>18, EmptySeq DEF n
  <2>2. Splice(t, T, o, u) = <<>>
    BY <2>1 DEF Splice, FlattenSeq
  <2> QED BY <1>2, <2>1, <2>2 DEF T
<1>19. CASE n # 0
  <2> DEFINE g == [i \in 1..(n + 1) |-> from[i]]
             S == {k \in 0..n : \A i \in 1..m : i > n - k => from[i] \in W}
  <2>1. 0 \in S
    <3>1. n - 0 = n /\ 0 \in 0..n
      BY <1>1
    <3>2. \A i \in 1..m : i > n => from[i] \in W
      BY <1>4, <1>17
    <3> QED BY <3>1, <3>2
  <2>2. ASSUME NEW k \in 0..(n - 1), k \in S PROVE k + 1 \in S
    <3> DEFINE i == n - k
    <3>1. i \in 1..n /\ i \in 1..m /\ ~(i > n) /\ k + 1 \in 0..n
      BY <1>1 DEF m
    <3>2. i + L \in 1..m /\ i + 1 \in 1..m /\ i + L > n - k /\ i + 1 > n - k
      BY <1>10, <3>1
    <3>3. from[i + L] \in W /\ from[i + 1] \in W /\ u \in W
      BY <2>2, <3>2 DEF W
    <3>4. from[i] \in W
      <4>1. u \o from[i + L] \in W /\ <<t[i]>> \o from[i + 1] \in W
        BY <1>3, <1>5, <3>1, <3>3
      <4> QED BY <1>17, <3>1, <4>1
    <3>5. \A j \in 1..m : j > n - (k + 1) => j = i \/ j > n - k
      BY <1>1
    <3> QED BY <2>2, <3>1, <3>4, <3>5
  <2> HIDE DEF S
  <2>3. 0..n \subseteq S
    BY <1>1, <2>1, <2>2, Upwards
  <2>4. \A i \in 1..m : from[i] \in W
    <3>1. n \in S
      BY <1>1, <2>3
    <3> QED BY <1>1, <3>1 DEF S
  <2>5. \A i \in 1..(n + 1) : i \in 1..m /\ g[i] = from[i] /\ g[i] \in W
    BY <1>1, <2>4 DEF m
  <2>6. g \in [1..(n + 1) -> W]
    BY <2>5
  <2> HIDE DEF g
  <2>7. g[n + 1] = <<>>
    <3>1. n + 1 \in 1..m /\ n + 1 > n /\ n + 1 \in 1..(n + 1)
      BY <1>1, <1>10
    <3> QED BY <1>17, <2>5, <3>1
  <2>8. ASSUME NEW i \in T PROVE g[i] = u \o g[i + L]
    <3>1. i \in 1..n /\ i + L \in 1..(n + 1) /\ Here(i)
      BY <1>1, <1>6, <1>7, <1>9
    <3>2. i \in 1..(n + 1) /\ i \in 1..m /\ ~(i > n)
      BY <1>1, <3>1 DEF m
    <3> QED BY <1>17, <2>5, <3>1, <3>2
  <2>9. ASSUME NEW i \in 1..n, i \notin T, ~Inside(T, L, i) PROVE g[i] = <<t[i]>> \o g[i + 1]
    <3>1. ~Here(i)
      <4>1. \A j \in T : j < i => j + L <= i
        BY <1>1, <1>7, <2>9 DEF Inside
      <4> QED BY <1>6, <1>8, <2>9, <4>1
    <3>2. i \in 1..(n + 1) /\ i + 1 \in 1..(n + 1) /\ i \in 1..m /\ ~(i > n)
      BY <1>1 DEF m
    <3> QED BY <1>17, <2>5, <3>1, <3>2
  <2>10. From(g, X, t, T, o, u)
    BY <1>7, <2>6, <2>7, <2>8, <2>9 DEF From, n, L, W
  <2>11. Apart(T, L, n)
    BY <1>7, <1>9 DEF Apart
  <2>12. Splice(t, T, o, u) = g[1]
    BY <2>10, <2>11, SpliceFrom DEF n, L
  <2>13. g[1] = from[1]
    BY <1>1, <2>5
  <2>14. t # <<>>
    BY <1>19 DEF n
  <2> QED BY <1>2, <2>12, <2>13, <2>14 DEF T
<1> QED BY <1>18, <1>19

\* The texts of a sequence one after the other, from each of them on.
Flat(g, X, ss) ==
    /\ g \in [1..(Len(ss) + 1) -> Seq(X)] /\ g[Len(ss) + 1] = <<>>
    /\ \A i \in 1..Len(ss) : g[i] = ss[i] \o g[i + 1]

\* FlattenSeq can be read from the end, too.
LEMMA FlattenedFrom ==
    ASSUME NEW X, NEW ss \in Seq(Seq(X))
    PROVE  \E g : Flat(g, X, ss) /\ FlattenSeq(ss) = g[1]
<1> DEFINE n == Len(ss)  W == Seq(X)  m == n + 1
           next == [p \in (1..m) \X [1..m -> W] |->
                       IF p[1] > n THEN <<>> ELSE ss[p[1]] \o p[2][p[1] + 1]]
<1>1. n \in Nat /\ m \in Nat /\ m = n + 1 /\ \A i \in 1..n : ss[i] \in W
  BY LenProperties, ElementOfSeq
<1>2. PICK f \in [0..n -> W] : /\ f[0] = <<>> /\ FlattenSeq(ss) = f[n]
                               /\ \A i \in 1..n : f[i] = f[i - 1] \o ss[i]
  BY Flattened
<1>3. <<>> \in W
  BY <1>1
<1>4. \A s1, s2 \in W : s1 \o s2 \in W
  BY ConcatProperties
<1>a. \A s \in W : <<>> \o s = s /\ s \o <<>> = s
  BY ConcatEmptySeq
<1>b. ASSUME NEW s1 \in W, NEW s2 \in W, NEW s3 \in W
      PROVE  Cat(Cat(s1, s2), s3) = Cat(s1, Cat(s2, s3))
  BY Associates DEF W
<1> HIDE DEF n, W, m
<1>5. \A i \in 1..m : i > n \/ (i \in 1..n /\ i + 1 \in 1..m /\ i + 1 > i)
  BY <1>1
<1>6. \A i \in 1..m : \A g \in [1..m -> W] :
          next[<<i, g>>] = IF i > n THEN <<>> ELSE ss[i] \o g[i + 1]
  OBVIOUS
<1>7. \A i \in 1..m : \A g \in [1..m -> W] : next[<<i, g>>] \in W
  <2> SUFFICES ASSUME NEW i \in 1..m, NEW g \in [1..m -> W] PROVE next[<<i, g>>] \in W
    OBVIOUS
  <2>1. CASE i > n
    BY <1>3, <1>6, <2>1
  <2>2. CASE ~(i > n)
    <3>1. ss[i] \in W /\ g[i + 1] \in W
      BY <1>1, <1>5, <2>2
    <3>2. ss[i] \o g[i + 1] \in W
      BY <1>4, <3>1
    <3> QED BY <1>6, <2>2, <3>2
  <2> QED BY <2>1, <2>2
<1>8. next \in [(1..m) \X [1..m -> W] -> W]
  <2>1. next = [p \in (1..m) \X [1..m -> W] |-> next[p]]
    OBVIOUS
  <2>2. \A p \in (1..m) \X [1..m -> W] : p[1] \in 1..m /\ p[2] \in [1..m -> W] /\ p = <<p[1], p[2]>>
    OBVIOUS
  <2> HIDE DEF next
  <2>3. \A p \in (1..m) \X [1..m -> W] : next[p] \in W
    BY <1>7, <2>2
  <2> QED BY <2>1, <2>3
<1> HIDE DEF next
<1>9. Descends(next, W, m)
  <2> SUFFICES ASSUME NEW i \in 1..m, NEW g \in [1..m -> W], NEW h \in [1..m -> W],
                      \A j \in 1..m : j > i => g[j] = h[j]
               PROVE  next[<<i, g>>] = next[<<i, h>>]
    BY <1>8 DEF Descends
  <2>1. i > n \/ g[i + 1] = h[i + 1]
    BY <1>5
  <2> QED BY <1>6, <2>1
<1>c. PICK g : Descended(g, next, W, m)
  <2> DEFINE w == <<>>
  <2>1. w \in W
    BY <1>3
  <2>2. m \in Nat
    BY <1>1
  <2> HIDE DEF w
  <2> QED BY <1>9, <2>1, <2>2, Descent
<1>10. g \in [1..m -> W] /\ \A i \in 1..m : g[i] = next[<<i, g>>]
  BY <1>c DEF Descended
<1>11. \A i \in 1..m : g[i] = IF i > n THEN <<>> ELSE ss[i] \o g[i + 1]
  BY <1>6, <1>10
<1>12. /\ g[n + 1] = <<>>
       /\ \A i \in 1..n : g[i] = ss[i] \o g[i + 1]
  <2>1. n + 1 \in 1..m /\ n + 1 > n /\ \A i \in 1..n : i \in 1..m /\ ~(i > n)
    BY <1>1
  <2> QED BY <1>11, <2>1
<1> DEFINE S == {k \in 0..n : f[k] \o g[k + 1] = g[1]}
<1>13. 0 \in S
  <2>1. g[1] \in W /\ 0 \in 0..n /\ 0 + 1 = 1
    BY <1>1, <1>10
  <2>2. f[0] \o g[1] = g[1]
    BY <1>2, <1>a, <2>1
  <2> QED BY <2>1, <2>2
<1>14. ASSUME NEW k \in 0..(n - 1), k \in S PROVE k + 1 \in S
  <2>1. /\ k + 1 \in 1..n /\ (k + 1) - 1 = k /\ k \in 0..n /\ k + 1 \in 0..n
        /\ k + 1 \in 1..m /\ (k + 1) + 1 \in 1..m
    BY <1>1
  <2> DEFINE a == f[k]  b == ss[k + 1]  c == g[(k + 1) + 1]
  <2>2. a \in W /\ b \in W /\ c \in W
    BY <1>1, <1>2, <1>10, <2>1
  <2>3. f[k + 1] = Cat(a, b) /\ g[k + 1] = Cat(b, c)
    BY <1>2, <1>12, <2>1 DEF Cat
  <2>4. Cat(a, g[k + 1]) = g[1]
    BY <1>14 DEF Cat
  <2>5. (f[k + 1] \o g[(k + 1) + 1] = g[1]) <=> Cat(f[k + 1], c) = g[1]
    BY DEF Cat
  <2> HIDE DEF a, b, c
  <2>6. Cat(f[k + 1], c) = g[1]
    BY <1>b, <2>2, <2>3, <2>4
  <2> QED BY <2>1, <2>5, <2>6
<1> HIDE DEF S
<1>15. 0..n \subseteq S
  BY <1>1, <1>13, <1>14, Upwards
<1>16. f[n] \o g[n + 1] = g[1] /\ f[n] \in W
  <2>1. n \in S /\ n \in 0..n
    BY <1>1, <1>15
  <2> QED BY <1>2, <2>1 DEF S
<1>17. FlattenSeq(ss) = g[1]
  BY <1>2, <1>12, <1>16, <1>a
<1> QED BY <1>10, <1>12, <1>17 DEF Flat, n, m, W

\* To normalize the line endings of a text makes it Unix.
LEMMA NormalizedIsUnix ==
    ASSUME NEW X, NEW t \in Seq(X), {"CR", "LF"} \subseteq X
    PROVE  normalizeLineEndings(t) = Unix(t)
<1> DEFINE n == Len(t)  T == Taken(t, CRLF)  u == <<"LF">>
           At(i) == t[i] = "CR" /\ i < n /\ t[i + 1] = "LF"
           ss == [i \in DOMAIN t |-> IF At(i) THEN <<>> ELSE <<t[i]>>]
<1>1. n \in Nat /\ DOMAIN t = 1..n /\ \A i \in 1..n : t[i] \in X
  BY LenProperties, ElementOfSeq
<1>2. CRLF \in Seq(X) /\ Len(CRLF) = 2 /\ CRLF[1] = "CR" /\ CRLF[2] = "LF" /\ CRLF # <<>> /\ u \in Seq(X)
  BY DEF CRLF
<1>3. \A i \in 1..n : ss[i] = IF At(i) THEN <<>> ELSE <<t[i]>>
  BY <1>1
<1>4. ss \in Seq(Seq(X)) /\ Len(ss) = n
  <2>1. \A x \in X : <<x>> \in Seq(X)
    OBVIOUS
  <2>2. <<>> \in Seq(X)
    OBVIOUS
  <2> QED BY <1>1, <2>1, <2>2
<1>5. Unix(t) = FlattenSeq(ss)
  BY DEF Unix
<1> HIDE DEF ss
<1>6. PICK g \in [1..(n + 1) -> Seq(X)] : /\ g[n + 1] = <<>> /\ FlattenSeq(ss) = g[1]
                                          /\ \A i \in 1..n : g[i] = ss[i] \o g[i + 1]
  <2>1. PICK g : Flat(g, X, ss) /\ FlattenSeq(ss) = g[1]
    BY <1>4, FlattenedFrom
  <2>2. Len(ss) = n
    BY <1>4
  <2> HIDE DEF n
  <2> QED BY <2>1, <2>2 DEF Flat
<1>7. \A p \in Places(t, CRLF) : p \in 1..n /\ p + 2 <= n + 1 /\ At(p)
  <2>0. CRLF \in Seq(X)
    BY <1>2
  <2>1. \A p \in Places(t, CRLF) : /\ p \in 1..(n + 1) /\ p + Len(CRLF) <= n + 1
                                   /\ \A k \in 1..Len(CRLF) : t[p + k - 1] = CRLF[k]
    BY <2>0, PlacesAre
  <2> SUFFICES ASSUME NEW p \in Places(t, CRLF) PROVE p \in 1..n /\ p + 2 <= n + 1 /\ At(p)
    OBVIOUS
  <2>2. p \in 1..(n + 1) /\ p + 2 <= n + 1 /\ \A k \in 1..2 : t[p + k - 1] = CRLF[k]
    BY <1>2, <2>1
  <2>3. t[p + 1 - 1] = "CR" /\ t[p + 2 - 1] = "LF"
    BY <1>2, <2>2
  <2>4. p + 1 - 1 = p /\ p + 2 - 1 = p + 1 /\ p < n /\ p \in 1..n
    BY <1>1, <2>2
  <2> QED BY <2>2, <2>3, <2>4
<1>8. \A p \in 1..n : At(p) => p \in Places(t, CRLF)
  <2> SUFFICES ASSUME NEW p \in 1..n, At(p) PROVE p \in Places(t, CRLF)
    OBVIOUS
  <2>1. p + 1 \in 1..n /\ p \in 1..(n + 1 - 2) /\ p + 2 - 1 = p + 1
    BY <1>1
  <2> DEFINE s == SubSeq(t, p, p + 1)
  <2>2. s \in Seq(X) /\ Len(s) = 2 /\ \A k \in 1..2 : s[k] = t[p + k - 1]
    <3>1. p \in Int /\ p + 1 \in Int /\ p <= p + 1 /\ (p + 1) - p + 1 = 2
          /\ \A i \in p..(p + 1) : t[i] \in X
      BY <1>1, <2>1
    <3>2. /\ s \in Seq(X) /\ Len(s) = (p + 1) - p + 1
          /\ \A k \in 1..((p + 1) - p + 1) : s[k] = t[p + k - 1]
      BY <3>1, SubSeqProperties
    <3> HIDE DEF s
    <3> QED BY <3>1, <3>2
  <2> HIDE DEF s
  <2>3. p + 1 - 1 = p /\ p + 2 - 1 = p + 1
    BY <1>1
  <2>4. s[1] = CRLF[1] /\ s[2] = CRLF[2]
    BY <1>2, <2>2, <2>3
  <2>5. SubSeq(t, p, p + 1) = CRLF
    <3>1. Len(s) = Len(CRLF) /\ \A k \in 1..Len(s) : s[k] = CRLF[k]
      BY <1>2, <2>2, <2>4
    <3>2. s \in Seq(X) /\ CRLF \in Seq(X)
      BY <1>2, <2>2
    <3>3. s = CRLF
      BY <3>1, <3>2, SeqEqual
    <3> QED BY <3>3 DEF s
  <2> QED BY <1>2, <2>1, <2>5 DEF Places
<1>9. T \subseteq Places(t, CRLF) /\ \A i, j \in T : j < i => j + 2 <= i
  BY <1>2, TakenApart
<1>10. \A i \in 1..n : i \in T <=> i \in Places(t, CRLF) /\ \A j \in T : j < i => j + 2 <= i
  <2>1. Len(CRLF) \in Nat
    BY <1>2
  <2>2. \A i \in DOMAIN t : i \in T <=>
            i \in Places(t, CRLF) /\ \A j \in T : j < i => j + Len(CRLF) <= i
    BY <2>1, TakenIs
  <2> QED BY <1>1, <1>2, <2>2
<1> HIDE DEF T
<1>11. Apart(T, 2, n)
  BY <1>7, <1>9 DEF Apart
<1>12. ASSUME NEW i \in T PROVE g[i] = u \o g[i + 2]
  <2>1. i \in 1..n /\ i + 1 \in 1..n /\ At(i) /\ (i + 1) + 1 = i + 2 /\ i + 2 \in 1..(n + 1)
    BY <1>1, <1>7, <1>9
  <2>2. ~At(i + 1)
    BY <2>1
  <2>3. ss[i] = <<>> /\ ss[i + 1] = u
    BY <1>3, <2>1, <2>2
  <2>4. g[i + 1] \in Seq(X) /\ g[i] = <<>> \o g[i + 1] /\ g[i + 1] = u \o g[i + 2]
    <3>1. g[i + 1] = ss[i + 1] \o g[(i + 1) + 1] /\ g[i] = ss[i] \o g[i + 1]
      BY <1>6, <2>1
    <3>2. i + 1 \in 1..(n + 1)
      BY <1>1, <2>1
    <3> QED BY <1>6, <2>1, <2>3, <3>1, <3>2
  <2>5. <<>> \o g[i + 1] = g[i + 1]
    BY <2>4, ConcatEmptySeq
  <2> QED BY <2>4, <2>5
<1>13. ASSUME NEW i \in 1..n, i \notin T, ~Inside(T, 2, i) PROVE g[i] = <<t[i]>> \o g[i + 1]
  <2>1. \A j \in T : j < i => j + 2 <= i
    BY <1>7, <1>9, <1>13 DEF Inside
  <2>2. ~At(i)
    BY <1>8, <1>10, <1>13, <2>1
  <2> QED BY <1>3, <1>6, <2>2
<1>14. From(g, X, t, T, CRLF, u)
  BY <1>2, <1>6, <1>12, <1>13 DEF From
<1>15. Splice(t, T, CRLF, u) = g[1]
  <2>1. CRLF \in Seq(X) /\ CRLF # <<>> /\ u \in Seq(X) /\ Apart(T, Len(CRLF), Len(t))
    BY <1>2, <1>11
  <2> HIDE DEF u
  <2> QED BY <1>14, <2>1, SpliceFrom
<1> QED BY <1>5, <1>6, <1>15 DEF normalizeLineEndings, ReplaceEvery, T

\* Where something is, it is found.
LEMMA InPlaces ==
    ASSUME NEW X, NEW t \in Seq(X), NEW o \in Seq(X), o # <<>>,
           NEW p \in 1..Len(t), p + Len(o) <= Len(t) + 1, \A k \in 1..Len(o) : t[p + k - 1] = o[k]
    PROVE  p \in Places(t, o)
<1> DEFINE n == Len(t)  L == Len(o)  q == p + L - 1  s == SubSeq(t, p, q)
<1>1. n \in Nat /\ L \in Nat /\ L > 0 /\ \A i \in 1..n : t[i] \in X
  BY LenProperties, ElementOfSeq, EmptySeq
<1>2. p \in Int /\ q \in Int /\ p <= q /\ q - p + 1 = L /\ \A i \in p..q : t[i] \in X
  BY <1>1
<1>3. \A k \in 1..L : t[p + k - 1] = o[k]
  OBVIOUS
<1> HIDE DEF q
<1>4. s \in Seq(X) /\ Len(s) = q - p + 1 /\ \A k \in 1..(q - p + 1) : s[k] = t[p + k - 1]
  BY <1>2, SubSeqProperties
<1> HIDE DEF s
<1>5. Len(s) = L /\ \A k \in 1..L : s[k] = o[k]
  BY <1>2, <1>3, <1>4
<1>6. s = o
  BY <1>4, <1>5, SeqEqual
<1>7. p \in 1..(n + 1 - L)
  BY <1>1
<1> QED BY <1>6, <1>7 DEF Places, s, q

\* To give every line feed a carriage return makes a text a Windows one.
LEMMA RestoredIsWindows ==
    ASSUME NEW X, NEW t \in Seq(X), {"CR", "LF"} \subseteq X
    PROVE  ReplaceEvery(t, <<"LF">>, CRLF) = Windows(t)
<1> DEFINE n == Len(t)  o == <<"LF">>  T == Taken(t, o)
<1>1. n \in Nat /\ DOMAIN t = 1..n
  BY LenProperties
<1>2. o \in Seq(X) /\ Len(o) = 1 /\ o[1] = "LF" /\ o # <<>>
  OBVIOUS
<1>3. \A i \in 1..n : i \in Places(t, o) <=> t[i] = "LF"
  <2> SUFFICES ASSUME NEW i \in 1..n PROVE i \in Places(t, o) <=> t[i] = "LF"
    OBVIOUS
  <2>1. i + 1 - 1 = i /\ i + 1 <= n + 1 /\ 1..1 = {1}
    BY <1>1
  <2> HIDE DEF o
  <2>2. ASSUME i \in Places(t, o) PROVE t[i] = "LF"
    <3>1. \A k \in 1..Len(o) : t[i + k - 1] = o[k]
      BY <1>2, <2>2, PlacesAre
    <3>2. t[i + 1 - 1] = o[1]
      BY <1>2, <3>1
    <3> QED BY <1>2, <2>1, <3>2
  <2>3. ASSUME t[i] = "LF" PROVE i \in Places(t, o)
    <3>1. \A k \in 1..Len(o) : t[i + k - 1] = o[k]
      BY <1>2, <2>1, <2>3
    <3>2. i + Len(o) <= n + 1
      BY <1>2, <2>1
    <3> QED BY <1>2, <3>1, <3>2, InPlaces
  <2> QED BY <2>2, <2>3
<1> HIDE DEF o
<1>4. /\ T \subseteq DOMAIN t
      /\ \A i \in DOMAIN t : i \in T <=> i \in Places(t, o) /\ \A j \in T : j < i => j + Len(o) <= i
  <2>1. Len(o) \in Nat
    BY <1>2
  <2> QED BY <2>1, TakenIs
<1>5. \A i \in 1..n : i \in T <=> t[i] = "LF"
  <2> SUFFICES ASSUME NEW i \in 1..n PROVE i \in T <=> t[i] = "LF"
    OBVIOUS
  <2>1. \A j \in T : j < i => j + 1 <= i
    BY <1>1, <1>4
  <2> QED BY <1>1, <1>2, <1>3, <1>4, <2>1
<1>6. \A i \in 1..n : ~\E j \in T : j < i /\ i < j + Len(o)
  BY <1>1, <1>2, <1>4
<1> DEFINE G(i) == IF i \in T THEN CRLF
                   ELSE IF \E j \in T : j < i /\ i < j + Len(o) THEN <<>> ELSE <<t[i]>>
           H(i) == IF t[i] = "LF" THEN CRLF ELSE <<t[i]>>
<1>7. Splice(t, T, o, CRLF) = FlattenSeq([i \in DOMAIN t |-> G(i)])
  BY DEF Splice
<1>8. Windows(t) = FlattenSeq([i \in DOMAIN t |-> H(i)])
  BY DEF Windows
<1>9. \A i \in DOMAIN t : G(i) = H(i)
  BY <1>1, <1>5, <1>6
<1> HIDE DEF G, H, T
<1>10. [i \in DOMAIN t |-> G(i)] = [i \in DOMAIN t |-> H(i)]
  BY <1>9, Zenon
<1> QED BY <1>7, <1>8, <1>10 DEF ReplaceEvery, T, o

\* The edit tool does what is meant.
LEMMA EditedMeant ==
    ASSUME NEW X, NEW t \in Seq(X), NEW e, Proper(e, X)
    PROVE  EditText(t, e) \subseteq EditMeans(t, e)
<1> DEFINE o == e.old  u == e.new  T == Taken(t, o)  n == Len(t)  L == Len(o)
<1>1. o \in Seq(X) /\ u \in Seq(X) /\ o # <<>>
  BY DEF Proper
<1> SUFFICES ASSUME NEW r \in EditText(t, e) PROVE r \in EditMeans(t, e)
  OBVIOUS
<1>2. r = Splice(t, T, o, u) /\ (e.all \/ Cardinality(T) = 1)
  BY DEF EditText
<1>3. T \subseteq Places(t, o) /\ T \subseteq DOMAIN t
  BY <1>1, TakenApart
<1>4. CASE e.all
  <2>1. Splice(t, T, o, u) = AllReplaced(t, o, u)
    <3> HIDE DEF o, u
    <3> QED BY <1>1, SpliceAll
  <2> QED BY <1>2, <1>4, <2>1 DEF EditMeans
<1>5. CASE ~e.all
  <2>1. n \in Nat /\ DOMAIN t = 1..n /\ L \in Nat
    BY <1>1, LenProperties
  <2>2. PICK p : T = {p}
    <3>1. IsFiniteSet(1..n)
      BY <2>1, FS_Interval
    <3>2. IsFiniteSet(T)
      BY <1>3, <2>1, <3>1, FS_Subset
    <3> QED BY <1>2, <1>5, <3>2, FS_Singleton
  <2>3. p \in Places(t, o)
    BY <1>3, <2>2
  <2> HIDE DEF T, o, u
  <2>4. Splice(t, {p}, o, u) = Without(t, p - 1, o, u)
    BY <1>1, <2>3, SpliceOne
  <2> DEFINE k == p - 1
  <2>5. k \in Occurrences(t, o)
    <3>1. p \in 1..(n + 1 - L) /\ SubSeq(t, p, p + L - 1) = o
      BY <2>3 DEF Places
    <3>2. k + 1 = p /\ k + L = p + L - 1 /\ k \in 0..(n - L)
      BY <2>1, <3>1
    <3>3. SubSeq(t, k + 1, k + L) = o
      BY <3>1, <3>2
    <3> QED BY <3>2, <3>3 DEF Occurrences
  <2>7. ASSUME NEW j \in Occurrences(t, o)
        PROVE  k <= j /\ j < k + L
    <3> DEFINE i == j + 1
    <3>1. j \in 0..(n - L) /\ SubSeq(t, j + 1, j + L) = o
      BY <2>7 DEF Occurrences
    <3>2. L > 0
      BY <1>1, <2>1, EmptySeq
    <3>3. /\ i \in 1..(n + 1 - L) /\ i + L - 1 = j + L /\ i \in DOMAIN t
          /\ p \in DOMAIN t
      BY <1>3, <2>1, <2>2, <3>1, <3>2
    <3>4. SubSeq(t, i, i + L - 1) = o
      BY <3>1, <3>3
    <3>5. i \in Places(t, o)
      BY <3>3, <3>4 DEF Places
    <3>6. i = p \/ (p < i /\ i < p + L)
      <4>1. i \in T <=> i \in Places(t, o) /\ \A m \in T : m < i => m + L <= i
        BY <2>1, <3>3, TakenIs DEF T
      <4> HIDE DEF i
      <4>2. i = p \/ ~(\A m \in T : m < i => m + L <= i)
        BY <2>2, <3>5, <4>1
      <4> QED BY <2>1, <2>2, <3>3, <4>2
    <3>7. p \in Int /\ j \in Int /\ L \in Int
      BY <2>1, <3>1, <3>3
    <3> HIDE DEF L
    <3> QED BY <3>2, <3>6, <3>7
  <2>6. r = Without(t, k, o, u)
    BY <1>2, <2>2, <2>4
  <2> HIDE DEF k
  <2> QED BY <1>5, <2>5, <2>6, <2>7 DEF EditMeans, o, u, L
<1> QED BY <1>4, <1>5

\* What is meant by an edit of a text is a text.
LEMMA MeansTyped ==
    ASSUME NEW X, NEW t \in Seq(X), NEW e, Proper(e, X)
    PROVE  EditMeans(t, e) \subseteq Seq(X)
<1> DEFINE o == e.old  u == e.new  n == Len(t)  L == Len(o)
<1>1. o \in Seq(X) /\ u \in Seq(X) /\ o # <<>>
  BY DEF Proper
<1>2. n \in Nat /\ L \in Nat
  BY <1>1, LenProperties
<1>3. AllReplaced(t, o, u) \in Seq(X)
  <2>1. Splice(t, Taken(t, o), o, u) = AllReplaced(t, o, u) /\ Splice(t, Taken(t, o), o, u) \in Seq(X)
    <3> HIDE DEF o, u
    <3> QED BY <1>1, SpliceAll, SpliceTyped
  <2> QED BY <2>1
<1>4. ASSUME NEW i \in 0..(n - L) PROVE Without(t, i, o, u) \in Seq(X)
  <2>1. SubSeq(t, 1, i) \in Seq(X) /\ SubSeq(t, i + L + 1, n) \in Seq(X)
    <3>1. 1 \in 1..(n + 1) /\ i \in 0..n /\ i + L + 1 \in 1..(n + 1) /\ n \in 0..n
      BY <1>2
    <3> QED BY <3>1, PartTyped
  <2> DEFINE a == SubSeq(t, 1, i)  b == SubSeq(t, i + L + 1, n)
  <2> HIDE DEF a, b, o, u
  <2>2. a \o u \in Seq(X)
    BY <1>1, <2>1, ConcatProperties DEF a
  <2>3. (a \o u) \o b \in Seq(X)
    BY <2>1, <2>2, ConcatProperties DEF b
  <2> QED BY <2>3 DEF Without, a, b
<1> QED BY <1>3, <1>4 DEF EditMeans, Occurrences

\* What is meant by the edits goes through such stages, too.
MeantAt(f, t, edits) ==
    /\ EditsMean(t, edits) = f[Len(edits)]
    /\ \A i \in 1..Len(edits) : f[i] = UNION {EditMeans(r, edits[i]) : r \in f[i - 1]}

\* There are such stages.
LEMMA MeantStages ==
    ASSUME NEW X, NEW t \in Seq(X), NEW edits, Len(edits) \in Nat,
           \A i \in 1..Len(edits) : Proper(edits[i], X)
    PROVE  \E f : Stages(f, X, t, edits) /\ MeantAt(f, t, edits)
<1> DEFINE n == Len(edits)  V == Seq(X)  A == {t}
           Does(r, i) == EditMeans(r, edits[i])
           Is(g) == g = [i \in 0..n |-> IF i = 0 THEN A ELSE UNION {Does(r, i) : r \in g[i - 1]}]
           after == CHOOSE g : Is(g)
<1>1. EditsMean(t, edits) = after[n]
  BY DEF EditsMean
<1>2. n \in Nat
  OBVIOUS
<1>3. \A i \in 1..n : \A r \in V : Does(r, i) \subseteq V
  BY MeansTyped
<1>4. A \in SUBSET V
  OBVIOUS
<1> DEFINE does == [p \in V \X (1..n) |-> Does(p[1], p[2])]
<1> HIDE DEF n, Does
<1>5. does \in [V \X (1..n) -> SUBSET V]
  BY <1>3
<1>6. \A r \in V : \A i \in 1..n : does[<<r, i>>] = Does(r, i)
  OBVIOUS
<1> HIDE DEF does, V, A
<1>7. PICK f : Chains(f, V, A, n, does)
  BY <1>2, <1>4, <1>5, Chained
<1> DEFINE G(i) == IF i = 0 THEN A ELSE UNION {does[<<r, i>>] : r \in f[i - 1]}
           H(i) == IF i = 0 THEN A ELSE UNION {Does(r, i) : r \in f[i - 1]}
<1>8. f \in [0..n -> SUBSET V]
  BY <1>7 DEF Chains
<1>9. ASSUME NEW i \in 0..n PROVE G(i) = H(i)
  <2>1. CASE i # 0
    <3>1. i \in 1..n /\ i - 1 \in 0..n
      BY <1>2, <2>1
    <3>2. f[i - 1] \subseteq V
      BY <1>8, <3>1
    <3>3. \A r \in f[i - 1] : does[<<r, i>>] = Does(r, i)
      BY <1>6, <3>1, <3>2
    <3> QED BY <2>1, <3>3
  <2> QED BY <2>1
<1>10. f = [i \in 0..n |-> G(i)]
  BY <1>7 DEF Chains
<1>11. f = [i \in 0..n |-> H(i)]
  <2> HIDE DEF G, H
  <2> QED BY <1>9, <1>10
<1>12. Is(after)
  BY <1>11
<1> HIDE DEF after
<1>13. after[0] = A /\ \A i \in 1..n : after[i] = UNION {Does(r, i) : r \in after[i - 1]}
  <2>1. 0 \in 0..n
    BY <1>2
  <2>2. \A i \in 1..n : i \in 0..n /\ i # 0
    BY <1>2
  <2>3. ASSUME NEW i \in 1..n PROVE after[i] = UNION {Does(r, i) : r \in after[i - 1]}
    BY <1>12, <2>2
  <2> QED BY <1>12, <2>1, <2>3
<1> DEFINE S == {i \in 0..n : after[i] \subseteq V}
<1>14. \A i \in 0..n : after[i] \subseteq V
  <2>1. 0 \in S
    BY <1>2, <1>4, <1>13
  <2>2. \A i \in 0..(n - 1) : i \in S => i + 1 \in S
    <3> SUFFICES ASSUME NEW i \in 0..(n - 1), i \in S PROVE i + 1 \in S
      OBVIOUS
    <3>1. i + 1 \in 1..n /\ (i + 1) - 1 = i
      BY <1>2
    <3>2. after[i + 1] = UNION {Does(r, i + 1) : r \in after[i]}
      BY <1>13, <3>1
    <3> QED BY <1>3, <3>1, <3>2
  <2> HIDE DEF S
  <2>3. 0..n \subseteq S
    BY <1>2, <2>1, <2>2, Upwards
  <2> QED BY <2>3 DEF S
<1>15. after \in [0..n -> SUBSET V]
  BY <1>12, <1>14
<1> QED BY <1>1, <1>13, <1>15 DEF n, V, A, Does, Stages, MeantAt

\* multiedit does what is meant by its edits, one after the other.
LEMMA AppliedMeant ==
    ASSUME NEW X, NEW t \in Seq(X), NEW edits, Len(edits) \in Nat,
           \A i \in 1..Len(edits) : Proper(edits[i], X)
    PROVE  ApplyEdits(t, edits) \subseteq EditsMean(t, edits)
<1> DEFINE n == Len(edits)
<1>1. \A i \in 1..n : edits[i].new \in Seq(X)
  BY DEF Proper
<1>a. PICK f : Stages(f, X, t, edits) /\ AppliedAt(f, t, edits)
  BY <1>1, AppliedStages
<1>b. PICK g : Stages(g, X, t, edits) /\ MeantAt(g, t, edits)
  BY MeantStages
<1>2. /\ Stages(f, X, t, edits) /\ ApplyEdits(t, edits) = f[n]
      /\ \A i \in 1..n : f[i] = UNION {applyEditToContent(r, edits[i]) : r \in f[i - 1]}
  BY <1>a DEF AppliedAt
<1>3. /\ Stages(g, X, t, edits) /\ EditsMean(t, edits) = g[n]
      /\ \A i \in 1..n : g[i] = UNION {EditMeans(r, edits[i]) : r \in g[i - 1]}
  BY <1>b DEF MeantAt
<1>4. f \in [0..n -> SUBSET Seq(X)] /\ f[0] = {t} /\ g[0] = {t}
  BY <1>2, <1>3 DEF Stages
<1> HIDE DEF n
<1> DEFINE S == {i \in 0..n : f[i] \subseteq g[i]}
<1>5. n \in Nat
  BY DEF n
<1>6. 0 \in S
  BY <1>4, <1>5
<1>7. ASSUME NEW i \in 0..(n - 1), i \in S PROVE i + 1 \in S
  <2>1. i + 1 \in 1..n /\ (i + 1) - 1 = i /\ i \in 0..n
    BY <1>5
  <2>2. /\ f[i + 1] = UNION {applyEditToContent(r, edits[i + 1]) : r \in f[i]}
        /\ g[i + 1] = UNION {EditMeans(r, edits[i + 1]) : r \in g[i]}
    BY <1>2, <1>3, <2>1
  <2>3. \A r \in Seq(X) : applyEditToContent(r, edits[i + 1]) \subseteq EditMeans(r, edits[i + 1])
    <3>1. Proper(edits[i + 1], X)
      BY <2>1 DEF n
    <3> QED BY <3>1, AppliedIsEdited, EditedMeant
  <2>4. f[i] \subseteq g[i] /\ f[i] \subseteq Seq(X)
    BY <1>4, <1>7, <2>1
  <2> QED BY <2>1, <2>2, <2>3, <2>4
<1> HIDE DEF S
<1>8. 0..n \subseteq S
  BY <1>5, <1>6, <1>7, Upwards
<1>9. f[n] \subseteq g[n]
  BY <1>5, <1>8 DEF S
<1> QED BY <1>2, <1>3, <1>9

\* Edits of texts that have been looked at, and that do not create a file.
EditsProper(edits) == Len(edits) \in Nat /\ \A i \in 1..Len(edits) : Proper(edits[i], Chars)

\* The edits of a request that has been looked at: those that work on a text.
LEMMA RequestEdits ==
    ASSUME NEW r, IsRequest(r), Editing(r), validateEdits(r.edits)
    PROVE  /\ r.edits # <<>> /\ r.edits[1].new \in Texts
           /\ Creating(r) => EditsProper(Tail(r.edits))
           /\ ~Creating(r) => EditsProper(r.edits)
<1> DEFINE E == [old : Texts, new : Texts, all : BOOLEAN]  es == r.edits  n == Len(es)
<1>1. /\ es \in Seq(E) /\ n \in Nat /\ DOMAIN es = 1..n
      /\ \A i \in 1..n : es[i].old \in Texts /\ es[i].new \in Texts
  BY EditsTyped
<1>2. es # <<>> /\ \A i \in 1..n : es[i].old # es[i].new /\ (i > 1 => es[i].old # <<>>)
  BY <1>1 DEF validateEdits
<1>3. n > 0
  BY <1>1, <1>2, EmptySeq
<1>4. es[1].new \in Texts
  BY <1>1, <1>3
<1>5. Creating(r) <=> es[1].old = <<>>
  BY <1>2 DEF Creating
<1>6. ASSUME ~Creating(r) PROVE EditsProper(es)
  <2>1. \A i \in 1..n : es[i].old # <<>>
    <3>1. \A i \in 1..n : i = 1 \/ i > 1
      BY <1>1
    <3> QED BY <1>2, <1>5, <1>6, <3>1
  <2> QED BY <1>1, <1>2, <2>1 DEF EditsProper, Proper, Texts
<1>7. EditsProper(Tail(es))
  <2> HIDE DEF E
  <2> DEFINE ts == Tail(es)
  <2>1. Len(ts) = n - 1 /\ \A i \in 1..Len(ts) : ts[i] = es[i + 1]
    BY <1>1, <1>2, HeadTailProperties
  <2> HIDE DEF ts, es
  <2>2. \A i \in 1..Len(ts) : i + 1 \in 1..n /\ i + 1 > 1
    BY <1>1, <2>1 DEF es
  <2>3. Len(ts) \in Nat
    BY <1>1, <1>3, <2>1 DEF es
  <2>4. \A i \in 1..Len(ts) : Proper(ts[i], Chars)
    BY <1>1, <1>2, <2>1, <2>2 DEF Proper, Texts, es
  <2> QED BY <2>3, <2>4 DEF EditsProper, ts
<1> QED BY <1>2, <1>4, <1>6, <1>7

\* multiedit does what is meant, whatever the line endings.
LEMMA MultiEditMeant ==
    ASSUME NEW t \in Texts, NEW edits, EditsProper(edits)
    PROVE  MultiEditText(t, edits) \subseteq
               IF t = Unix(t) THEN EditsMean(t, edits) ELSE {Windows(u) : u \in EditsMean(Unix(t), edits)}
<1> DEFINE old == normalizeLineEndings(t)
<1>1. t \in Seq(Chars) /\ {"CR", "LF"} \subseteq Chars
  BY TextsAssumption DEF Texts
<1>2. CRLF \in Seq(Chars) /\ <<"LF">> \in Seq(Chars) /\ CRLF # <<>>
  BY <1>1 DEF CRLF
<1>3. old = Unix(t)
  BY <1>1, NormalizedIsUnix
<1>4. old \in Seq(Chars)
  BY <1>1, <1>2, SpliceTyped DEF normalizeLineEndings, ReplaceEvery
<1>5. Places(t, CRLF) = {} <=> t = Unix(t)
  <2>1. ASSUME t = Unix(t) PROVE Places(t, CRLF) = {}
    BY <1>1, <2>1, NoEndings
  <2>2. ASSUME Places(t, CRLF) = {} PROVE t = Unix(t)
    <3>1. Taken(t, CRLF) = {}
      BY <1>1, <1>2, <2>2, TakenApart
    <3>2. old = t
      BY <1>1, <1>2, <3>1, SpliceNothing DEF normalizeLineEndings, ReplaceEvery
    <3> QED BY <1>3, <3>2
  <2> QED BY <2>1, <2>2
<1>6. ApplyEdits(old, edits) \subseteq EditsMean(old, edits)
  <2> HIDE DEF old
  <2> QED BY <1>4, AppliedMeant DEF EditsProper
<1>7. ApplyEdits(old, edits) \subseteq Seq(Chars)
  <2>1. Len(edits) \in Nat /\ \A i \in 1..Len(edits) : edits[i].new \in Seq(Chars)
    BY DEF EditsProper, Proper
  <2> HIDE DEF old
  <2> QED BY <1>4, <2>1, AppliedTyped
<1> SUFFICES ASSUME NEW r \in ApplyEdits(old, edits)
             PROVE  RestoreLineEndings(t, r) \in
                        IF t = Unix(t) THEN EditsMean(t, edits)
                        ELSE {Windows(u) : u \in EditsMean(Unix(t), edits)}
  BY DEF MultiEditText
<1>8. r \in EditsMean(Unix(t), edits) /\ r \in Seq(Chars)
  BY <1>3, <1>6, <1>7
<1>9. CASE t = Unix(t)
  <2>1. RestoreLineEndings(t, r) = r
    BY <1>5, <1>9 DEF RestoreLineEndings
  <2> QED BY <1>8, <1>9, <2>1
<1>10. CASE t # Unix(t)
  <2>1. RestoreLineEndings(t, r) = ReplaceEvery(r, <<"LF">>, CRLF)
    BY <1>5, <1>10 DEF RestoreLineEndings
  <2>2. ReplaceEvery(r, <<"LF">>, CRLF) = Windows(r)
    BY <1>1, <1>8, RestoredIsWindows
  <2> QED BY <1>8, <1>10, <2>1, <2>2
<1> QED BY <1>9, <1>10

\* A request makes of a file, and of none, what is meant by it.
LEMMA RequestsMeant ==
    ASSUME NEW r, IsRequest(r), Editing(r) => validateEdits(r.edits)
    PROVE  /\ NewText(r) \subseteq Means(r, Absent)
           /\ \A t \in Texts : r.tool # "view" /\ ~Creating(r) => TextFrom(r, t) \subseteq Means(r, t)
           /\ r.tool = "write" => \A t : Means(r, t) = {r.text}
<1>1. r.tool \in {"view", "write", "edit", "multiedit"}
  BY DEF IsRequest
<1>2. Creating(r) => r.tool \in {"edit", "multiedit"}
  BY DEF Creating, Editing
<1>3. r.tool = "write" => \A t : Means(r, t) = {r.text}
  BY <1>2 DEF Means
<1>4. NewText(r) \subseteq Means(r, Absent)
  <2>1. CASE r.tool = "write"
    BY <1>3, <2>1 DEF NewText
  <2>2. CASE Creating(r)
    <3>1. r.tool # "write" /\ Editing(r)
      BY <1>2, <2>2 DEF Creating
    <3>2. NewText(r) = ApplyEdits(r.edits[1].new, Tail(r.edits))
      BY <2>2, <3>1 DEF NewText, CreateText
    <3>3. Means(r, Absent) = EditsMean(r.edits[1].new, Tail(r.edits))
      BY <2>2, <3>1 DEF Means
    <3>4. r.edits[1].new \in Texts /\ EditsProper(Tail(r.edits))
      BY <2>2, <3>1, RequestEdits
    <3> DEFINE t == r.edits[1].new  es == Tail(r.edits)
    <3> HIDE DEF t, es
    <3>5. ApplyEdits(t, es) \subseteq EditsMean(t, es)
      BY <3>4, AppliedMeant DEF t, es, EditsProper, Texts
    <3> QED BY <3>2, <3>3, <3>5 DEF t, es
  <2>3. CASE r.tool # "write" /\ ~Creating(r)
    BY <2>3 DEF NewText
  <2> QED BY <2>1, <2>2, <2>3
<1>5. ASSUME NEW t \in Texts, r.tool # "view", ~Creating(r) PROVE TextFrom(r, t) \subseteq Means(r, t)
  <2>0. t # Absent
    BY TextsAssumption
  <2>1. CASE r.tool = "write"
    BY <1>3, <2>1 DEF TextFrom
  <2>2. CASE r.tool = "edit"
    <3>1. TextFrom(r, t) = EditText(t, r.edits[1]) /\ Means(r, t) = EditMeans(t, r.edits[1])
      BY <1>5, <2>0, <2>2 DEF TextFrom, Means
    <3>2. Proper(r.edits[1], Chars)
      <4>1. EditsProper(r.edits) /\ Len(r.edits) = 1
        BY <1>5, <2>2, RequestEdits, EditsTyped DEF Editing
      <4> QED BY <4>1 DEF EditsProper
    <3>3. EditText(t, r.edits[1]) \subseteq EditMeans(t, r.edits[1])
      BY <3>2, EditedMeant DEF Texts
    <3> QED BY <3>1, <3>3
  <2>3. CASE r.tool = "multiedit"
    <3>1. EditsProper(r.edits)
      BY <1>5, <2>3, RequestEdits DEF Editing
    <3>2. TextFrom(r, t) = MultiEditText(t, r.edits)
      BY <2>3 DEF TextFrom
    <3>3. Means(r, t) = IF t = Unix(t) THEN EditsMean(t, r.edits)
                        ELSE {Windows(u) : u \in EditsMean(Unix(t), r.edits)}
      BY <1>5, <2>0, <2>3 DEF Means
    <3> QED BY <3>1, <3>2, <3>3, MultiEditMeant
  <2> QED BY <1>1, <1>5, <2>1, <2>2, <2>3
<1> QED BY <1>3, <1>4, <1>5

-----------------------------------------------------------------------------
(* The files that requests leave.                                          *)

\* after[c] are the files that the first c requests may leave.
LeftAt(after, j, outcome) ==
    /\ DOMAIN after = 0..N /\ after[0] = {j.file}
    /\ \A c \in Calls : after[c] = After(j.of[c], outcome[c], after[c - 1])

\* LeftBy goes through such files.
LEMMA LeftIs ==
    ASSUME NEW j, NEW outcome
    PROVE  \E after : LeftAt(after, j, outcome) /\ LeftBy(j, outcome) = after[N]
<1> DEFINE A == {j.file}
           Does(fs, c) == After(j.of[c], outcome[c], fs)
           Is(g) == g = [c \in 0..N |-> IF c = 0 THEN A ELSE Does(g[c - 1], c)]
           after == CHOOSE g : Is(g)
           Good(k) == \E f : DOMAIN f = 0..k /\ f = [c \in 0..k |-> IF c = 0 THEN A ELSE Does(f[c - 1], c)]
           S == {k \in 0..N : Good(k)}
<1>1. LeftBy(j, outcome) = after[N]
  BY DEF LeftBy
<1>2. N \in Nat
  BY JobsAssumption
<1> HIDE DEF A, Does
<1>3. 0 \in S
  <2> DEFINE f == [c \in 0..0 |-> A]
             G(c) == IF c = 0 THEN A ELSE Does(f[c - 1], c)
  <2>1. \A c \in 0..0 : f[c] = G(c)
    OBVIOUS
  <2>2. f = [c \in 0..0 |-> G(c)]
    <3> HIDE DEF G
    <3> QED BY <2>1
  <2>3. DOMAIN f = 0..0
    OBVIOUS
  <2> HIDE DEF f
  <2>4. Good(0)
    BY <2>2, <2>3
  <2> QED BY <1>2, <2>4
<1>4. ASSUME NEW i \in 0..(N - 1), i \in S PROVE i + 1 \in S
  <2>1. PICK f : DOMAIN f = 0..i /\ f = [c \in 0..i |-> IF c = 0 THEN A ELSE Does(f[c - 1], c)]
    BY <1>4
  <2> DEFINE h == [c \in 0..(i + 1) |-> IF c = i + 1 THEN Does(f[i], i + 1) ELSE f[c]]
             G(c) == IF c = 0 THEN A ELSE Does(h[c - 1], c)
  <2>2. i \in 0..i /\ i \in 0..(i + 1) /\ i + 1 \in 0..(i + 1) /\ (i + 1) - 1 = i /\ i + 1 # 0 /\ i # i + 1
    BY <1>2
  <2>3. ASSUME NEW c \in 0..(i + 1) PROVE h[c] = G(c)
    <3>1. CASE c = i + 1
      <4>1. h[i] = f[i] /\ h[i + 1] = Does(f[i], i + 1)
        BY <2>2
      <4> HIDE DEF h
      <4> QED BY <2>2, <3>1, <4>1
    <3>2. CASE c = 0
      <4>1. 0 \in 0..i
        BY <1>2
      <4>2. f[0] = A
        BY <2>1, <4>1
      <4> QED BY <1>2, <3>2, <4>2
    <3>3. CASE c \in 1..i
      <4>1. c \in 0..i /\ c # 0 /\ c # i + 1 /\ c - 1 \in 0..(i + 1) /\ c - 1 # i + 1
        BY <1>2, <3>3
      <4>2. f[c] = Does(f[c - 1], c)
        BY <2>1, <4>1
      <4>3. h[c] = f[c] /\ h[c - 1] = f[c - 1]
        BY <4>1
      <4> QED BY <4>1, <4>2, <4>3
    <3> QED BY <1>2, <3>1, <3>2, <3>3
  <2>4. DOMAIN h = 0..(i + 1)
    OBVIOUS
  <2>5. h = [c \in 0..(i + 1) |-> G(c)]
    <3>1. h = [c \in 0..(i + 1) |-> h[c]]
      OBVIOUS
    <3> HIDE DEF G, h
    <3> QED BY <2>3, <3>1
  <2> HIDE DEF h
  <2>6. Good(i + 1)
    BY <2>4, <2>5
  <2> QED BY <1>2, <2>6
<1> HIDE DEF S
<1>5. 0..N \subseteq S
  BY <1>2, <1>3, <1>4, Upwards
<1>6. PICK f : f = [c \in 0..N |-> IF c = 0 THEN A ELSE Does(f[c - 1], c)]
  <2>1. N \in S
    BY <1>2, <1>5
  <2> QED BY <2>1 DEF S
<1>7. Is(after)
  BY <1>6
<1> HIDE DEF after
<1>8. DOMAIN after = 0..N /\ after[0] = A
  <2>1. 0 \in 0..N
    BY <1>2
  <2> QED BY <1>7, <2>1
<1>9. \A c \in Calls : after[c] = Does(after[c - 1], c)
  <2>1. \A c \in Calls : c \in 0..N /\ c # 0
    BY <1>2 DEF Calls
  <2> QED BY <1>7, <2>1
<1> QED BY <1>1, <1>8, <1>9 DEF LeftAt, A, Does

\* Nothing of what was said about requests is about those that said nothing.
Silent(a) == a \notin {"ok", "failed"}

\* An answer that is the last one makes of what was left what there is after it.
LEMMA LeftWith ==
    ASSUME NEW j, NEW o1, NEW o2, NEW c \in Calls, Silent(o1[c]),
           \A d \in Calls : d # c => o2[d] = o1[d],
           \A d \in Calls : d > c => Silent(o1[d])
    PROVE  LeftBy(j, o2) = After(j.of[c], o2[c], LeftBy(j, o1))
<1> N \in Nat
  BY JobsAssumption
<1>1. PICK f : LeftAt(f, j, o1) /\ LeftBy(j, o1) = f[N]
  BY LeftIs
<1>2. PICK g : LeftAt(g, j, o2) /\ LeftBy(j, o2) = g[N]
  BY LeftIs
<1>3. /\ f[0] = {j.file} /\ \A d \in 1..N : f[d] = After(j.of[d], o1[d], f[d - 1])
      /\ g[0] = {j.file} /\ \A d \in 1..N : g[d] = After(j.of[d], o2[d], g[d - 1])
  BY <1>1, <1>2 DEF LeftAt, Calls
<1>4. \A r, a, fs : Silent(a) => After(r, a, fs) = fs
  BY DEF Silent, After
<1> DEFINE X == After(j.of[c], o2[c], f[c - 1])
           Fits(d) == IF d < c THEN g[d] = f[d] ELSE f[d] = f[c - 1] /\ g[d] = X
           S == {d \in 0..N : Fits(d)}
<1>5. c \in 1..N
  BY DEF Calls
<1>6. 0 \in S
  <2>1. 0 < c /\ 0 \in 0..N /\ g[0] = f[0]
    BY <1>3, <1>5
  <2> HIDE DEF X
  <2> QED BY <2>1
<1>7. ASSUME NEW i \in 0..(N - 1), i \in S PROVE i + 1 \in S
  <2>1. i + 1 \in 1..N /\ (i + 1) - 1 = i /\ i + 1 \in 0..N
    OBVIOUS
  <2>2. f[i + 1] = After(j.of[i + 1], o1[i + 1], f[i]) /\ g[i + 1] = After(j.of[i + 1], o2[i + 1], g[i])
    BY <1>3, <2>1
  <2>3. Fits(i)
    BY <1>7
  <2>4. CASE i + 1 < c
    <3>1. g[i] = f[i] /\ o2[i + 1] = o1[i + 1]
      BY <1>5, <2>1, <2>3, <2>4 DEF Calls
    <3>2. Fits(i + 1)
      BY <2>2, <2>4, <3>1
    <3> QED BY <2>1, <3>2
  <2>5. CASE i + 1 = c
    <3>1. g[i] = f[i] /\ c - 1 = i
      BY <1>5, <2>3, <2>5
    <3>2. f[c] = f[i]
      BY <1>4, <2>2, <2>5
    <3>3. g[c] = X
      BY <2>2, <2>5, <3>1
    <3> HIDE DEF X
    <3>4. Fits(i + 1)
      BY <2>5, <3>1, <3>2, <3>3, <1>5
    <3> QED BY <2>1, <3>4
  <2>6. CASE i + 1 > c
    <3>1. Silent(o1[i + 1]) /\ Silent(o2[i + 1])
      BY <1>5, <2>1, <2>6 DEF Calls
    <3>2. f[i] = f[c - 1] /\ g[i] = X
      <4> HIDE DEF X
      <4> QED BY <1>5, <2>3, <2>6
    <3>3. f[i + 1] = f[c - 1] /\ g[i + 1] = X
      <4> HIDE DEF X
      <4> QED BY <1>4, <2>2, <3>1, <3>2
    <3> HIDE DEF X
    <3>4. Fits(i + 1)
      BY <2>6, <3>3, <1>5
    <3> QED BY <2>1, <3>4
  <2> QED BY <1>5, <2>1, <2>4, <2>5, <2>6
<1> HIDE DEF S
<1>8. 0..N \subseteq S
  BY <1>6, <1>7, Upwards
<1>9. Fits(N)
  BY <1>8 DEF S
<1>10. f[N] = f[c - 1] /\ g[N] = X
  <2> HIDE DEF X
  <2> QED BY <1>5, <1>9
<1> QED BY <1>1, <1>2, <1>10

\* One that says nothing leaves what there was.
LEMMA LeftSilent ==
    ASSUME NEW j, NEW o1, NEW o2, \A d \in Calls : o2[d] = o1[d] \/ (Silent(o1[d]) /\ Silent(o2[d]))
    PROVE  LeftBy(j, o2) = LeftBy(j, o1)
<1> N \in Nat
  BY JobsAssumption
<1>1. PICK f : LeftAt(f, j, o1) /\ LeftBy(j, o1) = f[N]
  BY LeftIs
<1>2. PICK g : LeftAt(g, j, o2) /\ LeftBy(j, o2) = g[N]
  BY LeftIs
<1>3. /\ f[0] = {j.file} /\ \A d \in 1..N : f[d] = After(j.of[d], o1[d], f[d - 1])
      /\ g[0] = {j.file} /\ \A d \in 1..N : g[d] = After(j.of[d], o2[d], g[d - 1])
  BY <1>1, <1>2 DEF LeftAt, Calls
<1>4. \A r, a, fs : Silent(a) => After(r, a, fs) = fs
  BY DEF Silent, After
<1> DEFINE S == {d \in 0..N : f[d] = g[d]}
<1>5. 0 \in S
  BY <1>3
<1>6. ASSUME NEW i \in 0..(N - 1), i \in S PROVE i + 1 \in S
  <2>1. i + 1 \in 1..N /\ (i + 1) - 1 = i /\ i + 1 \in 0..N /\ f[i] = g[i]
    BY <1>6
  <2>2. f[i + 1] = After(j.of[i + 1], o1[i + 1], f[i]) /\ g[i + 1] = After(j.of[i + 1], o2[i + 1], g[i])
    BY <1>3, <2>1
  <2>3. o2[i + 1] = o1[i + 1] \/ (Silent(o1[i + 1]) /\ Silent(o2[i + 1]))
    BY <2>1 DEF Calls
  <2>4. f[i + 1] = g[i + 1]
    BY <1>4, <2>1, <2>2, <2>3
  <2> QED BY <2>1, <2>4
<1> HIDE DEF S
<1>7. 0..N \subseteq S
  BY <1>5, <1>6, Upwards
<1>8. f[N] = g[N]
  BY <1>7 DEF S
<1> QED BY <1>1, <1>2, <1>8

-----------------------------------------------------------------------------
(* What the file is.                                                       *)

\* A call that writes, or that may have written.
Writing(c) == Tool(c) # "view" /\ at[c] \in {"put", "record"}
Writer(c)  == Writing(c) \/ (Tool(c) # "view" /\ answer[c] \in {"ok", "failed"})

\* The calls of one run, or those of which one writes.
Alone == job.serial \/ \A c, d \in Calls : Writer(c) /\ Writer(d) => c = d

\* How the calls follow each other.
InOrder ==
    /\ \A c \in Calls : at[c] # "done" => answer[c] = "none"
    /\ \A c \in Calls : Tool(c) = "view" => at[c] \notin {"open", "put"}
    /\ job.serial => \A c \in Calls : at[c] # "new" => \A d \in Calls : d < c => at[d] = "done"

\* The file is what has been left, or what the call that writes it means.
FileKept ==
    Alone =>
        /\ (\A c \in Calls : ~Writing(c)) => file \in Left
        /\ \A c \in Calls : Writing(c) =>
               /\ \E t \in Left : out[c] \in Means(Request(c), t)
               /\ file = IF at[c] = "put" THEN <<>> ELSE out[c]
        /\ \A c \in Calls : at[c] = "open" /\ (job.serial \/ \A d \in Calls : ~Writer(d)) =>
               \E t \in Left : out[c] \in Means(Request(c), t)

\* All but one of the calls stay as they are.
OthersStay(c) ==
    /\ job' = job
    /\ \A d \in Calls : d # c => at'[d] = at[d] /\ answer'[d] = answer[d] /\ out'[d] = out[d]

\* Only one call of a run is under way.
LEMMA OnlyOne ==
    ASSUME InOrder, job.serial, NEW c \in Calls, NEW d \in Calls,
           at[c] \notin {"new", "done"}, at[d] # "done", c # d
    PROVE  at[d] = "new" /\ c < d
<1> N \in Nat
  BY JobsAssumption
<1>1. c < d \/ d < c
  BY DEF Calls
<1>2. ~(d < c)
  BY DEF InOrder
<1>3. c < d /\ at[d] = "new"
  BY <1>1, <1>2 DEF InOrder
<1> QED BY <1>3

\* The order of the calls is kept.
LEMMA OrderStays == TypeOK /\ InOrder /\ [Next]_vars => InOrder'
<1> SUFFICES ASSUME TypeOK, InOrder, [Next]_vars PROVE InOrder'
  OBVIOUS
<1>0. /\ at \in [Calls -> {"new", "stat", "read", "open", "put", "record", "done"}]
      /\ DOMAIN answer = Calls /\ job' = job
  BY JobStays DEF TypeOK
<1>a. \A c \in Calls : Tool(c)' = Tool(c)
  BY <1>0 DEF Tool, Request
<1>1. ASSUME NEW c \in Calls, at[c] # "done", at'[c] # "new",
             \A d \in Calls : d # c => at'[d] = at[d] /\ answer'[d] = answer[d],
             at'[c] # "done" => answer'[c] = "none",
             Tool(c) = "view" => at'[c] \notin {"open", "put"},
             job.serial => \A d \in Calls : d < c => at[d] = "done"
      PROVE  InOrder'
  <2>1. \A d \in Calls : at'[d] # "done" => answer'[d] = "none"
    BY <1>1 DEF InOrder
  <2>2. \A d \in Calls : Tool(d)' = "view" => at'[d] \notin {"open", "put"}
    BY <1>1, <1>a DEF InOrder
  <2>3. ASSUME job.serial, NEW d \in Calls, at'[d] # "new", NEW e \in Calls, e < d PROVE at'[e] = "done"
    <3>0. N \in Nat
      BY JobsAssumption
    <3>1. CASE d = c
      <4>1. e # c
        BY <2>3, <3>0, <3>1 DEF Calls
      <4> QED BY <1>1, <2>3, <3>1, <4>1
    <3>2. CASE d # c
      <4>1. at[e] = "done"
        BY <1>1, <2>3, <3>2 DEF InOrder
      <4> QED BY <1>1, <4>1
    <3> QED BY <3>1, <3>2
  <2> QED BY <1>0, <2>1, <2>2, <2>3 DEF InOrder
<1>b. \A c \in Calls : at[c] # "new" /\ job.serial => \A d \in Calls : d < c => at[d] = "done"
  BY DEF InOrder
<1>2. ASSUME NEW c \in Calls, Begin(c) PROVE InOrder'
  <2>1. job.serial => \A d \in Calls : d < c => at[d] = "done"
    <3>1. \A d \in Calls : d < c => d \in 1..(c - 1)
      BY JobsAssumption DEF Calls
    <3> QED BY <1>2, <3>1 DEF Begin
  <2>2. at[c] = "new" /\ answer[c] = "none"
    BY <1>2 DEF Begin, Answer, Goto, InOrder
  <2> QED BY <1>0, <1>1, <1>2, <2>1, <2>2 DEF Begin, Answer, Goto
<1>3. ASSUME NEW c \in Calls, Stat(c) PROVE InOrder'
  <2>1. at[c] = "stat" /\ answer[c] = "none"
    BY <1>3 DEF Stat, Proceed, Answer, Goto, InOrder
  <2>2. Tool(c) = "view" => NewText(Request(c)) = {}
    BY DEF Tool, NewText, Creating, Editing
  <2> QED BY <1>0, <1>1, <1>3, <1>b, <2>1, <2>2 DEF Stat, Proceed, Answer, Goto
<1>4. ASSUME NEW c \in Calls, StatFails(c) PROVE InOrder'
  <2>1. at[c] = "stat" /\ answer[c] = "none"
    BY <1>4 DEF StatFails, Proceed, Answer, Goto, InOrder
  <2> QED BY <1>0, <1>1, <1>4, <1>b, <2>1 DEF StatFails, Proceed, Answer, Goto
<1>5. ASSUME NEW c \in Calls, ReadView(c) \/ ReadSame(c) \/ ReadFails(c) PROVE InOrder'
  <2>1. at[c] = "read" /\ answer[c] = "none"
    BY <1>5 DEF ReadView, ReadSame, ReadFails, Answer, Goto, InOrder
  <2> QED BY <1>0, <1>1, <1>5, <1>b, <2>1 DEF ReadView, ReadSame, ReadFails, Answer, Goto
<1>6. ASSUME NEW c \in Calls, Read(c) PROVE InOrder'
  <2>1. at[c] = "read" /\ answer[c] = "none" /\ Tool(c) # "view"
    BY <1>6 DEF Read, Proceed, Answer, Goto, InOrder
  <2> QED BY <1>0, <1>1, <1>6, <1>b, <2>1 DEF Read, Proceed, Answer, Goto
<1>7. ASSUME NEW c \in Calls, Open(c) \/ OpenFails(c) PROVE InOrder'
  <2>1. at[c] = "open" /\ answer[c] = "none"
    BY <1>7 DEF Open, OpenFails, Answer, Goto, InOrder
  <2>2. Tool(c) # "view"
    BY <2>1 DEF InOrder
  <2> QED BY <1>0, <1>1, <1>7, <1>b, <2>1, <2>2 DEF Open, OpenFails, Answer, Goto
<1>8. ASSUME NEW c \in Calls, Put(c) \/ PutFails(c) \/ Record(c) PROVE InOrder'
  <2>1. at[c] \in {"put", "record"} /\ answer[c] = "none"
    BY <1>8 DEF Put, PutFails, Record, Answer, Goto, InOrder
  <2> QED BY <1>0, <1>1, <1>8, <1>b, <2>1 DEF Put, PutFails, Record, Answer, Goto
<1>9. CASE UNCHANGED vars
  BY <1>9, <1>a DEF vars, InOrder
<1> QED BY <1>2, <1>3, <1>4, <1>5, <1>6, <1>7, <1>8, <1>9 DEF Next

\* The answer of one that may have written changes what is left.
LEMMA LeftNext ==
    ASSUME TypeOK, InOrder, NEW c \in Calls, Tool(c) # "view", at[c] \notin {"new", "done"},
           OthersStay(c), answer' \in [Calls -> {"none", "refused", "failed", "unchanged", "ok"}],
           job.serial \/ \A d \in Calls : Writer(d) => d = c
    PROVE  /\ Left' = After(Request(c), answer'[c], Left)
           /\ \A d \in Calls : Writing(d) => d = c
<1>1. \A d \in Calls : Writing(d) => d = c
  <2> SUFFICES ASSUME NEW d \in Calls, Writing(d), d # c PROVE FALSE
    OBVIOUS
  <2>1. job.serial
    BY DEF Writer
  <2>2. at[d] \in {"put", "record"}
    BY DEF Writing
  <2> QED BY <2>1, <2>2, OnlyOne
<1>2. job' = job /\ \A d \in Calls : d # c => answer'[d] = answer[d]
  BY DEF OthersStay
<1> DEFINE o1 == Outcome  o2 == Outcome'
<1>3. \A d \in Calls : o1[d] = IF Tool(d) = "view" THEN "none" ELSE answer[d]
  BY DEF Outcome
<1>4. \A d \in Calls : o2[d] = IF Tool(d) = "view" THEN "none" ELSE answer'[d]
  BY <1>2 DEF Outcome, Tool, Request
<1>5. Silent(o1[c])
  <2>1. answer[c] = "none"
    BY DEF InOrder
  <2> QED BY <1>3, <2>1 DEF Silent
<1>6. \A d \in Calls : d # c => o2[d] = o1[d]
  BY <1>2, <1>3, <1>4
<1>7. ASSUME NEW d \in Calls, d > c PROVE Silent(o1[d])
  <2>0. d # c
    BY <1>7, JobsAssumption DEF Calls
  <2>1. CASE job.serial
    <3>1. at[d] # "done"
      <4> SUFFICES ASSUME at[d] = "done" PROVE FALSE
        OBVIOUS
      <4>1. c < d
        BY <1>7, JobsAssumption DEF Calls
      <4>2. at[c] = "done"
        BY <2>1, <4>1 DEF InOrder
      <4> QED BY <4>2
    <3>2. answer[d] = "none"
      BY <3>1 DEF InOrder
    <3> QED BY <1>3, <3>2 DEF Silent
  <2>2. CASE ~job.serial
    <3>1. ~Writer(d)
      BY <2>0, <2>2
    <3> QED BY <1>3, <3>1 DEF Silent, Writer
  <2> QED BY <2>1, <2>2
<1>8. o2[c] = answer'[c]
  BY <1>4
<1> DEFINE j == job
<1> HIDE DEF o1, o2, j
<1>9. LeftBy(j, o2) = After(j.of[c], o2[c], LeftBy(j, o1))
  BY <1>5, <1>6, <1>7, LeftWith
<1>10. Left' = LeftBy(j, o2) /\ Left = LeftBy(j, o1)
  BY <1>2 DEF Left, j, o1, o2
<1>11. j.of[c] = Request(c)
  BY DEF j, Request
<1> QED BY <1>1, <1>8, <1>9, <1>10, <1>11

\* An answer that says that nothing was done changes nothing.
LEMMA LeftStays ==
    ASSUME InOrder, NEW c \in Calls, OthersStay(c), at[c] # "done",
           Tool(c) = "view" \/ answer'[c] \notin {"ok", "failed"}
    PROVE  Left' = Left
<1>2. job' = job /\ \A d \in Calls : d # c => answer'[d] = answer[d]
  BY DEF OthersStay
<1> DEFINE o1 == Outcome  o2 == Outcome'
<1>3. \A d \in Calls : o1[d] = IF Tool(d) = "view" THEN "none" ELSE answer[d]
  BY DEF Outcome
<1>4. \A d \in Calls : o2[d] = IF Tool(d) = "view" THEN "none" ELSE answer'[d]
  BY <1>2 DEF Outcome, Tool, Request
<1>5. answer[c] = "none"
  BY DEF InOrder
<1>6. \A d \in Calls : o2[d] = o1[d] \/ (Silent(o1[d]) /\ Silent(o2[d]))
  BY <1>2, <1>3, <1>4, <1>5 DEF Silent
<1> DEFINE j == job
<1> HIDE DEF o1, o2, j
<1>7. LeftBy(j, o2) = LeftBy(j, o1)
  BY <1>6, LeftSilent
<1>8. Left' = LeftBy(j, o2) /\ Left = LeftBy(j, o1)
  BY <1>2 DEF Left, j, o1, o2
<1> QED BY <1>7, <1>8

\* A call that does not write leaves the file to the others.
LEMMA KeptBeside ==
    ASSUME InOrder, FileKept, NEW c \in Calls, OthersStay(c), file' = file, at[c] # "done",
           Tool(c) = "view" \/ answer'[c] \notin {"ok", "failed"},
           Tool(c) = "view" \/ (at[c] \notin {"put", "record"} /\ at'[c] \notin {"put", "record"}),
           at'[c] = "open" => at[c] \notin {"new", "done"} /\
               (file \in Left => \E t \in Left : out'[c] \in Means(Request(c), t))
    PROVE  FileKept'
<1>0. job' = job /\ Left' = Left /\ \A d \in Calls : Tool(d)' = Tool(d) /\ Request(d)' = Request(d)
  BY LeftStays DEF OthersStay, Tool, Request
<1>1. \A d \in Calls : Writing(d)' <=> Writing(d)
  BY <1>0 DEF Writing, OthersStay
<1>2. answer[c] = "none"
  BY DEF InOrder
<1>3. \A d \in Calls : Writer(d)' <=> Writer(d)
  BY <1>0, <1>1, <1>2 DEF Writer, OthersStay
<1>4. Alone' <=> Alone
  BY <1>0, <1>3 DEF Alone
<1> SUFFICES ASSUME Alone PROVE FileKept'
  BY <1>4 DEF FileKept
<1>5. /\ (\A d \in Calls : ~Writing(d)) => file \in Left
      /\ \A d \in Calls : Writing(d) =>
             /\ \E t \in Left : out[d] \in Means(Request(d), t)
             /\ file = IF at[d] = "put" THEN <<>> ELSE out[d]
      /\ \A d \in Calls : at[d] = "open" /\ (job.serial \/ \A e \in Calls : ~Writer(e)) =>
             \E t \in Left : out[d] \in Means(Request(d), t)
  BY DEF FileKept
<1>6. ASSUME NEW d \in Calls, Writing(d)'
      PROVE  /\ \E t \in Left' : out'[d] \in Means(Request(d)', t)
             /\ file' = IF at'[d] = "put" THEN <<>> ELSE out'[d]
  <2>1. Writing(d) /\ d # c
    BY <1>1, <1>6 DEF Writing
  <2>2. at'[d] = at[d] /\ out'[d] = out[d]
    BY <2>1 DEF OthersStay
  <2> QED BY <1>0, <1>5, <2>1, <2>2
<1>7. ASSUME NEW d \in Calls, at'[d] = "open", job.serial \/ \A e \in Calls : ~Writer(e)
      PROVE  \E t \in Left' : out'[d] \in Means(Request(d)', t)
  <2>1. CASE d # c
    <3>1. at'[d] = at[d] /\ out'[d] = out[d]
      BY <2>1 DEF OthersStay
    <3> QED BY <1>0, <1>5, <1>7, <3>1
  <2>2. CASE d = c
    <3>1. \A e \in Calls : ~Writing(e)
      <4> SUFFICES ASSUME NEW e \in Calls, Writing(e) PROVE FALSE
        OBVIOUS
      <4>1. job.serial
        BY <1>7 DEF Writer
      <4>2. at[e] \in {"put", "record"} /\ Tool(e) # "view"
        BY DEF Writing
      <4>3. e # c
        BY <1>7, <2>2, <4>2
      <4>4. at[c] \notin {"new", "done"}
        BY <1>7, <2>2
      <4> QED BY <4>1, <4>2, <4>3, <4>4, OnlyOne
    <3>2. file \in Left
      BY <1>5, <3>1
    <3> QED BY <1>0, <1>7, <2>2, <3>2
  <2> QED BY <2>1, <2>2
<1>8. /\ (\A d \in Calls : ~Writing(d)') => file' \in Left'
      /\ (\A e \in Calls : ~Writer(e)') <=> (\A e \in Calls : ~Writer(e))
  BY <1>0, <1>1, <1>3, <1>5
<1>9. \A d \in Calls : at'[d] = "open" /\ (job'.serial \/ \A e \in Calls : ~Writer(e)') =>
          \E t \in Left' : out'[d] \in Means(Request(d)', t)
  BY <1>0, <1>7, <1>8
<1> QED BY <1>6, <1>8, <1>9 DEF FileKept

\* One that ends having written, or failed, leaves the file as it says.
LEMMA KeptByAnswer ==
    ASSUME TypeOK, InOrder, FileKept, NEW c \in Calls, OthersStay(c), Tool(c) # "view",
           at[c] \notin {"new", "done"}, at'[c] = "done", answer'[c] \in {"ok", "failed"},
           answer' \in [Calls -> {"none", "refused", "failed", "unchanged", "ok"}],
           (\A d \in Calls : Writing(d) => d = c) /\ Alone => file' \in After(Request(c), answer'[c], Left)
    PROVE  FileKept'
<1>0. job' = job /\ \A d \in Calls : Tool(d)' = Tool(d) /\ Request(d)' = Request(d)
  BY DEF OthersStay, Tool, Request
<1>1. \A d \in Calls : d # c => (Writer(d)' <=> Writer(d)) /\ (Writing(d)' <=> Writing(d))
  BY <1>0 DEF Writer, Writing, OthersStay
<1>2. Writer(c)' /\ ~Writing(c)'
  BY <1>0 DEF Writer, Writing
<1> SUFFICES ASSUME Alone' PROVE FileKept'
  BY DEF FileKept
<1>3. job.serial \/ \A d \in Calls : Writer(d) => d = c
  BY <1>0, <1>1, <1>2 DEF Alone
<1>4. Alone
  BY <1>3 DEF Alone
<1>5. Left' = After(Request(c), answer'[c], Left) /\ \A d \in Calls : Writing(d) => d = c
  BY <1>3, LeftNext
<1>6. file' \in Left'
  BY <1>4, <1>5
<1>7. \A d \in Calls : ~Writing(d)'
  BY <1>1, <1>2, <1>5
<1>8. \A d \in Calls : ~(at'[d] = "open" /\ (job'.serial \/ \A e \in Calls : ~Writer(e)'))
  <2> SUFFICES ASSUME NEW d \in Calls, at'[d] = "open", job'.serial \/ \A e \in Calls : ~Writer(e)'
               PROVE  FALSE
    OBVIOUS
  <2>1. job.serial /\ d # c
    BY <1>0, <1>2
  <2>2. at[d] = "open"
    BY <2>1 DEF OthersStay
  <2> QED BY <2>1, <2>2, OnlyOne
<1> QED BY <1>6, <1>7, <1>8 DEF FileKept

\* What a call does that has not come to writing.
LEMMA KeptBefore ==
    ASSUME TypeOK, Computed, InOrder, FileKept, NEW c \in Calls,
           \/ Begin(c) \/ Stat(c) \/ StatFails(c) \/ ReadView(c) \/ ReadSame(c) \/ Read(c)
           \/ ReadFails(c) \/ OpenFails(c)
    PROVE  FileKept'
<1>0. /\ at \in [Calls -> {"new", "stat", "read", "open", "put", "record", "done"}]
      /\ DOMAIN answer = Calls /\ DOMAIN out = Calls /\ file \in Texts \cup {Absent}
      /\ answer \in [Calls -> {"none", "refused", "failed", "unchanged", "ok"}]
      /\ IsRequest(Request(c)) /\ Ready(c) /\ (answer[c] = "none" \/ at[c] = "done")
  BY Requested DEF TypeOK, Computed, InOrder
<1>1. OthersStay(c) /\ file' = file
  BY <1>0 DEF OthersStay, Begin, Stat, StatFails, ReadView, ReadSame, Read, ReadFails, OpenFails,
              Proceed, Answer, Goto
<1>2. at[c] \in {"new", "stat", "read", "open"}
  BY DEF Begin, Stat, StatFails, ReadView, ReadSame, Read, ReadFails, OpenFails, Proceed, Answer, Goto
<1>3. answer[c] = "none" /\ Ready(c)
  BY <1>2 DEF InOrder, Computed
<1>4. at[c] \in {"stat", "read", "open"} /\ Editing(Request(c)) => validateEdits(Request(c).edits)
  BY <1>3 DEF Ready
<1>5. at[c] \in {"stat", "read", "open"} =>
        /\ NewText(Request(c)) \subseteq Means(Request(c), Absent)
        /\ \A t \in Texts : Tool(c) # "view" /\ ~Creating(Request(c)) =>
               TextFrom(Request(c), t) \subseteq Means(Request(c), t)
        /\ Tool(c) = "write" => \A t : Means(Request(c), t) = {Request(c).text}
  BY <1>4, Requested, RequestsMeant DEF TypeOK, Tool
<1>6. CASE Begin(c)
  <2>1. at'[c] \in {"stat", "done"} /\ answer'[c] \in {"none", "refused"}
    BY <1>0, <1>3, <1>6 DEF Begin, Answer, Goto
  <2> QED BY <1>1, <1>2, <2>1, KeptBeside
<1>7. CASE Stat(c)
  <2>1. at[c] = "stat" /\ at'[c] \in {"read", "open", "done"} /\ answer'[c] \in {"none", "refused"}
    BY <1>0, <1>3, <1>7 DEF Stat, Proceed, Answer, Goto
  <2>2. ASSUME at'[c] = "open", file \in Left PROVE \E t \in Left : out'[c] \in Means(Request(c), t)
    <3>1. out'[c] \in IF file = Absent THEN NewText(Request(c)) ELSE {}
      BY <1>0, <1>7, <2>2 DEF Stat, Proceed, Answer, Goto
    <3>2. file = Absent /\ out'[c] \in NewText(Request(c))
      BY <3>1
    <3>3. out'[c] \in Means(Request(c), Absent)
      BY <1>5, <2>1, <3>2
    <3> QED BY <2>2, <3>2, <3>3
  <2> QED BY <1>1, <2>1, <2>2, KeptBeside
<1>8. CASE StatFails(c) /\ Tool(c) = "write"
  <2>1. at[c] = "stat" /\ at'[c] \in {"open", "done"} /\ answer'[c] \in {"none", "refused"}
    BY <1>0, <1>3, <1>8 DEF StatFails, Proceed, Answer, Goto
  <2>2. ASSUME at'[c] = "open", file \in Left PROVE \E t \in Left : out'[c] \in Means(Request(c), t)
    <3>1. out'[c] = Request(c).text
      BY <1>0, <1>8, <2>2 DEF StatFails, Proceed, Answer, Goto
    <3>2. Means(Request(c), file) = {Request(c).text}
      BY <1>5, <1>8, <2>1
    <3> QED BY <2>2, <3>1, <3>2
  <2> QED BY <1>1, <2>1, <2>2, KeptBeside
<1>9. CASE ReadView(c)
  <2>1. Tool(c) = "view" /\ at[c] = "read" /\ at'[c] = "record"
    BY <1>0, <1>9 DEF ReadView, Goto
  <2> QED BY <1>1, <2>1, KeptBeside
<1>10. CASE ReadSame(c)
  <2>1. at[c] = "read" /\ at'[c] = "done" /\ answer'[c] = "unchanged"
    BY <1>0, <1>10 DEF ReadSame, Answer, Goto
  <2> QED BY <1>1, <2>1, KeptBeside
<1>11. CASE Read(c)
  <2>1. at[c] = "read" /\ at'[c] \in {"open", "done"} /\ answer'[c] \in {"none", "refused"}
    BY <1>0, <1>3, <1>11 DEF Read, Proceed, Answer, Goto
  <2>2. ASSUME at'[c] = "open", file \in Left PROVE \E t \in Left : out'[c] \in Means(Request(c), t)
    <3>1. out'[c] \in TextFrom(Request(c), file) /\ file \in Texts /\ Tool(c) # "view"
      BY <1>0, <1>11, <2>2 DEF Read, Proceed, Answer, Goto
    <3>2. ~Creating(Request(c))
      BY <1>3, <2>1 DEF Ready
    <3>3. out'[c] \in Means(Request(c), file)
      BY <1>5, <2>1, <3>1, <3>2
    <3> QED BY <2>2, <3>3
  <2> QED BY <1>1, <2>1, <2>2, KeptBeside
<1>12. CASE (StatFails(c) /\ Tool(c) # "write") \/ ReadFails(c) \/ OpenFails(c)
  <2>1. /\ at[c] \in {"stat", "read", "open"} /\ at'[c] = "done" /\ answer'[c] = "failed"
        /\ answer' \in [Calls -> {"none", "refused", "failed", "unchanged", "ok"}]
    BY <1>0, <1>12 DEF StatFails, ReadFails, OpenFails, Answer, Goto
  <2>2. CASE Tool(c) = "view"
    BY <1>1, <2>1, <2>2, KeptBeside
  <2>3. CASE Tool(c) # "view"
    <3>1. ASSUME \A d \in Calls : Writing(d) => d = c, Alone
          PROVE  file' \in After(Request(c), answer'[c], Left)
      <4>1. ~Writing(c)
        BY <2>1 DEF Writing
      <4>2. file \in Left
        BY <3>1, <4>1 DEF FileKept
      <4> QED BY <1>1, <2>1, <4>2 DEF After
    <3> QED BY <1>1, <2>1, <2>3, <3>1, KeptByAnswer
  <2> QED BY <2>2, <2>3
<1> QED BY <1>6, <1>7, <1>8, <1>9, <1>10, <1>11, <1>12

\* What a call does that writes.
LEMMA KeptWriting ==
    ASSUME TypeOK, InOrder, FileKept, NEW c \in Calls,
           Open(c) \/ Put(c) \/ PutFails(c) \/ Record(c)
    PROVE  FileKept'
<1>0. /\ at \in [Calls -> {"new", "stat", "read", "open", "put", "record", "done"}]
      /\ answer \in [Calls -> {"none", "refused", "failed", "unchanged", "ok"}]
  BY DEF TypeOK
<1>1. OthersStay(c)
  BY <1>0 DEF OthersStay, Open, Put, PutFails, Record, Answer, Goto
<1>a. job' = job /\ \A d \in Calls : Tool(d)' = Tool(d) /\ Request(d)' = Request(d)
  BY <1>1 DEF OthersStay, Tool, Request
<1>2. CASE Open(c)
  <2>1. at[c] = "open" /\ at'[c] = "put" /\ file' = <<>> /\ out' = out /\ answer' = answer
    BY <1>0, <1>2 DEF Open, Goto
  <2>2. Tool(c) # "view" /\ answer[c] = "none"
    BY <2>1 DEF InOrder
  <2>3. Left' = Left
    BY <1>1, <2>1, <2>2, LeftStays
  <2>4. \A d \in Calls : d # c => (Writer(d)' <=> Writer(d)) /\ (Writing(d)' <=> Writing(d))
    BY <1>1, <1>a DEF Writer, Writing, OthersStay
  <2>5. Writer(c)' /\ Writing(c)' /\ ~Writer(c)
    BY <1>a, <2>1, <2>2 DEF Writer, Writing
  <2> SUFFICES ASSUME Alone' PROVE FileKept'
    BY DEF FileKept
  <2>6. job.serial \/ \A d \in Calls : ~Writer(d)
    BY <1>a, <2>4, <2>5 DEF Alone
  <2>7. Alone
    BY <2>6 DEF Alone
  <2>8. \E t \in Left : out[c] \in Means(Request(c), t)
    BY <2>1, <2>6, <2>7 DEF FileKept
  <2>9. \A d \in Calls : Writing(d)' => d = c
    <3> SUFFICES ASSUME NEW d \in Calls, Writing(d)', d # c PROVE FALSE
      OBVIOUS
    <3>1. Writing(d)
      BY <2>4
    <3>2. job.serial
      BY <2>6, <3>1 DEF Writer
    <3>3. at[d] \in {"put", "record"}
      BY <3>1 DEF Writing
    <3> QED BY <2>1, <3>2, <3>3, OnlyOne
  <2>10. \A d \in Calls : ~(at'[d] = "open" /\ (job'.serial \/ \A e \in Calls : ~Writer(e)'))
    <3> SUFFICES ASSUME NEW d \in Calls, at'[d] = "open", job'.serial \/ \A e \in Calls : ~Writer(e)'
                 PROVE  FALSE
      OBVIOUS
    <3>1. job.serial /\ d # c
      BY <1>a, <2>1, <2>5
    <3>2. at[d] = "open"
      BY <1>1, <3>1 DEF OthersStay
    <3> QED BY <2>1, <3>1, <3>2, OnlyOne
  <2>11. \E t \in Left' : out'[c] \in Means(Request(c)', t)
    BY <1>a, <2>1, <2>3, <2>8
  <2> QED BY <2>1, <2>5, <2>9, <2>10, <2>11 DEF FileKept
<1>3. CASE Put(c)
  <2>1. at[c] = "put" /\ at'[c] = "record" /\ out' = out /\ answer' = answer /\ Write(out[c])
    BY <1>0, <1>3 DEF Put, Goto
  <2>2. Tool(c) # "view" /\ answer[c] = "none"
    BY <2>1 DEF InOrder
  <2>3. Left' = Left
    BY <1>1, <2>1, <2>2, LeftStays
  <2>4. \A d \in Calls : (Writer(d)' <=> Writer(d)) /\ (Writing(d)' <=> Writing(d))
    BY <1>1, <1>a, <2>1 DEF Writer, Writing, OthersStay
  <2>5. Alone' <=> Alone
    BY <1>a, <2>4 DEF Alone
  <2> SUFFICES ASSUME Alone PROVE FileKept'
    BY <2>5 DEF FileKept
  <2>6. Writing(c) /\ Writer(c)
    BY <2>1, <2>2 DEF Writing, Writer
  <2>7. file = <<>> /\ \E t \in Left : out[c] \in Means(Request(c), t)
    BY <2>1, <2>6 DEF FileKept
  <2>8. file' = out[c]
    <3>1. out[c] \in Texts
      BY DEF TypeOK
    <3>2. Len(out[c]) \in Nat /\ Len(file) = 0
      BY <2>7, <3>1, LenProperties DEF Texts
    <3>3. SubSeq(file, Len(out[c]) + 1, Len(file)) = <<>>
      <4> DEFINE m == Len(out[c]) + 1  k == Len(file)
      <4>1. m \in Int /\ k \in Int /\ k < m
        BY <3>2
      <4> HIDE DEF m, k
      <4>2. SubSeq(file, m, k) = <<>>
        BY <4>1, SubSeqEmpty
      <4> QED BY <4>2 DEF m, k
    <3>4. out[c] \o <<>> = out[c]
      BY <3>1, ConcatEmptySeq DEF Texts
    <3> QED BY <2>1, <3>3, <3>4 DEF Write
  <2>9. \A d \in Calls : Writing(d) => d = c
    <3> SUFFICES ASSUME NEW d \in Calls, Writing(d), d # c PROVE FALSE
      OBVIOUS
    <3>1. job.serial
      BY <2>6 DEF Alone, Writer
    <3>2. at[d] \in {"put", "record"}
      BY DEF Writing
    <3> QED BY <2>1, <3>1, <3>2, OnlyOne
  <2>10. \A d \in Calls : ~(at'[d] = "open" /\ (job'.serial \/ \A e \in Calls : ~Writer(e)'))
    <3> SUFFICES ASSUME NEW d \in Calls, at'[d] = "open", job'.serial \/ \A e \in Calls : ~Writer(e)'
                 PROVE  FALSE
      OBVIOUS
    <3>1. job.serial /\ d # c
      BY <1>a, <2>1, <2>4, <2>6
    <3>2. at[d] = "open"
      BY <1>1, <3>1 DEF OthersStay
    <3> QED BY <2>1, <3>1, <3>2, OnlyOne
  <2>11. \E t \in Left' : out'[c] \in Means(Request(c)', t)
    BY <1>a, <2>1, <2>3, <2>7
  <2> QED BY <2>1, <2>4, <2>6, <2>8, <2>9, <2>10, <2>11 DEF FileKept
<1>4. CASE PutFails(c)
  <2>1. /\ at[c] = "put" /\ at'[c] = "done" /\ answer'[c] = "failed"
        /\ answer' \in [Calls -> {"none", "refused", "failed", "unchanged", "ok"}]
    BY <1>0, <1>4 DEF PutFails, Answer, Goto
  <2>2. Tool(c) # "view"
    BY <2>1 DEF InOrder
  <2>3. ASSUME Alone PROVE file' \in After(Request(c), answer'[c], Left)
    <3>1. Writing(c)
      BY <2>1, <2>2 DEF Writing
    <3>2. file = <<>> /\ \E t \in Left : out[c] \in Means(Request(c), t)
      BY <2>1, <2>3, <3>1 DEF FileKept
    <3>3. PICK k \in 0..(Len(out[c]) - 1) : Write(SubSeq(out[c], 1, k))
      BY <1>4 DEF PutFails
    <3> DEFINE s == SubSeq(out[c], 1, k)
    <3>4. s \in Texts
      <4>1. out[c] \in Seq(Chars)
        BY DEF TypeOK, Texts
      <4>2. 1 \in 1..(Len(out[c]) + 1) /\ k \in 0..Len(out[c])
        BY <4>1, LenProperties
      <4> QED BY <4>1, <4>2, PartTyped DEF Texts
    <3>5. file' = s \o SubSeq(file, Len(s) + 1, Len(file))
      BY <3>3 DEF Write
    <3> HIDE DEF s
    <3>6. Len(s) \in Nat /\ Len(file) = 0
      BY <3>2, <3>4, LenProperties DEF Texts
    <3>7. SubSeq(file, Len(s) + 1, Len(file)) = <<>>
      <4> DEFINE m == Len(s) + 1  l == Len(file)
      <4>1. m \in Int /\ l \in Int /\ l < m
        BY <3>6
      <4> HIDE DEF m, l
      <4>2. SubSeq(file, m, l) = <<>>
        BY <4>1, SubSeqEmpty
      <4> QED BY <4>2 DEF m, l
    <3>8. s \o <<>> = s
      BY <3>4, ConcatEmptySeq DEF Texts
    <3>9. file' = SubSeq(out[c], 1, k)
      BY <3>5, <3>7, <3>8 DEF s
    <3>10. file' \in PartsOf(UNION {Means(Request(c), t) : t \in Left})
      BY <3>2, <3>9 DEF PartsOf
    <3> QED BY <2>1, <3>10 DEF After
  <2> QED BY <1>1, <2>1, <2>2, <2>3, KeptByAnswer
<1>5. CASE Record(c)
  <2>1. /\ at[c] = "record" /\ at'[c] = "done" /\ answer'[c] = "ok" /\ file' = file
        /\ answer' \in [Calls -> {"none", "refused", "failed", "unchanged", "ok"}]
    BY <1>0, <1>5 DEF Record, Answer, Goto
  <2>2. CASE Tool(c) = "view"
    BY <1>1, <2>1, <2>2, KeptBeside
  <2>3. CASE Tool(c) # "view"
    <3>1. ASSUME Alone PROVE file' \in After(Request(c), answer'[c], Left)
      <4>1. Writing(c)
        BY <2>1, <2>3 DEF Writing
      <4>2. file = out[c] /\ \E t \in Left : out[c] \in Means(Request(c), t)
        BY <2>1, <3>1, <4>1 DEF FileKept
      <4> QED BY <2>1, <4>2 DEF After
    <3> QED BY <1>1, <2>1, <2>3, <3>1, KeptByAnswer
  <2> QED BY <2>2, <2>3
<1> QED BY <1>2, <1>3, <1>4, <1>5

\* When the calls follow each other, or when they overlap and only one of them
\* wrote, the file is what the accepted requests mean, applied in order.
THEOREM FilesAreMeant == Spec => []FileIsMeant
<1>1. Init => Computed /\ InOrder /\ FileKept
  <2> SUFFICES ASSUME Init PROVE Computed /\ InOrder /\ FileKept
    OBVIOUS
  <2>1. Computed
    BY DEF Init, Computed, Ready, Made
  <2>2. InOrder
    BY DEF Init, InOrder
  <2>3. \A c \in Calls : Silent(Outcome[c])
    BY DEF Init, Outcome, Silent
  <2>4. Left = {job.file}
    <3> N \in Nat
      BY JobsAssumption
    <3>1. PICK f : LeftAt(f, job, Outcome) /\ LeftBy(job, Outcome) = f[N]
      BY LeftIs
    <3> DEFINE S == {d \in 0..N : f[d] = {job.file}}
    <3>2. 0 \in S
      BY <3>1 DEF LeftAt
    <3>3. ASSUME NEW i \in 0..(N - 1), i \in S PROVE i + 1 \in S
      <4>1. i + 1 \in Calls /\ (i + 1) - 1 = i /\ i + 1 \in 0..N
        BY DEF Calls
      <4>2. f[i + 1] = After(job.of[i + 1], Outcome[i + 1], f[i])
        BY <3>1, <4>1 DEF LeftAt
      <4>3. f[i + 1] = f[i]
        BY <2>3, <4>1, <4>2 DEF Silent, After
      <4> QED BY <3>3, <4>1, <4>3
    <3> HIDE DEF S
    <3>4. 0..N \subseteq S
      BY <3>2, <3>3, Upwards
    <3>5. f[N] = {job.file}
      BY <3>4 DEF S
    <3> QED BY <3>1, <3>5 DEF Left
  <2>5. FileKept
    BY <2>4 DEF Init, FileKept, Writing
  <2> QED BY <2>1, <2>2, <2>5
<1>2. TypeOK /\ Computed /\ InOrder /\ FileKept /\ [Next]_vars => InOrder' /\ FileKept'
  <2> SUFFICES ASSUME TypeOK, Computed, InOrder, FileKept, [Next]_vars PROVE FileKept'
    BY OrderStays
  <2>1. ASSUME NEW c \in Calls, \/ Begin(c) \/ Stat(c) \/ StatFails(c) \/ ReadView(c) \/ ReadSame(c)
                                \/ Read(c) \/ ReadFails(c) \/ OpenFails(c)
        PROVE  FileKept'
    BY <2>1, KeptBefore
  <2>2. ASSUME NEW c \in Calls, Open(c) \/ Put(c) \/ PutFails(c) \/ Record(c) PROVE FileKept'
    BY <2>2, KeptWriting
  <2>3. CASE UNCHANGED vars
    BY <2>3 DEF vars, FileKept, Alone, Writer, Writing, Tool, Request, Left, Outcome
  <2> QED BY <2>1, <2>2, <2>3 DEF Next
<1>3. TypeOK /\ InOrder /\ FileKept => FileIsMeant
  <2> SUFFICES ASSUME TypeOK, FileKept, Settled, job.serial \/ Cardinality(Touching) <= 1 PROVE file \in Left
    BY DEF FileIsMeant
  <2>1. \A c \in Calls : ~Writing(c)
    BY DEF Settled, Writing
  <2>2. \A c \in Calls : Writer(c) => c \in Touching
    BY <2>1 DEF Writer, Touching, Outcome
  <2>3. ASSUME ~job.serial, NEW c \in Calls, NEW d \in Calls, Writer(c), Writer(d) PROVE c = d
    <3>1. IsFiniteSet(Touching)
      <4>1. IsFiniteSet(Calls)
        BY JobsAssumption, FS_Interval DEF Calls
      <4>2. Touching \subseteq Calls
        BY DEF Touching
      <4> QED BY <4>1, <4>2, FS_Subset
    <3>2. Cardinality(Touching) \in Nat /\ Cardinality(Touching) # 0
      BY <2>2, <2>3, <3>1, FS_CardinalityType, FS_EmptySet
    <3>3. Cardinality(Touching) = 1
      BY <2>3, <3>2
    <3>4. PICK x : Touching = {x}
      BY <3>1, <3>3, FS_Singleton
    <3> QED BY <2>2, <2>3, <3>4
  <2>4. Alone
    BY <2>3 DEF Alone
  <2> QED BY <2>1, <2>4 DEF FileKept
<1> QED BY <1>1, <1>2, <1>3, AlwaysComputed, TypeCorrect, PTL DEF Spec

-----------------------------------------------------------------------------
(* What view shows.                                                        *)

\* The least of a set of numbers.
LEMMA MinIs ==
    ASSUME NEW T, T \subseteq Nat, T # {}
    PROVE  Min(T) \in T /\ \A m \in T : Min(T) <= m
<1>1. \E n \in T : \A m \in T : n <= m
  BY LeastNumber
<1> QED BY <1>1 DEF Min

\* The least of two numbers and the greatest of two.
LEMMA OfTwo ==
    ASSUME NEW a \in Int, NEW b \in Int
    PROVE  /\ Min({a, b}) = IF a <= b THEN a ELSE b
           /\ Max({a, b}) = IF a >= b THEN a ELSE b
<1>1. \E x \in {a, b} : \A y \in {a, b} : x <= y
  OBVIOUS
<1>2. \E x \in {a, b} : \A y \in {a, b} : x >= y
  OBVIOUS
<1>3. Min({a, b}) \in {a, b} /\ \A y \in {a, b} : Min({a, b}) <= y
  BY <1>1 DEF Min
<1>4. Max({a, b}) \in {a, b} /\ \A y \in {a, b} : Max({a, b}) >= y
  BY <1>2 DEF Max
<1> QED BY <1>3, <1>4

\* A carriage return at the end of a text is at the end of what lies behind
\* its first character, if that is anything.
LEMMA CRBehind ==
    ASSUME NEW X, NEW x \in X, NEW s \in Seq(X)
    PROVE  /\ WithoutCR(<<>>) = <<>>
           /\ WithoutCR(<<x>>) = IF x = "CR" THEN <<>> ELSE <<x>>
           /\ WithoutCR(s) \in Seq(X)
           /\ s # <<>> => WithoutCR(<<x>> \o s) = <<x>> \o WithoutCR(s)
           /\ s # <<>> => WithoutCR(<<>> \o s) = <<>> \o WithoutCR(s)
<1> DEFINE n == Len(s)  u == <<x>>  v == u \o s
<1>1. n \in Nat /\ (\A i \in 1..n : s[i] \in X) /\ (s # <<>> => n > 0)
  BY LenProperties, ElementOfSeq, EmptySeq
<1>2. u \in Seq(X) /\ Len(u) = 1 /\ u[1] = x /\ u # <<>>
  OBVIOUS
<1>3. Front(s) \in Seq(X)
  <2>1. 1 \in Int /\ n - 1 \in Int /\ \A i \in 1..(n - 1) : s[i] \in X
    BY <1>1
  <2> HIDE DEF n
  <2> QED BY <2>1, SubSeqProperties DEF Front, n
<1>4. WithoutCR(s) \in Seq(X)
  BY <1>3 DEF WithoutCR
<1>5. WithoutCR(<<x>>) = IF x = "CR" THEN <<>> ELSE <<x>>
  <2>1. Front(u) = <<>>
    <3>1. SubSeq(u, 1, 0) = <<>>
      BY SubSeqEmpty
    <3> QED BY <1>2, <3>1 DEF Front
  <2> QED BY <1>2, <2>1 DEF WithoutCR, Last
<1>6. WithoutCR(<<>>) = <<>>
  BY DEF WithoutCR
<1>7. ASSUME s # <<>> PROVE WithoutCR(v) = u \o WithoutCR(s)
  <2>1. /\ v \in Seq(X) /\ Len(v) = 1 + n /\ v # <<>>
        /\ \A k \in 1..n : v[1 + k] = s[k]
    <3>1. /\ v \in Seq(X) /\ Len(v) = 1 + n
          /\ \A k \in 1..n : v[1 + k] = s[k]
      BY <1>2, Behind
    <3>2. v # <<>>
      BY <1>1, <3>1, EmptySeq
    <3> QED BY <3>1, <3>2
  <2> HIDE DEF v, n
  <2>2. Last(v) = Last(s)
    <3>1. n \in 1..n
      BY <1>1, <1>7
    <3> QED BY <2>1, <3>1 DEF Last, n
  <2>3. Front(v) = u \o Front(s)
    <3> DEFINE a == Front(v)  b == Front(s)  w == u \o b
    <3>1. a \in Seq(X) /\ Len(a) = n /\ \A i \in 1..n : a[i] = v[i]
      <4>1. \A i \in 1..(n + 1) : v[i] \in X
        BY <2>1, ElementOfSeq, <1>1
      <4>2. 1 \in Int /\ n \in Int /\ (\A i \in 1..n : v[i] \in X) /\ 1 <= n /\ n - 1 + 1 = n
            /\ Len(v) - 1 = n
        BY <1>1, <1>7, <2>1, <4>1
      <4>3. /\ SubSeq(v, 1, n) \in Seq(X) /\ Len(SubSeq(v, 1, n)) = n
            /\ \A i \in 1..n : SubSeq(v, 1, n)[i] = v[1 + i - 1]
        BY <4>2, SubSeqProperties
      <4>4. a = SubSeq(v, 1, n)
        BY <4>2 DEF Front
      <4>5. \A i \in 1..n : 1 + i - 1 = i
        OBVIOUS
      <4> HIDE DEF a
      <4> QED BY <4>3, <4>4, <4>5
    <3>2. b \in Seq(X) /\ Len(b) = n - 1 /\ \A i \in 1..(n - 1) : b[i] = s[i]
      <4>1. 1 \in Int /\ n - 1 \in Int /\ (\A i \in 1..(n - 1) : s[i] \in X)
            /\ (n - 1) - 1 + 1 = n - 1
        BY <1>1
      <4>2. /\ Len(SubSeq(s, 1, n - 1)) = IF 1 <= n - 1 THEN (n - 1) - 1 + 1 ELSE 0
            /\ \A i \in 1..((n - 1) - 1 + 1) : SubSeq(s, 1, n - 1)[i] = s[1 + i - 1]
        BY <4>1, SubSeqProperties
      <4>3. b = SubSeq(s, 1, n - 1)
        BY DEF Front, n
      <4>4. \A i \in 1..n : 1 + i - 1 = i
        OBVIOUS
      <4> HIDE DEF b
      <4>5. Len(b) = n - 1
        BY <1>1, <1>7, <4>1, <4>2, <4>3
      <4>6. ASSUME NEW i \in 1..(n - 1) PROVE b[i] = s[i]
        <5>1. i \in 1..((n - 1) - 1 + 1) /\ 1 + i - 1 = i
          BY <1>1
        <5> QED BY <4>2, <4>3, <5>1
      <4> QED BY <1>3, <4>5, <4>6 DEF b
    <3> HIDE DEF a, b
    <3>3. /\ w \in Seq(X) /\ Len(w) = 1 + (n - 1) /\ w[1] = x
          /\ \A k \in 1..(n - 1) : w[1 + k] = b[k]
      <4>1. /\ w \in Seq(X) /\ Len(w) = Len(u) + Len(b)
            /\ (\A k \in 1..Len(u) : w[k] = u[k])
            /\ \A k \in 1..Len(b) : w[Len(u) + k] = b[k]
        BY <1>2, <3>2, Behind
      <4> HIDE DEF w
      <4> QED BY <1>2, <3>2, <4>1
    <3> HIDE DEF w
    <3>4. v[1] = x
      <4>1. \A k \in 1..Len(u) : (u \o s)[k] = u[k]
        BY <1>2, Behind
      <4> QED BY <1>2, <4>1 DEF v
    <3>5. ASSUME NEW i \in 1..n PROVE a[i] = w[i]
      <4>1. CASE i = 1
        BY <3>1, <3>3, <3>4, <4>1
      <4>2. CASE i # 1
        <5>1. i - 1 \in 1..(n - 1) /\ i - 1 \in 1..n /\ 1 + (i - 1) = i
          BY <1>1, <4>2
        <5>2. w[1 + (i - 1)] = s[i - 1] /\ v[1 + (i - 1)] = s[i - 1]
          BY <2>1, <3>2, <3>3, <5>1
        <5>3. a[i] = v[i]
          BY <3>1
        <5> QED BY <5>1, <5>2, <5>3
      <4> QED BY <4>1, <4>2
    <3>6. Len(a) = Len(w)
      BY <1>1, <3>1, <3>3
    <3>7. a = w
      BY <3>1, <3>3, <3>5, <3>6, SeqEqual
    <3> QED BY <3>7 DEF a, b, w
  <2> HIDE DEF u
  <2> QED BY <1>7, <2>1, <2>2, <2>3 DEF WithoutCR, v
<1>8. s # <<>> => WithoutCR(<<>> \o s) = <<>> \o WithoutCR(s)
  <2>1. <<>> \o s = s /\ <<>> \o WithoutCR(s) = WithoutCR(s)
    BY <1>4, ConcatEmptySeq
  <2> QED BY <2>1
<1> QED BY <1>4, <1>5, <1>6, <1>7, <1>8

\* No line ends in a text.
NoFeed(s) == \A i \in 1..Len(s) : s[i] # "LF"

\* What follows the first line of a text.
AfterLine(s) ==
    LET feeds == {i \in DOMAIN s : s[i] = "LF"}
    IN  IF feeds = {} THEN <<>> ELSE SubSeq(s, Min(feeds) + 1, Len(s))

\* It is what is behind the first line feed.
LEMMA AfterIs ==
    ASSUME NEW X, NEW a \in Seq(X), NEW u \in Seq(X), "LF" \in X, NoFeed(a)
    PROVE  AfterLine(a) = <<>> /\ AfterLine(a \o (<<"LF">> \o u)) = u
<1> DEFINE l == Len(a)  m == Len(u)  f == <<"LF">>  v == f \o u  s == a \o v
           feeds == {i \in DOMAIN s : s[i] = "LF"}
<1>1. l \in Nat /\ m \in Nat /\ DOMAIN a = 1..l /\ \A i \in 1..m : u[i] \in X
  BY LenProperties, ElementOfSeq
<1>2. AfterLine(a) = <<>>
  <2>1. {i \in DOMAIN a : a[i] = "LF"} = {}
    BY <1>1 DEF NoFeed
  <2> QED BY <2>1 DEF AfterLine
<1>3. f \in Seq(X) /\ Len(f) = 1 /\ f[1] = "LF"
  OBVIOUS
<1>4. v \in Seq(X) /\ Len(v) = m + 1 /\ v[1] = "LF" /\ \A k \in 1..m : v[1 + k] = u[k]
  <2>1. /\ v \in Seq(X) /\ Len(v) = 1 + m
        /\ (\A k \in 1..1 : v[k] = f[k]) /\ \A k \in 1..m : v[1 + k] = u[k]
    BY <1>3, Behind
  <2> HIDE DEF v, f
  <2> QED BY <1>1, <1>3, <2>1
<1> HIDE DEF v, f
<1>5. /\ s \in Seq(X) /\ Len(s) = l + (m + 1)
      /\ \A k \in 1..l : s[k] = a[k]
      /\ \A k \in 1..(m + 1) : s[l + k] = v[k]
  <2>0. v \in Seq(X)
    BY <1>4
  <2>1. /\ s \in Seq(X) /\ Len(s) = l + Len(v)
        /\ (\A k \in 1..l : s[k] = a[k]) /\ \A k \in 1..Len(v) : s[l + k] = v[k]
    BY <2>0, Behind
  <2> HIDE DEF s
  <2> QED BY <1>4, <2>1
<1>6. DOMAIN s = 1..(l + (m + 1))
  BY <1>5, LenProperties
<1> HIDE DEF s, l, m
<1>7. l + 1 \in feeds /\ \A i \in feeds : i >= l + 1
  <2>1. l + 1 \in 1..(l + (m + 1)) /\ 1 \in 1..(m + 1)
    BY <1>1
  <2>2. l + 1 \in feeds
    BY <1>4, <1>5, <1>6, <2>1
  <2>3. \A i \in 1..l : s[i] # "LF"
    BY <1>5 DEF NoFeed, l
  <2> QED BY <1>1, <1>6, <2>2, <2>3
<1>8. Min(feeds) = l + 1
  <2>1. feeds \subseteq Nat
    BY <1>6
  <2> HIDE DEF feeds
  <2>2. Min(feeds) \in feeds /\ Min(feeds) <= l + 1
    BY <1>7, <2>1, MinIs
  <2>3. Min(feeds) \in Nat /\ Min(feeds) >= l + 1
    BY <1>7, <2>1, <2>2
  <2> QED BY <1>1, <2>2, <2>3
<1>9. SubSeq(s, l + 2, l + (m + 1)) = u
  <2> DEFINE b == SubSeq(s, l + 2, l + (m + 1))
  <2>1. /\ l + 2 \in Int /\ l + (m + 1) \in Int
        /\ (l + (m + 1)) - (l + 2) + 1 = m
        /\ \A i \in (l + 2)..(l + (m + 1)) : s[i] \in X
    <3>1. \A i \in 1..(l + (m + 1)) : s[i] \in X
      BY <1>5, ElementOfSeq
    <3> QED BY <1>1, <3>1
  <2>2. /\ b \in Seq(X)
        /\ Len(b) = IF l + 2 <= l + (m + 1) THEN m ELSE 0
        /\ \A i \in 1..m : b[i] = s[l + 2 + i - 1]
    <3> DEFINE p == l + 2  q == l + (m + 1)
    <3>1. p \in Int /\ q \in Int /\ \A i \in p..q : s[i] \in X
      BY <2>1
    <3>2. q - p + 1 = m
      BY <2>1
    <3> HIDE DEF p, q
    <3>3. /\ SubSeq(s, p, q) \in Seq(X)
          /\ Len(SubSeq(s, p, q)) = IF p <= q THEN q - p + 1 ELSE 0
          /\ \A i \in 1..(q - p + 1) : SubSeq(s, p, q)[i] = s[p + i - 1]
      BY <3>1, SubSeqProperties
    <3>4. /\ SubSeq(s, p, q) \in Seq(X)
          /\ Len(SubSeq(s, p, q)) = IF p <= q THEN m ELSE 0
          /\ \A i \in 1..m : SubSeq(s, p, q)[i] = s[p + i - 1]
      BY <3>2, <3>3
    <3> QED BY <3>4 DEF p, q
  <2> HIDE DEF b
  <2>3. Len(b) = m
    BY <1>1, <2>2
  <2>4. ASSUME NEW i \in 1..m PROVE b[i] = u[i]
    <3>1. l + 2 + i - 1 = l + (1 + i) /\ 1 + i \in 1..(m + 1)
      BY <1>1
    <3> QED BY <1>4, <1>5, <2>2, <3>1
  <2>5. b = u
    BY <2>2, <2>3, <2>4, SeqEqual DEF m
  <2> QED BY <2>5 DEF b
<1>10. AfterLine(s) = u
  <2>1. feeds # {}
    BY <1>7
  <2>2. AfterLine(s) = SubSeq(s, Min(feeds) + 1, Len(s))
    BY <2>1 DEF AfterLine
  <2>3. (l + 1) + 1 = l + 2
    BY <1>1
  <2> HIDE DEF feeds
  <2> QED BY <1>5, <1>8, <1>9, <2>2, <2>3
<1> QED BY <1>2, <1>10 DEF s, v, f

\* A text cut into lines: what there is after so many, and each of them, with
\* a line feed behind it except perhaps the last.
Cut(w, a, X, K) ==
    /\ w \in [0..K -> Seq(X)] /\ w[K] = <<>>
    /\ a \in [1..K -> Seq(X)] /\ \A k \in 1..K : NoFeed(a[k])
    /\ \A k \in 1..K : w[k - 1] = a[k] \o (<<"LF">> \o w[k]) \/ (k = K /\ w[k - 1] = a[k])

\* Rest takes its lines off one by one.
LEMMA RestIs ==
    ASSUME NEW X, "LF" \in X, NEW K \in Nat, NEW w, NEW a, Cut(w, a, X, K), NEW m \in Nat
    PROVE  Rest(w[0], m) = IF m <= K THEN w[m] ELSE <<>>
<1> DEFINE t == w[0]
           Is(f) == f = [k \in 0..m |->
                            IF k = 0 THEN t
                            ELSE LET s == f[k - 1]  feeds == {i \in DOMAIN s : s[i] = "LF"}
                                 IN  IF feeds = {} THEN <<>> ELSE SubSeq(s, Min(feeds) + 1, Len(s))]
           from == CHOOSE f : Is(f)
           h == [k \in 0..m |-> IF k <= K THEN w[k] ELSE <<>>]
<1>1. Rest(t, m) = from[m]
  BY DEF Rest
<1>2. \A f : Is(f) <=> f = [k \in 0..m |-> IF k = 0 THEN t ELSE AfterLine(f[k - 1])]
  BY DEF AfterLine
<1> HIDE DEF Is
<1>3. AfterLine(<<>>) = <<>>
  <2>1. <<>> \in Seq(X) /\ NoFeed(<<>>)
    BY DEF NoFeed
  <2> QED BY <2>1, AfterIs
<1>4. ASSUME NEW k \in 1..K PROVE AfterLine(w[k - 1]) = w[k]
  <2>1. a[k] \in Seq(X) /\ NoFeed(a[k]) /\ w[k] \in Seq(X)
    BY DEF Cut
  <2>2. w[k - 1] = a[k] \o (<<"LF">> \o w[k]) \/ (w[k] = <<>> /\ w[k - 1] = a[k])
    BY DEF Cut
  <2>3. AfterLine(a[k]) = <<>> /\ AfterLine(a[k] \o (<<"LF">> \o w[k])) = w[k]
    BY <2>1, AfterIs
  <2> QED BY <2>2, <2>3
<1>5. ASSUME NEW k \in 1..m PROVE AfterLine(h[k - 1]) = h[k]
  <2>1. k - 1 \in 0..m /\ k \in 0..m
    OBVIOUS
  <2>2. h[k - 1] = (IF k - 1 <= K THEN w[k - 1] ELSE <<>>) /\ h[k] = IF k <= K THEN w[k] ELSE <<>>
    BY <2>1
  <2> HIDE DEF h
  <2>3. CASE k <= K
    BY <1>4, <2>2, <2>3
  <2>4. CASE k = K + 1
    <3>1. k - 1 = K /\ ~(k <= K)
      BY <2>4
    <3>2. w[K] = <<>>
      BY DEF Cut
    <3> QED BY <1>3, <2>2, <3>1, <3>2
  <2>5. CASE k > K + 1
    BY <1>3, <2>2, <2>5
  <2> QED BY <2>3, <2>4, <2>5
<1>6. Is(h)
  <2>1. \A k \in 0..m : h[k] = IF k = 0 THEN t ELSE AfterLine(h[k - 1])
    <3>1. h[0] = t
      OBVIOUS
    <3>2. \A k \in 0..m : k # 0 => k \in 1..m
      OBVIOUS
    <3> HIDE DEF h
    <3> QED BY <1>5, <3>1, <3>2
  <2>2. h = [k \in 0..m |-> h[k]]
    OBVIOUS
  <2> HIDE DEF h
  <2>3. h = [k \in 0..m |-> IF k = 0 THEN t ELSE AfterLine(h[k - 1])]
    BY <2>1, <2>2
  <2> QED BY <1>2, <2>3
<1>7. Is(from)
  BY <1>6
<1> HIDE DEF from
<1>8. \A k \in 0..m : from[k] = IF k = 0 THEN t ELSE AfterLine(from[k - 1])
  BY <1>2, <1>7
<1> DEFINE S == {k \in 0..m : from[k] = h[k]}
<1>9. 0 \in S
  BY <1>8
<1>10. ASSUME NEW i \in 0..(m - 1), i \in S PROVE i + 1 \in S
  <2>1. i + 1 \in 1..m /\ i + 1 \in 0..m /\ (i + 1) - 1 = i /\ i + 1 # 0
    OBVIOUS
  <2> HIDE DEF h
  <2>2. from[i + 1] = AfterLine(from[i]) /\ h[i + 1] = AfterLine(h[i]) /\ from[i] = h[i]
    BY <1>5, <1>8, <1>10, <2>1
  <2> QED BY <2>1, <2>2
<1> HIDE DEF S
<1>11. 0..m \subseteq S
  BY <1>9, <1>10, Upwards
<1>12. from[m] = h[m]
  BY <1>11 DEF S
<1> QED BY <1>1, <1>12

\* Where lines end, in their order, is e.
Ends(e, E, n) ==
    LET K == Cardinality(E)
    IN  /\ K \in Nat /\ e \in [0..K -> 0..(n + 1)] /\ e[0] = 0
        /\ \A k \in 1..K : /\ e[k] \in E /\ e[k - 1] < e[k]
                           /\ \A i \in E : ~(e[k - 1] < i /\ i < e[k])
        /\ \A i \in E : i <= e[K]

\* The recursion that ScanLines has finds them all.
LEMMA EndsAre ==
    ASSUME NEW n \in Nat, NEW E \in SUBSET (1..(n + 1)), NEW e,
           e = [k \in 0..Cardinality(E) |-> IF k = 0 THEN 0 ELSE Min({i \in E : i > e[k - 1]})]
    PROVE  Ends(e, E, n)
<1> DEFINE K == Cardinality(E)
           Upto(v) == {i \in E : i <= v}
           More(v) == {i \in E : i > v}
<1>0. \A i \in E : i \in Nat /\ 1 <= i /\ i <= n + 1
  OBVIOUS
<1>1. IsFiniteSet(E) /\ K \in Nat
  <2>1. n + 1 \in Int /\ 1 \in Int
    OBVIOUS
  <2>2. IsFiniteSet(1..(n + 1))
    BY <2>1, FS_Interval
  <2> QED BY <2>2, FS_Subset, FS_CardinalityType
<1>2. \A v : IsFiniteSet(Upto(v)) /\ (Cardinality(Upto(v)) = K => Upto(v) = E)
  BY <1>1, FS_Subset
<1>3. e[0] = 0 /\ \A k \in 1..K : e[k] = Min(More(e[k - 1]))
  <2>1. \A k \in 0..K : e[k] = IF k = 0 THEN 0 ELSE Min({i \in E : i > e[k - 1]})
    OBVIOUS
  <2>2. 0 \in 0..K /\ \A k \in 1..K : k \in 0..K /\ k # 0
    BY <1>1
  <2> HIDE DEF K
  <2> QED BY <2>1, <2>2
<1>4. \A v : More(v) \subseteq Nat
  BY <1>0
<1> HIDE DEF K
<1> DEFINE Next1(k) == /\ e[k] \in E /\ e[k - 1] < e[k]
                       /\ \A i \in E : ~(e[k - 1] < i /\ i < e[k])
           S == {k \in 0..K : /\ e[k] \in 0..(n + 1) /\ Cardinality(Upto(e[k])) = k
                              /\ \A j \in 1..k : Next1(j) /\ e[j] \in 0..(n + 1)}
<1>5. 0 \in S
  <2>1. Upto(0) = {}
    <3>1. \A i \in E : ~(i <= 0)
      BY <1>0
    <3> QED BY <3>1
  <2>2. Cardinality(Upto(0)) = 0
    BY <2>1, FS_EmptySet
  <2> HIDE DEF Upto
  <2> QED BY <1>1, <1>3, <2>2
<1>6. ASSUME NEW k \in 0..(K - 1), k \in S PROVE k + 1 \in S
  <2>1. k + 1 \in 1..K /\ k + 1 \in 0..K /\ (k + 1) - 1 = k
    BY <1>1
  <2> DEFINE v == e[k]  M == More(v)  w == e[k + 1]
  <2>2. v \in 0..(n + 1) /\ Cardinality(Upto(v)) = k
    BY <1>6
  <2>3. M # {}
    <3>1. Upto(v) # E
      <4> k # K
        BY <1>1
      <4> HIDE DEF Upto
      <4> QED BY <2>2 DEF K
    <3>2. PICK i \in E : ~(i <= v)
      BY <3>1
    <3>3. i \in Nat /\ v \in Nat
      BY <1>0, <2>2
    <3>4. i \in M
      BY <3>2, <3>3
    <3> QED BY <3>4
  <2>4. w = Min(M) /\ M \subseteq Nat
    BY <1>3, <1>4, <2>1
  <2>5. w \in M /\ \A i \in M : w <= i
    <3> HIDE DEF M, w
    <3> QED BY <2>3, <2>4, MinIs
  <2>6. w \in E /\ v < w /\ \A i \in E : ~(v < i /\ i < w)
    <3>0. w \in E
      BY <2>5
    <3> HIDE DEF v, w
    <3>a. v \in Nat
      BY <2>2
    <3>1. v \in Nat /\ w \in Nat
      BY <1>0, <3>0, <3>a
    <3>2. w \in E /\ v < w
      BY <2>5, <3>1
    <3>3. ASSUME NEW i \in E, v < i PROVE w <= i
      BY <1>0, <2>5, <3>1, <3>3
    <3> QED BY <1>0, <3>1, <3>2, <3>3
  <2>7. w \in 0..(n + 1)
    <3> w \in E
      BY <2>6
    <3> HIDE DEF w
    <3>1. w \in Nat /\ w <= n + 1
      BY <1>0
    <3> QED BY <3>1
  <2>8. Upto(w) = Upto(v) \cup {w} /\ w \notin Upto(v)
    <3> HIDE DEF v, w
    <3>1. v \in Nat /\ w \in Nat /\ w \in E /\ v < w
      BY <2>2, <2>6, <2>7
    <3>2. ASSUME NEW i \in E PROVE i <= w <=> (i <= v \/ i = w)
      BY <1>0, <2>6, <3>1
    <3>3. w \notin Upto(v)
      BY <3>1
    <3> QED BY <3>1, <3>2, <3>3
  <2>9. Cardinality(Upto(w)) = k + 1
    <3> HIDE DEF Upto, v, w
    <3>1. Cardinality(Upto(v) \cup {w}) = Cardinality(Upto(v)) + 1
      BY <1>2, <2>8, FS_AddElement
    <3> QED BY <2>2, <2>8, <3>1
  <2>10. Next1(k + 1)
    BY <2>1, <2>6
  <2> HIDE DEF Next1, Upto
  <2>11. \A j \in 1..(k + 1) : Next1(j) /\ e[j] \in 0..(n + 1)
    <3>1. \A j \in 1..(k + 1) : j = k + 1 \/ j \in 1..k
      OBVIOUS
    <3> QED BY <1>6, <2>7, <2>10, <3>1
  <2> QED BY <2>1, <2>7, <2>9, <2>11
<1> HIDE DEF S, Next1
<1>7. 0..K \subseteq S
  BY <1>1, <1>5, <1>6, Upwards
<1>8. K \in S
  BY <1>1, <1>7
<1>9. \A k \in 1..K : Next1(k) /\ e[k] \in 0..(n + 1)
  BY <1>8 DEF S
<1>10. Upto(e[K]) = E
  BY <1>2, <1>8 DEF S
<1>11. e \in [0..K -> 0..(n + 1)]
  <2>1. \A k \in 0..K : e[k] \in 0..(n + 1)
    BY <1>7 DEF S
  <2> QED BY <2>1 DEF K
<1> QED BY <1>1, <1>3, <1>9, <1>10, <1>11 DEF Ends, K, Next1

\* What there is of a text from each of its characters on: line feeds stay.
Tails(g, t, X) ==
    /\ g \in [1..(Len(t) + 1) -> Seq(X)] /\ g[Len(t) + 1] = <<>>
    /\ \A i \in 1..Len(t) : t[i] = "LF" => g[i] = <<"LF">> \o g[i + 1]

\* What there is between the ends of lines.
Between(a, g, e, K, X) ==
    /\ a \in [1..K -> Seq(X)]
    /\ \A k \in 1..K : NoFeed(a[k]) /\ g[e[k - 1] + 1] = a[k] \o g[e[k]]

\* A text whose lines end at e is cut there.
LEMMA CutBy ==
    ASSUME NEW X, "LF" \in X, NEW t \in Seq(X), NEW e, Ends(e, LineEnds(t), Len(t)), NEW K,
           K = Cardinality(LineEnds(t)), NEW g, Tails(g, t, X), NEW a, Between(a, g, e, K, X)
    PROVE  /\ Cut([k \in 0..K |-> IF e[k] <= Len(t) THEN g[e[k] + 1] ELSE <<>>], a, X, K)
           /\ \A k \in 0..(K - 1) : e[k] < Len(t)
<1> DEFINE n == Len(t)  E == LineEnds(t)
           w == [k \in 0..K |-> IF e[k] <= Len(t) THEN g[e[k] + 1] ELSE <<>>]
<1>1. n \in Nat /\ DOMAIN t = 1..n /\ (t = <<>> <=> n = 0)
  BY LenProperties, EmptySeq
<1>2. /\ K \in Nat /\ e \in [0..K -> 0..(n + 1)] /\ e[0] = 0
      /\ \A k \in 1..K : /\ e[k] \in E /\ e[k - 1] < e[k]
                         /\ \A i \in E : ~(e[k - 1] < i /\ i < e[k])
      /\ \A i \in E : i <= e[K]
  BY DEF Ends
<1>3. \A i \in E : \/ i \in 1..n /\ t[i] = "LF"
                   \/ i = n + 1 /\ n # 0 /\ t[n] # "LF"
  BY <1>1 DEF LineEnds, Last
<1>4. n # 0 => n \in E \/ n + 1 \in E
  <2>1. n # 0 => n \in 1..n
    BY <1>1
  <2> QED BY <1>1, <2>1 DEF LineEnds, Last
<1>a. \A i \in 1..n : t[i] = "LF" => i \in E
  BY <1>1 DEF LineEnds
<1>b. n + 1 \in 1..(n + 1) /\ g[n + 1] = <<>>
  BY <1>1 DEF Tails
<1>c. \A i \in 1..n : t[i] = "LF" => g[i] = <<"LF">> \o g[i + 1]
  BY DEF Tails
<1>d. g \in [1..(n + 1) -> Seq(X)]
  BY DEF Tails
<1>e. n \in Nat /\ n # n + 1
  <2> n \in Nat
    BY <1>1
  <2> HIDE DEF n
  <2> QED OBVIOUS
<1>g. /\ a \in [1..K -> Seq(X)]
      /\ \A k \in 1..K : a[k] \in Seq(X) /\ NoFeed(a[k]) /\ g[e[k - 1] + 1] = a[k] \o g[e[k]]
  BY DEF Between
<1>f. K \in Nat /\ \A k \in 1..K : k - 1 \in 0..(K - 1) /\ k - 1 \in 0..K /\ k \in 0..K
  BY <1>2
<1>7. \A k \in 0..K : w[k] = IF e[k] <= n THEN g[e[k] + 1] ELSE <<>>
  OBVIOUS
<1> HIDE DEF E, n
<1>5. \A k \in 0..(K - 1) : e[k] < n
  <2> SUFFICES ASSUME NEW k \in 0..(K - 1) PROVE e[k] < n
    OBVIOUS
  <2>1. k + 1 \in 1..K /\ (k + 1) - 1 = k /\ k \in 0..K /\ k + 1 \in 0..K
    BY <1>2
  <2> DEFINE x == e[k]  y == e[k + 1]
  <2>2. x \in 0..(n + 1) /\ y \in 0..(n + 1) /\ x < y /\ y \in E
    BY <1>2, <2>1
  <2>3. x # n
    <3> SUFFICES ASSUME x = n PROVE FALSE
      OBVIOUS
    <3>1. y = n + 1
      <4> HIDE DEF x, y
      <4> QED BY <1>1, <2>2
    <3>2. n # 0 /\ t[n] # "LF"
      <4> HIDE DEF x, y
      <4>1. ~(y \in 1..n)
        BY <1>1, <3>1
      <4> QED BY <1>3, <2>2, <4>1
    <3>3. k # 0
      BY <1>2, <3>2
    <3>4. k \in 1..K
      BY <2>1, <3>3
    <3>5. n \in E
      BY <1>2, <3>4
    <3> QED BY <1>3, <1>e, <3>2, <3>5
  <2> HIDE DEF x, y
  <2>4. x < n
    BY <1>e, <2>2, <2>3
  <2> QED BY <2>4 DEF x
<1>6. e[K] >= n /\ K \in 0..K /\ e[K] \in 0..(n + 1)
  <2>1. e[K] \in 0..(n + 1) /\ K \in 0..K
    BY <1>2
  <2> DEFINE x == e[K]
  <2>2. \A i \in E : i <= x
    BY <1>2
  <2>3. n + 1 <= x => n <= x
    BY <1>1, <2>1
  <2>4. CASE n = 0
    BY <2>1, <2>4
  <2>5. CASE n # 0
    BY <1>4, <2>1, <2>2, <2>3, <2>5
  <2> QED BY <2>1, <2>4, <2>5
<1>8. w \in [0..K -> Seq(X)]
  <2>1. ASSUME NEW k \in 0..K PROVE w[k] \in Seq(X)
    <3>1. e[k] \in 0..(n + 1)
      BY <1>2
    <3>2. CASE e[k] <= n
      <4>1. e[k] + 1 \in 1..(n + 1)
        BY <1>e, <3>1, <3>2
      <4>2. g[e[k] + 1] \in Seq(X)
        BY <1>d, <4>1
      <4> QED BY <1>7, <3>2, <4>2
    <3>3. CASE ~(e[k] <= n)
      <4>1. <<>> \in Seq(X)
        OBVIOUS
      <4> QED BY <1>7, <3>3, <4>1
    <3> QED BY <3>2, <3>3
  <2>2. w = [k \in 0..K |-> w[k]]
    OBVIOUS
  <2> HIDE DEF w
  <2> QED BY <2>1, <2>2
<1>9. w[K] = <<>>
  <2>1. e[K] <= n => e[K] = n
    BY <1>1, <1>6
  <2> QED BY <1>6, <1>7, <1>b, <2>1
<1> HIDE DEF w
<1>10. ASSUME NEW k \in 1..K
       PROVE  w[k - 1] = a[k] \o (<<"LF">> \o w[k]) \/ (k = K /\ w[k - 1] = a[k])
  <2>1. k - 1 \in 0..(K - 1) /\ k - 1 \in 0..K /\ k \in 0..K
    BY <1>2
  <2>2. e[k - 1] < n /\ e[k - 1] \in 0..(n + 1) /\ e[k] \in E /\ e[k] \in 0..(n + 1) /\ e[k] # 0
    <3>1. e[k - 1] < n /\ e[k - 1] \in 0..(n + 1) /\ e[k] \in 0..(n + 1)
      BY <1>2, <1>5, <1>f
    <3>2. e[k] \in E /\ e[k - 1] < e[k]
      BY <1>2
    <3>3. e[k] # 0
      BY <1>e, <3>1, <3>2
    <3> QED BY <3>1, <3>2, <3>3
  <2>3. w[k - 1] = g[e[k - 1] + 1]
    BY <1>1, <1>7, <2>1, <2>2
  <2>4. w[k - 1] = a[k] \o g[e[k]]
    BY <1>g, <2>3
  <2>5. CASE e[k] \in 1..n /\ t[e[k]] = "LF"
    <3>1. w[k] = g[e[k] + 1]
      BY <1>1, <1>7, <2>1, <2>5
    <3>2. g[e[k]] = <<"LF">> \o g[e[k] + 1]
      BY <1>c, <2>5
    <3> QED BY <2>4, <3>1, <3>2
  <2>6. CASE e[k] = n + 1
    <3>1. g[e[k]] = <<>>
      BY <1>b, <2>6
    <3>2. a[k] \o <<>> = a[k]
      <4>1. a[k] \in Seq(X)
        BY <1>g
      <4> QED BY <4>1, ConcatEmptySeq
    <3>3. k = K
      <4>1. ~(k \in 0..(K - 1))
        BY <1>1, <1>5, <2>6
      <4> QED BY <1>2, <4>1
    <3> QED BY <2>4, <3>1, <3>2, <3>3
  <2> QED BY <1>3, <2>2, <2>5, <2>6
<1>11. Cut(w, a, X, K)
  BY <1>8, <1>9, <1>10, <1>g DEF Cut
<1> QED BY <1>5, <1>11 DEF w, n

\* A text is the lines between the line feeds.
LEMMA TextCut ==
    ASSUME NEW X, "LF" \in X, NEW t \in Seq(X), NEW e, Ends(e, LineEnds(t), Len(t)), NEW K,
           K = Cardinality(LineEnds(t))
    PROVE  \E w, a : /\ Cut(w, a, X, K) /\ w[0] = t
                     /\ \A k \in 0..(K - 1) : w[k] # <<>> /\ e[k] < Len(t)
<1> DEFINE n == Len(t)  E == LineEnds(t)
           g == [i \in 1..(n + 1) |-> SubSeq(t, i, n)]
           a == [k \in 1..K |-> SubSeq(t, e[k - 1] + 1, e[k] - 1)]
           w == [k \in 0..K |-> IF e[k] <= Len(t) THEN g[e[k] + 1] ELSE <<>>]
<1>1. n \in Nat /\ DOMAIN t = 1..n /\ \A i \in 1..n : t[i] \in X
  BY LenProperties, ElementOfSeq
<1>2. /\ K \in Nat /\ e \in [0..K -> 0..(n + 1)] /\ e[0] = 0
      /\ \A k \in 1..K : /\ e[k] \in E /\ e[k - 1] < e[k]
                         /\ \A i \in E : ~(e[k - 1] < i /\ i < e[k])
  BY DEF Ends
<1>3. \A i \in 1..n : t[i] = "LF" => i \in E
  BY <1>1 DEF LineEnds
<1> HIDE DEF E
<1>4. \A i \in 1..(n + 1) : g[i] = SubSeq(t, i, n)
  OBVIOUS
<1>5. \A i \in 1..(n + 1) : g[i] \in Seq(X)
  <2> SUFFICES ASSUME NEW i \in 1..(n + 1) PROVE SubSeq(t, i, n) \in Seq(X)
    BY <1>4
  <2> n \in 0..n
    BY <1>1
  <2> QED BY PartTyped
<1>6. g \in [1..(n + 1) -> Seq(X)]
  BY <1>5
<1>7. g[n + 1] = <<>>
  <2>1. n + 1 \in 1..(n + 1) /\ n + 1 \in Int /\ n \in Int /\ n < n + 1
    BY <1>1
  <2>2. SubSeq(t, n + 1, n) = <<>>
    BY <2>1, SubSeqEmpty
  <2> QED BY <1>4, <2>1, <2>2
<1>8. ASSUME NEW i \in 1..n PROVE g[i] = <<t[i]>> \o g[i + 1]
  <2>1. n \in i..n /\ i \in 1..(n + 1) /\ i + 1 \in 1..(n + 1)
    BY <1>1
  <2>2. SubSeq(t, i, n) = <<t[i]>> \o SubSeq(t, i + 1, n)
    BY <2>1, SubSeqRecursiveFirst
  <2> QED BY <1>4, <2>1, <2>2
<1>9. \A k \in 1..K : a[k] = SubSeq(t, e[k - 1] + 1, e[k] - 1)
  OBVIOUS
<1>a. a = [k \in 1..K |-> a[k]]
  OBVIOUS
<1> HIDE DEF g, a
<1>10. ASSUME NEW k \in 1..K
       PROVE  a[k] \in Seq(X) /\ NoFeed(a[k]) /\ g[e[k - 1] + 1] = a[k] \o g[e[k]]
  <2> DEFINE x == e[k - 1] + 1  y == e[k] - 1  s == SubSeq(t, x, y)
  <2>1. k - 1 \in 0..K /\ k \in 0..K
    BY <1>2
  <2>2. x \in 1..(n + 1) /\ y \in 0..n /\ y >= x - 1 /\ y + 1 = e[k] /\ e[k] \in 1..(n + 1)
        /\ \A i \in E : ~(x <= i /\ i <= y)
    <3>1. e[k - 1] \in 0..(n + 1) /\ e[k] \in 0..(n + 1) /\ e[k - 1] < e[k]
          /\ \A i \in E : ~(e[k - 1] < i /\ i < e[k])
      BY <1>2, <2>1
    <3>2. \A i \in E : i \in Int
      BY <1>1 DEF E, LineEnds
    <3> QED BY <1>1, <3>1, <3>2
  <2>3. a[k] = s
    BY <1>9
  <2> HIDE DEF x, y
  <2>4. s \in Seq(X) /\ Len(s) = (IF x <= y THEN y - x + 1 ELSE 0) /\ \A i \in 1..(y - x + 1) : s[i] = t[x + i - 1]
    <3>1. x \in Int /\ y \in Int /\ \A i \in x..y : t[i] \in X
      BY <1>1, <2>2
    <3> QED BY <3>1, SubSeqProperties
  <2>5. NoFeed(s)
    <3> SUFFICES ASSUME NEW i \in 1..Len(s) PROVE s[i] # "LF"
      BY DEF NoFeed
    <3>1. i \in 1..(y - x + 1) /\ x + i - 1 \in 1..n /\ x <= x + i - 1 /\ x + i - 1 <= y
      <4> HIDE DEF s
      <4> QED BY <1>1, <2>2, <2>4
    <3>2. s[i] = t[x + i - 1]
      BY <2>4, <3>1
    <3> QED BY <1>3, <2>2, <3>1, <3>2
  <2>6. SubSeq(t, x, n) = SubSeq(t, x, y) \o SubSeq(t, y + 1, n)
    <3>1. x \in 1..(n + 1) /\ y \in (x - 1)..n /\ n \in y..n
      BY <1>1, <2>2
    <3> QED BY <3>1, ConcatAdjacentSubSeq
  <2>7. g[x] = s \o g[e[k]]
    BY <1>4, <2>2, <2>6
  <2> QED BY <2>3, <2>4, <2>5, <2>7 DEF x
<1>11. a \in [1..K -> Seq(X)]
  BY <1>10, <1>a
<1>12. /\ Cut(w, a, X, K)
       /\ \A k \in 0..(K - 1) : e[k] < n
  <2>1. \A i \in 1..n : t[i] = "LF" => g[i] = <<"LF">> \o g[i + 1]
    BY <1>8
  <2>2. Tails(g, t, X)
    BY <1>6, <1>7, <2>1 DEF Tails
  <2>4. Between(a, g, e, K, X)
    BY <1>10, <1>11 DEF Between
  <2> HIDE DEF w, n
  <2>3. /\ Cut([k \in 0..K |-> IF e[k] <= Len(t) THEN g[e[k] + 1] ELSE <<>>], a, X, K)
        /\ \A k \in 0..(K - 1) : e[k] < Len(t)
    BY <2>2, <2>4, CutBy
  <2> QED BY <2>3 DEF w, n
<1>13. w[0] = t
  <2>1. 0 \in 0..K /\ e[0] <= n /\ 0 + 1 = 1 /\ 1 \in 1..(n + 1)
    BY <1>1, <1>2
  <2>2. w[0] = g[1]
    BY <1>2, <2>1
  <2> QED BY <1>4, <2>1, <2>2, SubSeqFull
<1>14. ASSUME NEW k \in 0..(K - 1) PROVE w[k] # <<>>
  <2>a. K \in Nat
    BY <1>2
  <2>b. k \in 0..K
    BY <2>a
  <2>1. k \in 0..K /\ e[k] < n /\ e[k] \in 0..(n + 1)
    BY <1>2, <1>12, <2>b
  <2> DEFINE x == e[k] + 1
  <2>2. x \in 1..n /\ x + 1 \in 1..(n + 1)
    BY <1>1, <2>1
  <2>3. w[k] = g[x]
    BY <1>1, <2>1
  <2> HIDE DEF x, w
  <2>4. g[x] = <<t[x]>> \o g[x + 1]
    BY <1>8, <2>2
  <2>5. <<t[x]>> \in Seq(X) /\ <<t[x]>> # <<>>
    BY <1>1, <2>2
  <2>6. g[x + 1] \in Seq(X)
    BY <1>5, <2>2
  <2> QED BY <2>3, <2>4, <2>5, <2>6, ConcatEqualIffEmpty
<1> QED BY <1>12, <1>13, <1>14

\* What there is of the i-th character when the carriage returns before line
\* ends have gone.
Kept(t, i) == IF t[i] = "CR" /\ (i = Len(t) \/ t[i + 1] = "LF") THEN <<>> ELSE <<t[i]>>

\* What there is of all of them, from each on.
KeptFrom(h, t, X) ==
    /\ h \in [1..(Len(t) + 1) -> Seq(X)] /\ h[Len(t) + 1] = <<>>
    /\ \A i \in 1..Len(t) : h[i] = Kept(t, i) \o h[i + 1]

\* That is the text with Unix line endings, without a carriage return at its end.
LEMMA UnixKept ==
    ASSUME NEW X, NEW t \in Seq(X), {"CR", "LF"} \subseteq X
    PROVE  \E h : KeptFrom(h, t, X) /\ h[1] = WithoutCR(Unix(t))
<1> DEFINE n == Len(t)
           At(i) == t[i] = "CR" /\ i < n /\ t[i + 1] = "LF"
           ss == [i \in DOMAIN t |-> IF At(i) THEN <<>> ELSE <<t[i]>>]
<1>1. n \in Nat /\ DOMAIN t = 1..n /\ \A i \in 1..n : t[i] \in X
  BY LenProperties, ElementOfSeq
<1>2. \A i \in 1..n : ss[i] = IF At(i) THEN <<>> ELSE <<t[i]>>
  BY <1>1
<1>3. ss \in Seq(Seq(X)) /\ Len(ss) = n
  <2>1. \A x \in X : <<x>> \in Seq(X)
    OBVIOUS
  <2>2. <<>> \in Seq(X)
    OBVIOUS
  <2> QED BY <1>1, <2>1, <2>2
<1>4. Unix(t) = FlattenSeq(ss)
  BY DEF Unix
<1> HIDE DEF ss
<1>5. PICK g \in [1..(n + 1) -> Seq(X)] : /\ g[n + 1] = <<>> /\ FlattenSeq(ss) = g[1]
                                          /\ \A i \in 1..n : g[i] = ss[i] \o g[i + 1]
  <2>1. PICK g : Flat(g, X, ss) /\ FlattenSeq(ss) = g[1]
    BY <1>3, FlattenedFrom
  <2>2. Len(ss) = n
    BY <1>3
  <2> HIDE DEF n
  <2> QED BY <2>1, <2>2 DEF Flat
<1> DEFINE h == [i \in 1..(n + 1) |-> WithoutCR(g[i])]
<1>6. \A i \in 1..(n + 1) : h[i] = WithoutCR(g[i]) /\ g[i] \in Seq(X)
  BY <1>5
<1>a. n \in Nat
  BY <1>1
<1>b. \A i \in 1..n : Kept(t, i) = IF t[i] = "CR" /\ (i = n \/ t[i + 1] = "LF") THEN <<>> ELSE <<t[i]>>
  BY DEF Kept
<1> HIDE DEF n
<1>7. \A i \in 1..n : ss[i] \in Seq(X) /\ (i # n => ss[i] = Kept(t, i)) /\ (i = n => ss[i] = <<t[i]>>)
  <2> SUFFICES ASSUME NEW i \in 1..n
               PROVE  ss[i] \in Seq(X) /\ (i # n => ss[i] = Kept(t, i)) /\ (i = n => ss[i] = <<t[i]>>)
    OBVIOUS
  <2>1. <<>> \in Seq(X) /\ <<t[i]>> \in Seq(X)
    BY <1>1
  <2>2. i # n => i < n
    BY <1>a
  <2>3. i = n => ~(i < n)
    BY <1>a
  <2> QED BY <1>2, <1>b, <2>1, <2>2, <2>3
<1>8. ASSUME n # 0 PROVE g[n] = <<t[n]>> /\ h[n] = Kept(t, n) /\ g[n] # <<>>
  <2>1. n \in 1..n /\ n \in 1..(n + 1) /\ n + 1 \in 1..(n + 1)
    BY <1>8, <1>a
  <2>2. g[n] = ss[n] \o g[n + 1] /\ ss[n] = <<t[n]>> /\ ss[n] \in Seq(X)
    BY <1>5, <1>7, <2>1
  <2>3. ss[n] \o <<>> = ss[n]
    BY <2>2, ConcatEmptySeq
  <2>4. g[n] = <<t[n]>>
    BY <1>5, <2>2, <2>3
  <2>5. t[n] \in X
    BY <1>1, <2>1
  <2>6. WithoutCR(<<t[n]>>) = IF t[n] = "CR" THEN <<>> ELSE <<t[n]>>
    <3> <<>> \in Seq(X)
      OBVIOUS
    <3> QED BY <2>5, CRBehind
  <2>7. h[n] = Kept(t, n)
    BY <1>6, <1>b, <2>1, <2>4, <2>6
  <2> QED BY <2>4, <2>7
<1> HIDE DEF h
<1> DEFINE S == {0} \cup {j \in 1..n : g[n + 1 - j] # <<>>}
<1>9. \A i \in 1..n : g[i] # <<>>
  <2>1. 0 \in S
    OBVIOUS
  <2>2. ASSUME NEW j \in 0..(n - 1), j \in S PROVE j + 1 \in S
    <3> DEFINE i == n - j
    <3>1. n + 1 - (j + 1) = i /\ i \in 1..n /\ i + 1 = n + 1 - j /\ j + 1 \in 1..n /\ i + 1 \in 1..(n + 1)
      BY <1>a
    <3>2. CASE j = 0
      <4>1. i = n /\ n # 0
        BY <1>a, <3>1, <3>2
      <4> QED BY <1>8, <3>1, <4>1
    <3>3. CASE j # 0
      <4>1. g[i + 1] # <<>>
        BY <2>2, <3>1, <3>3
      <4>2. g[i] = ss[i] \o g[i + 1] /\ ss[i] \in Seq(X) /\ g[i + 1] \in Seq(X)
        BY <1>5, <1>7, <3>1
      <4>3. g[i] # <<>>
        BY <4>1, <4>2, ConcatEqualIffEmpty
      <4> QED BY <3>1, <4>3
    <3> QED BY <3>2, <3>3
  <2> HIDE DEF S
  <2>3. 0..n \subseteq S
    BY <1>a, <2>1, <2>2, Upwards
  <2>4. ASSUME NEW i \in 1..n PROVE g[i] # <<>>
    <3>1. n + 1 - i \in 0..n /\ n + 1 - i # 0 /\ n + 1 - (n + 1 - i) = i
      BY <1>a
    <3>2. n + 1 - i \in S
      BY <2>3, <3>1
    <3> QED BY <3>1, <3>2 DEF S
  <2> QED BY <2>4
<1>10. ASSUME NEW i \in 1..n PROVE h[i] = Kept(t, i) \o h[i + 1]
  <2>1. i \in 1..(n + 1) /\ i + 1 \in 1..(n + 1) /\ t[i] \in X /\ (i # n => i + 1 \in 1..n)
    BY <1>1, <1>a
  <2>2. CASE i = n
    <3>1. h[n + 1] = <<>>
      <4>1. WithoutCR(<<>>) = <<>>
        <5> <<>> \in Seq(X)
          OBVIOUS
        <5> QED BY <2>1, CRBehind
      <4> QED BY <1>5, <1>6, <2>1, <2>2, <4>1
    <3>2. Kept(t, i) \in Seq(X)
      <4> <<>> \in Seq(X) /\ <<t[i]>> \in Seq(X)
        BY <2>1
      <4> QED BY <1>b
    <3>3. Kept(t, i) \o <<>> = Kept(t, i)
      BY <3>2, ConcatEmptySeq
    <3>4. n # 0
      BY <2>2
    <3> QED BY <1>8, <2>2, <3>1, <3>3, <3>4
  <2>3. CASE i # n
    <3> DEFINE s == g[i + 1]  x == t[i]
    <3>1. s \in Seq(X) /\ s # <<>> /\ x \in X
      BY <1>6, <1>9, <2>1, <2>3
    <3>2. g[i] = ss[i] \o s /\ ss[i] = Kept(t, i)
      BY <1>5, <1>7, <2>3
    <3>3. Kept(t, i) = <<>> \/ Kept(t, i) = <<x>>
      BY <1>b
    <3>4. h[i] = WithoutCR(g[i]) /\ h[i + 1] = WithoutCR(s)
      BY <1>6, <2>1
    <3> HIDE DEF s, x
    <3>5. WithoutCR(<<x>> \o s) = <<x>> \o WithoutCR(s) /\ WithoutCR(<<>> \o s) = <<>> \o WithoutCR(s)
      BY <3>1, CRBehind
    <3> QED BY <3>2, <3>3, <3>4, <3>5
  <2> QED BY <2>2, <2>3
<1>11. h \in [1..(n + 1) -> Seq(X)]
  <2>1. \A i \in 1..(n + 1) : h[i] \in Seq(X)
    <3> SUFFICES ASSUME NEW i \in 1..(n + 1) PROVE WithoutCR(g[i]) \in Seq(X)
      BY <1>6
    <3>1. g[i] \in Seq(X) /\ "CR" \in X
      BY <1>6
    <3> QED BY <3>1, CRBehind
  <2>2. h = [i \in 1..(n + 1) |-> h[i]]
    BY DEF h
  <2> QED BY <2>1, <2>2
<1>12. h[n + 1] = <<>>
  <2>1. n + 1 \in 1..(n + 1)
    BY <1>a
  <2>2. WithoutCR(<<>>) = <<>>
    BY DEF WithoutCR
  <2> QED BY <1>5, <1>6, <2>1, <2>2
<1>13. h[1] = WithoutCR(Unix(t))
  <2>1. 1 \in 1..(n + 1)
    BY <1>a
  <2> QED BY <1>4, <1>5, <1>6, <2>1
<1>14. KeptFrom(h, t, X)
  BY <1>10, <1>11, <1>12 DEF KeptFrom, n
<1> QED BY <1>13, <1>14

\* A line goes on at p and ends with q.
InLine(t, p, q) ==
    /\ p \in 1..(Len(t) + 1) /\ q \in (p - 1)..Len(t) /\ \A i \in p..q : t[i] # "LF"
    /\ q = Len(t) \/ t[q + 1] = "LF"

\* What there is of it, and what is behind it.
Shown(h, t, p, q, X) ==
    LET s == WithoutCR(SubSeq(t, p, q))
    IN  s \in Seq(X) /\ NoFeed(s) /\ h[p] = s \o h[q + 1]

\* From anywhere in a line to its end.
LEMMA Stretch ==
    ASSUME NEW X, NEW t \in Seq(X), {"CR", "LF"} \subseteq X, NEW h, KeptFrom(h, t, X),
           NEW p, NEW q, InLine(t, p, q)
    PROVE  Shown(h, t, p, q, X)
<1> DEFINE n == Len(t)  m == q + 1 - p
           From1(i) == SubSeq(t, i, q)
           Good(i) == h[i] = WithoutCR(From1(i)) \o h[q + 1]
<1>1. n \in Nat /\ \A i \in 1..n : t[i] \in X
  BY LenProperties, ElementOfSeq
<1>2. h \in [1..(n + 1) -> Seq(X)] /\ \A i \in 1..n : h[i] = Kept(t, i) \o h[i + 1]
  BY DEF KeptFrom
<1>3. q \in 0..n /\ p \in 1..(n + 1) /\ p <= q + 1 /\ m \in Nat /\ q + 1 \in 1..(n + 1)
  BY <1>1 DEF InLine
<1>e. \A i \in p..q : t[i] # "LF"
  BY DEF InLine
<1>4. \A i \in 1..n : Kept(t, i) = IF t[i] = "CR" /\ (i = n \/ t[i + 1] = "LF") THEN <<>> ELSE <<t[i]>>
  BY DEF Kept
<1>5. q = n \/ t[q + 1] = "LF"
  BY DEF InLine
<1>6. \A i \in p..(q + 1) : From1(i) \in Seq(X)
  <2> SUFFICES ASSUME NEW i \in p..(q + 1) PROVE SubSeq(t, i, q) \in Seq(X)
    OBVIOUS
  <2>1. i \in 1..(n + 1) /\ q \in 0..n
    BY <1>1, <1>3
  <2> QED BY <2>1, PartTyped
<1>a. \A s \in Seq(X) : WithoutCR(s) \in Seq(X)
  <2> "CR" \in X
    OBVIOUS
  <2> QED BY CRBehind
<1>b. ASSUME NEW i \in p..q PROVE From1(i) = <<t[i]>> \o From1(i + 1)
  <2>1. i \in 1..n /\ q \in i..n
    BY <1>1, <1>3
  <2> QED BY <2>1, SubSeqRecursiveFirst
<1>c. From1(q + 1) = <<>>
  <2>1. q \in Int /\ q + 1 \in Int /\ q < q + 1
    BY <1>3
  <2> QED BY <2>1, SubSeqEmpty
<1>d. ASSUME NEW i \in p..q PROVE From1(i) # <<>>
  <2>1. i \in 1..n /\ i \in p..(q + 1) /\ i + 1 \in p..(q + 1)
    BY <1>1, <1>3
  <2>2. <<t[i]>> \in Seq(X) /\ <<t[i]>> # <<>> /\ From1(i + 1) \in Seq(X)
    BY <1>1, <1>6, <2>1
  <2> DEFINE u == <<t[i]>>  v == From1(i + 1)
  <2>3. u \in Seq(X) /\ u # <<>> /\ v \in Seq(X) /\ From1(i) = u \o v
    BY <1>b, <2>2
  <2> HIDE DEF From1, u, v
  <2>4. u \o v # <<>>
    BY <2>3, ConcatEqualIffEmpty
  <2> QED BY <2>3, <2>4
<1> HIDE DEF n, From1
<1> DEFINE S == {j \in 0..m : Good(q + 1 - j)}
<1>7. 0 \in S
  <2>1. q + 1 - 0 = q + 1 /\ h[q + 1] \in Seq(X)
    BY <1>2, <1>3
  <2>2. <<>> \o h[q + 1] = h[q + 1]
    BY <2>1, ConcatEmptySeq
  <2>3. WithoutCR(<<>>) = <<>>
    BY DEF WithoutCR
  <2>4. 0 \in 0..m
    BY <1>3
  <2> HIDE DEF m
  <2> QED BY <1>c, <2>1, <2>2, <2>3, <2>4
<1>8. ASSUME NEW j \in 0..(m - 1), j \in S PROVE j + 1 \in S
  <2> DEFINE i == q - j  x == t[i]  c == h[q + 1]
  <2>1. /\ q + 1 - (j + 1) = i /\ i + 1 = q + 1 - j /\ i \in p..q /\ i \in 1..n /\ i <= q
        /\ j + 1 \in 0..m /\ i + 1 \in p..(q + 1) /\ i + 1 \in 1..(n + 1)
    BY <1>1, <1>3
  <2>2. h[i] = Kept(t, i) \o h[i + 1] /\ x \in X /\ c \in Seq(X)
    BY <1>1, <1>2, <1>3, <2>1
  <2>3. Good(i)
    <3>1. CASE j = 0
      <4>1. i = q
        BY <1>3, <3>1
      <4>2. <<x>> \o <<>> = <<x>>
        <5> <<x>> \in Seq(X)
          BY <2>2
        <5> QED BY ConcatEmptySeq
      <4>3. From1(i) = <<x>>
        BY <1>b, <1>c, <2>1, <4>1, <4>2
      <4>4. WithoutCR(<<x>>) = IF x = "CR" THEN <<>> ELSE <<x>>
        <5> <<>> \in Seq(X)
          OBVIOUS
        <5> QED BY <2>2, CRBehind
      <4>5. Kept(t, i) = WithoutCR(<<x>>)
        BY <1>4, <1>5, <2>1, <4>1, <4>4
      <4> QED BY <2>2, <4>1, <4>3, <4>5
    <3>2. CASE j # 0
      <4> DEFINE s == From1(i + 1)
      <4>1. i + 1 \in p..q /\ i # n
        BY <1>1, <1>3, <2>1, <3>2
      <4>2. t[i + 1] # "LF"
        BY <1>e, <4>1
      <4>3. Kept(t, i) = <<x>>
        BY <1>4, <2>1, <4>1, <4>2
      <4>4. s \in Seq(X) /\ s # <<>> /\ WithoutCR(s) \in Seq(X)
        BY <1>6, <1>a, <1>d, <2>1, <4>1
      <4>5. h[i + 1] = WithoutCR(s) \o c
        BY <1>8, <2>1
      <4>6. From1(i) = <<x>> \o s
        BY <1>b, <2>1
      <4> DEFINE b == WithoutCR(s)  u == <<x>>
      <4>7. u \in Seq(X) /\ b \in Seq(X) /\ c \in Seq(X)
        BY <2>2, <4>4
      <4>8. WithoutCR(u \o s) = u \o b
        <5> HIDE DEF s, x
        <5> QED BY <2>2, <4>4, CRBehind
      <4>9. h[i] = u \o (b \o c)
        BY <2>2, <4>3, <4>5
      <4> HIDE DEF b, u, c, s
      <4>10. (u \o b) \o c = u \o (b \o c)
        <5>1. Cat(Cat(u, b), c) = Cat(u, Cat(b, c))
          BY <4>7, Associates
        <5> QED BY <5>1 DEF Cat
      <4>11. WithoutCR(From1(i)) = u \o b
        BY <4>6, <4>8 DEF u
      <4> QED BY <4>9, <4>10, <4>11 DEF c
    <3> QED BY <3>1, <3>2
  <2> HIDE DEF Good, i
  <2> QED BY <2>1, <2>3
<1> HIDE DEF Good, S
<1>9. 0..m \subseteq S
  BY <1>3, <1>7, <1>8, Upwards
<1>10. Good(p)
  <2>1. m \in 0..m /\ q + 1 - m = p
    BY <1>3
  <2> QED BY <1>9, <2>1 DEF S
<1>11. NoFeed(WithoutCR(From1(p)))
  <2> DEFINE s == From1(p)
  <2>1. s \in Seq(X) /\ Len(s) \in Nat
    <3> p \in p..(q + 1)
      BY <1>3
    <3> QED BY <1>6, LenProperties
  <2>2. \A i \in 1..Len(s) : s[i] # "LF"
    <3>1. p \in Int /\ q \in Int /\ \A i \in p..q : t[i] \in X
      BY <1>1, <1>3
    <3>2. /\ Len(s) = IF p <= q THEN q - p + 1 ELSE 0
          /\ \A i \in 1..(q - p + 1) : s[i] = t[p + i - 1]
      BY <3>1, SubSeqProperties DEF From1
    <3> SUFFICES ASSUME NEW i \in 1..Len(s) PROVE s[i] # "LF"
      OBVIOUS
    <3> HIDE DEF s
    <3>3. i \in 1..(q - p + 1) /\ p + i - 1 \in p..q
      BY <2>1, <3>1, <3>2
    <3> QED BY <1>e, <3>2, <3>3
  <2> HIDE DEF s
  <2>3. /\ Len(Front(s)) \in Nat /\ Len(Front(s)) <= Len(s)
        /\ \A i \in 1..Len(Front(s)) : Front(s)[i] = s[i]
    <3> DEFINE l == Len(s) - 1
    <3>1. 1 \in Int /\ l \in Int /\ \A i \in 1..l : s[i] \in X
      BY <2>1, ElementOfSeq
    <3> HIDE DEF l
    <3>2. /\ Len(SubSeq(s, 1, l)) = IF 1 <= l THEN l - 1 + 1 ELSE 0
          /\ \A i \in 1..(l - 1 + 1) : SubSeq(s, 1, l)[i] = s[1 + i - 1]
      BY <3>1, SubSeqProperties
    <3> DEFINE b == SubSeq(s, 1, l)
    <3>3. \A i \in 1..Len(b) : 1 + i - 1 = i
      OBVIOUS
    <3> HIDE DEF b
    <3>4. Len(b) \in Nat /\ Len(b) <= Len(s) /\ \A i \in 1..Len(b) : b[i] = s[i]
      <4>1. Len(b) \in Nat /\ Len(b) <= Len(s)
        BY <2>1, <3>1, <3>2 DEF b, l
      <4>2. ASSUME NEW i \in 1..Len(b) PROVE b[i] = s[i]
        <5>1. i \in 1..(l - 1 + 1)
          BY <3>1, <3>2 DEF b
        <5> QED BY <3>2, <3>3, <5>1 DEF b
      <4> QED BY <4>1, <4>2
    <3> QED BY <3>4 DEF Front, b, l
  <2>4. NoFeed(s) /\ NoFeed(Front(s))
    <3>1. \A i \in 1..Len(Front(s)) : i \in 1..Len(s)
      BY <2>1, <2>3
    <3> QED BY <2>2, <2>3, <3>1 DEF NoFeed
  <2> QED BY <2>4 DEF WithoutCR, s
<1>12. WithoutCR(From1(p)) \in Seq(X)
  <2> p \in p..(q + 1)
    BY <1>3
  <2> QED BY <1>6, <1>a
<1> QED BY <1>10, <1>11, <1>12 DEF From1, Good, Shown

\* The lines that a text is scanned into.
LEMMA LinesAre ==
    ASSUME NEW X, NEW t \in Seq(X)
    PROVE  \E e : /\ Ends(e, LineEnds(t), Len(t))
                  /\ ScanLines(t) = [k \in 1..Cardinality(LineEnds(t)) |->
                                        WithoutCR(SubSeq(t, e[k - 1] + 1, e[k] - 1))]
<1> DEFINE n == Len(t)  E == LineEnds(t)  K == Cardinality(E)
           Is(f) == f = [k \in 0..K |-> IF k = 0 THEN 0 ELSE Min({i \in E : i > f[k - 1]})]
           e == CHOOSE f : Is(f)
<1>1. n \in Nat /\ DOMAIN t = 1..n
  BY LenProperties
<1>2. E \in SUBSET (1..(n + 1))
  BY <1>1 DEF LineEnds
<1>3. K \in Nat
  <2>1. n + 1 \in Int /\ 1 \in Int
    BY <1>1
  <2>2. IsFiniteSet(1..(n + 1))
    BY <2>1, FS_Interval
  <2> HIDE DEF E, n
  <2> QED BY <1>2, <2>2, FS_Subset, FS_CardinalityType
<1>4. ScanLines(t) = [k \in 1..K |-> WithoutCR(SubSeq(t, e[k - 1] + 1, e[k] - 1))]
  BY DEF ScanLines
<1> HIDE DEF n, E, K
<1>5. \E f : Is(f)
  <2> DEFINE Next1(v) == Min({i \in E : i > v})
             V == {0} \cup {Min(D) : D \in SUBSET E}
             step == [p \in V \X (1..K) |-> Next1(p[1])]
  <2>1. \A v : Next1(v) \in V
    <3> SUFFICES ASSUME NEW v PROVE Next1(v) \in V
      OBVIOUS
    <3>1. {i \in E : i > v} \in SUBSET E
      OBVIOUS
    <3> QED BY <3>1
  <2>2. 0 \in V
    OBVIOUS
  <2> HIDE DEF V, Next1
  <2>3. step \in [V \X (1..K) -> V]
    BY <2>1
  <2>4. \A v \in V : \A k \in 1..K : step[<<v, k>>] = Next1(v)
    OBVIOUS
  <2> HIDE DEF step
  <2> DEFINE a == 0
  <2>5. PICK f : Walks(f, V, a, K, step)
    <3> a \in V
      BY <2>2
    <3> HIDE DEF a
    <3> QED BY <1>3, <2>3, Recursion
  <2>6. f \in [0..K -> V] /\ f[0] = 0 /\ \A k \in 1..K : f[k] = step[<<f[k - 1], k>>]
    BY <2>5 DEF Walks
  <2>7. \A k \in 1..K : f[k] = Next1(f[k - 1])
    <3> SUFFICES ASSUME NEW k \in 1..K PROVE f[k] = Next1(f[k - 1])
      OBVIOUS
    <3>1. k - 1 \in 0..K
      BY <1>3
    <3> QED BY <2>4, <2>6, <3>1
  <2>8. \A k \in 0..K : f[k] = IF k = 0 THEN 0 ELSE Next1(f[k - 1])
    <3>1. \A k \in 0..K : k # 0 => k \in 1..K
      BY <1>3
    <3> QED BY <2>6, <2>7, <3>1
  <2>9. f = [k \in 0..K |-> IF k = 0 THEN 0 ELSE Next1(f[k - 1])]
    <3> DEFINE G(k) == IF k = 0 THEN 0 ELSE Next1(f[k - 1])
    <3>1. \A k \in 0..K : f[k] = G(k)
      BY <2>8
    <3> HIDE DEF G
    <3>2. f = [k \in 0..K |-> G(k)]
      BY <2>6, <3>1
    <3> QED BY <3>2 DEF G
  <2> QED BY <2>9 DEF Next1
<1>6. Is(e)
  <2> HIDE DEF Is
  <2> QED BY <1>5
<1> HIDE DEF e
<1>7. Ends(e, E, n)
  BY <1>1, <1>2, <1>6, EndsAre DEF K
<1> QED BY <1>4, <1>7 DEF E, K, n

\* What is shown of a text is the lines of the one without carriage returns
\* before line ends.
LEMMA ShownCut ==
    ASSUME NEW X, NEW t \in Seq(X), {"CR", "LF"} \subseteq X
    PROVE  \E w : /\ Cut(w, ScanLines(t), X, Cardinality(LineEnds(t))) /\ w[0] = WithoutCR(Unix(t))
<1> DEFINE n == Len(t)  E == LineEnds(t)  K == Cardinality(E)
<1>1. PICK e : /\ Ends(e, LineEnds(t), Len(t))
               /\ ScanLines(t) = [k \in 1..Cardinality(LineEnds(t)) |->
                                     WithoutCR(SubSeq(t, e[k - 1] + 1, e[k] - 1))]
  BY LinesAre
<1>2. PICK h : KeptFrom(h, t, X) /\ h[1] = WithoutCR(Unix(t))
  BY UnixKept
<1> DEFINE a == ScanLines(t)
           w == [k \in 0..K |-> IF e[k] <= Len(t) THEN h[e[k] + 1] ELSE <<>>]
<1>3. n \in Nat /\ DOMAIN t = 1..n /\ (t = <<>> <=> n = 0)
  BY LenProperties, EmptySeq
<1>4. /\ K \in Nat /\ e \in [0..K -> 0..(n + 1)] /\ e[0] = 0
      /\ \A k \in 1..K : /\ e[k] \in E /\ e[k - 1] < e[k]
                         /\ \A i \in E : ~(e[k - 1] < i /\ i < e[k])
  BY <1>1 DEF Ends
<1>5. \A i \in E : i \in Int /\ ((i \in 1..n /\ t[i] = "LF") \/ i = n + 1)
  BY <1>3 DEF LineEnds, Last
<1>a. \A i \in 1..n : t[i] = "LF" => i \in E
  BY <1>3 DEF LineEnds
<1>6. /\ h \in [1..(n + 1) -> Seq(X)] /\ h[n + 1] = <<>>
      /\ \A i \in 1..n : h[i] = Kept(t, i) \o h[i + 1]
  BY <1>2 DEF KeptFrom
<1>7. a = [k \in 1..K |-> WithoutCR(SubSeq(t, e[k - 1] + 1, e[k] - 1))]
  BY <1>1
<1> HIDE DEF a, E, K
<1>8. Tails(h, t, X)
  <2>1. \A i \in 1..n : t[i] = "LF" => Kept(t, i) = <<"LF">>
    BY DEF Kept
  <2> QED BY <1>6, <2>1 DEF Tails
<1>9. ASSUME NEW k \in 1..K
      PROVE  a[k] \in Seq(X) /\ NoFeed(a[k]) /\ h[e[k - 1] + 1] = a[k] \o h[e[k]]
  <2> DEFINE p == e[k - 1] + 1  q == e[k] - 1  s == WithoutCR(SubSeq(t, p, q))
  <2> HIDE DEF n
  <2>1. k - 1 \in 0..K /\ k \in 0..K
    BY <1>4
  <2>2. /\ p \in 1..(n + 1) /\ q \in (p - 1)..n /\ q + 1 = e[k]
        /\ \A i \in E : ~(p <= i /\ i <= q)
        /\ q = n \/ t[q + 1] = "LF"
    <3>1. e[k - 1] \in 0..(n + 1) /\ e[k] \in 0..(n + 1) /\ e[k - 1] < e[k] /\ e[k] \in E
          /\ \A i \in E : ~(e[k - 1] < i /\ i < e[k])
      BY <1>4, <2>1
    <3>2. p \in 1..(n + 1) /\ q \in (p - 1)..n /\ q + 1 = e[k]
      BY <1>3, <3>1
    <3>3. ASSUME NEW i \in E PROVE ~(p <= i /\ i <= q)
      <4> i \in Int
        BY <1>5
      <4> QED BY <3>1
    <3>4. e[k] = n + 1 => q = n
      BY <1>3, <3>1
    <3> QED BY <1>5, <3>1, <3>2, <3>3, <3>4
  <2>3. a[k] = s
    BY <1>7
  <2> HIDE DEF p, q
  <2>4. \A i \in p..q : t[i] # "LF"
    <3> SUFFICES ASSUME NEW i \in p..q, t[i] = "LF" PROVE FALSE
      OBVIOUS
    <3>1. i \in 1..n /\ p <= i /\ i <= q
      BY <1>3, <2>2
    <3> QED BY <1>a, <2>2, <3>1
  <2>5. p \in 1..(Len(t) + 1) /\ q \in (p - 1)..Len(t) /\ (q = Len(t) \/ t[q + 1] = "LF")
    BY <2>2 DEF n
  <2> HIDE DEF s
  <2>6. s \in Seq(X) /\ NoFeed(s) /\ h[p] = s \o h[q + 1]
    <3>1. KeptFrom(h, t, X)
      BY <1>2
    <3>2. InLine(t, p, q)
      BY <2>4, <2>5 DEF InLine
    <3>3. Shown(h, t, p, q, X)
      BY <3>1, <3>2, Stretch
    <3> QED BY <3>3 DEF Shown, s
  <2> QED BY <2>2, <2>3, <2>6 DEF p
<1>10. Between(a, h, e, K, X)
  <2>1. a \in [1..K -> Seq(X)]
    <3>1. a = [k \in 1..K |-> a[k]]
      BY <1>7
    <3> QED BY <1>9, <3>1
  <2> QED BY <1>9, <2>1 DEF Between
<1>11. Cut([k \in 0..K |-> IF e[k] <= Len(t) THEN h[e[k] + 1] ELSE <<>>], a, X, K)
  <2>1. "LF" \in X /\ Ends(e, LineEnds(t), Len(t)) /\ K = Cardinality(LineEnds(t))
    BY <1>1 DEF K, E
  <2> QED BY <1>8, <1>10, <2>1, CutBy
<1>12. w[0] = WithoutCR(Unix(t))
  <2>1. 0 \in 0..K /\ e[0] <= n /\ 0 + 1 = 1
    BY <1>3, <1>4
  <2>2. w[0] = h[1]
    BY <1>4, <2>1
  <2> QED BY <1>2, <2>2
<1>13. Cut(w, a, X, K)
  BY <1>11
<1> HIDE DEF w
<1> QED BY <1>12, <1>13 DEF a, K, E

\* The lines of a text are as many as can be taken off.
LEMMA TotalIs ==
    ASSUME NEW X, NEW t \in Seq(X), "LF" \in X
    PROVE  LineTotal(t) = Cardinality(LineEnds(t)) /\ LineTotal(t) \in Nat
<1> DEFINE n == Len(t)  K == Cardinality(LineEnds(t))
<1>1. PICK e : Ends(e, LineEnds(t), Len(t))
  BY LinesAre
<1>2. n \in Nat
  BY LenProperties
<1>3. K \in Nat /\ e \in [0..K -> 0..(n + 1)] /\ \A k \in 1..K : e[k - 1] < e[k]
  BY <1>1 DEF Ends
<1>4. \E w, a : /\ Cut(w, a, X, K) /\ w[0] = t
                /\ \A k \in 0..(K - 1) : w[k] # <<>> /\ e[k] < Len(t)
  BY <1>1, TextCut
<1> HIDE DEF K
<1>5. PICK w, a : /\ Cut(w, a, X, K) /\ w[0] = t
                  /\ \A k \in 0..(K - 1) : w[k] # <<>> /\ e[k] < n
  BY <1>4
<1>6. \A m \in Nat : Rest(t, m) = IF m <= K THEN w[m] ELSE <<>>
  <2> SUFFICES ASSUME NEW m \in Nat PROVE Rest(t, m) = IF m <= K THEN w[m] ELSE <<>>
    OBVIOUS
  <2>1. Cut(w, a, X, K) /\ w[0] = t
    BY <1>5
  <2>2. Rest(w[0], m) = IF m <= K THEN w[m] ELSE <<>>
    BY <1>3, <2>1, RestIs
  <2> QED BY <2>1, <2>2
<1>7. w[K] = <<>>
  BY <1>5 DEF Cut
<1>8. \A m \in Nat : Rest(t, m) = <<>> <=> m >= K
  <2> SUFFICES ASSUME NEW m \in Nat PROVE Rest(t, m) = <<>> <=> m >= K
    OBVIOUS
  <2>1. CASE m < K
    <3> m \in 0..(K - 1) /\ m <= K /\ ~(m >= K)
      BY <1>3, <2>1
    <3> QED BY <1>5, <1>6
  <2>2. CASE m = K
    BY <1>3, <1>6, <1>7, <2>2
  <2>3. CASE m > K
    BY <1>3, <1>6, <2>3
  <2> QED BY <1>3, <2>1, <2>2, <2>3
<1>9. K <= n
  <2> HIDE DEF n
  <2> DEFINE S == {k \in 0..(K - 1) : e[k] >= k}
  <2>1. CASE K = 0
    BY <1>2, <2>1
  <2>2. CASE K # 0
    <3>1. 0 \in S
      BY <1>3, <2>2
    <3>2. ASSUME NEW k \in 0..((K - 1) - 1), k \in S PROVE k + 1 \in S
      <4>1. k + 1 \in 1..K /\ (k + 1) - 1 = k /\ k + 1 \in 0..K /\ k \in 0..K /\ k + 1 \in 0..(K - 1)
        BY <1>3
      <4>2. e[k] < e[k + 1] /\ e[k] \in Nat /\ e[k + 1] \in Nat /\ e[k] >= k
        BY <1>3, <3>2, <4>1
      <4> QED BY <4>1, <4>2
    <3>3. K - 1 \in Nat
      BY <1>3, <2>2
    <3> HIDE DEF S
    <3>4. 0..(K - 1) \subseteq S
      BY <3>1, <3>2, <3>3, Upwards
    <3>5. K - 1 \in 0..(K - 1) /\ K - 1 \in 0..K
      BY <1>3, <3>3
    <3>6. e[K - 1] >= K - 1 /\ e[K - 1] < n /\ e[K - 1] \in 0..(n + 1)
      BY <1>3, <1>5, <3>4, <3>5 DEF S
    <3> QED BY <1>2, <1>3, <3>6
  <2> QED BY <2>1, <2>2
<1>10. LineTotal(t) = K
  <2> DEFINE T == {m \in 0..n : Rest(t, m) = <<>>}
  <2> HIDE DEF n
  <2>1. K \in T /\ \A m \in T : m >= K
    BY <1>2, <1>3, <1>8, <1>9
  <2>2. T \subseteq Nat
    BY <1>2
  <2>3. LineTotal(t) = Min(T)
    BY DEF LineTotal, n
  <2> HIDE DEF T
  <2>4. Min(T) \in T /\ Min(T) <= K
    BY <2>1, <2>2, MinIs
  <2>5. Min(T) \in Nat /\ Min(T) >= K
    BY <2>1, <2>2, <2>4
  <2> QED BY <1>3, <2>3, <2>4, <2>5
<1> QED BY <1>3, <1>10 DEF K

\* What a sequence begins with is a prefix.
LEMMA PrefixBy ==
    ASSUME NEW X, NEW s \in Seq(X), NEW z \in Seq(X)
    PROVE  IsPrefix(s, s \o z)
<1> DEFINE l == Len(s)  r == s \o z
<1>1. l \in Nat /\ Len(z) \in Nat
  BY LenProperties
<1>2. Len(r) = l + Len(z)
  BY Behind
<1>3. SubSeq(s, 1, l) = SubSeq(r, 1, l)
  <2>1. CASE l = 0
    <3> HIDE DEF l, r
    <3>1. SubSeq(s, 1, 0) = <<>> /\ SubSeq(r, 1, 0) = <<>>
      BY SubSeqEmpty
    <3> QED BY <2>1, <3>1
  <2>2. CASE l # 0
    <3>1. 1 \in 1..l /\ l \in 1..l
      BY <1>1, <2>2
    <3> QED BY <3>1, SubSeqOfConcat1
  <2> QED BY <2>1, <2>2
<1> HIDE DEF l, r
<1>4. l <= Len(r)
  BY <1>1, <1>2
<1> QED BY <1>3, <1>4 DEF IsPrefix, l, r

\* The lines from one to another, each with a line feed, are what the text
\* begins with there.
LEMMA LinesBegin ==
    ASSUME NEW X, "LF" \in X, NEW K \in Nat, NEW w, NEW a, Cut(w, a, X, K),
           NEW o \in Nat, NEW m \in 0..K
    PROVE  LET lines == SubSeq(a, o + 1, m)
           IN  IsPrefix(FlattenSeq([k \in DOMAIN lines |-> Append(lines[k], "LF")]),
                        Append(Rest(w[0], o), "LF"))
<1> DEFINE lines == SubSeq(a, o + 1, m)  q == Len(lines)  F == <<"LF">>
           ss == [k \in DOMAIN lines |-> Append(lines[k], "LF")]
           R == Append(Rest(w[0], o), "LF")
<1>1. /\ w \in [0..K -> Seq(X)] /\ a \in [1..K -> Seq(X)]
      /\ \A k \in 1..K : w[k - 1] = a[k] \o (F \o w[k]) \/ (k = K /\ w[k - 1] = a[k])
  BY DEF Cut
<1>2. Rest(w[0], o) = IF o <= K THEN w[o] ELSE <<>>
  BY RestIs
<1>3. F \in Seq(X)
  OBVIOUS
<1>4. ASSUME NEW s \in Seq(X) PROVE Append(s, "LF") = s \o F /\ s \o F \in Seq(X)
  <2>1. Append(s, "LF") = s \o F
    BY AppendIsConcat
  <2>2. s \o F \in Seq(X)
    BY <1>3, ConcatProperties
  <2> QED BY <2>1, <2>2
<1>5. /\ lines \in Seq(Seq(X)) /\ q = (IF o + 1 <= m THEN m - o ELSE 0) /\ q \in Nat
      /\ DOMAIN lines = 1..q /\ \A k \in 1..q : lines[k] = a[o + k] /\ o + k \in 1..K /\ o + k <= m
  <2> DEFINE p == o + 1  V == Seq(X)
  <2>1. p \in Int /\ m \in Int /\ \A i \in p..m : a[i] \in V
    BY <1>1
  <2>a. p = o + 1
    OBVIOUS
  <2> HIDE DEF p, V
  <2>2. /\ SubSeq(a, p, m) \in Seq(V)
        /\ Len(SubSeq(a, p, m)) = IF p <= m THEN m - p + 1 ELSE 0
        /\ \A i \in 1..(m - p + 1) : SubSeq(a, p, m)[i] = a[p + i - 1]
    BY <2>1, SubSeqProperties
  <2>3. lines = SubSeq(a, p, m)
    BY DEF p
  <2> HIDE DEF lines
  <2>4. lines \in Seq(V) /\ q \in Nat /\ DOMAIN lines = 1..q
    BY <2>2, <2>3, LenProperties
  <2>5. q = IF o + 1 <= m THEN m - o ELSE 0
    BY <2>1, <2>2, <2>3, <2>a
  <2> HIDE DEF q
  <2>6. ASSUME NEW k \in 1..q PROVE lines[k] = a[o + k] /\ o + k \in 1..K /\ o + k <= m
    <3>1. k \in 1..(m - p + 1) /\ p + k - 1 = o + k /\ o + k \in 1..K /\ o + k <= m
      BY <2>1, <2>5, <2>a
    <3> QED BY <2>2, <2>3, <3>1
  <2> QED BY <2>4, <2>5, <2>6 DEF V
<1> HIDE DEF lines, q
<1>6. \A k \in 1..q : ss[k] = a[o + k] \o F /\ ss[k] \in Seq(X) /\ a[o + k] \in Seq(X)
  <2> SUFFICES ASSUME NEW k \in 1..q
               PROVE  ss[k] = a[o + k] \o F /\ ss[k] \in Seq(X) /\ a[o + k] \in Seq(X)
    OBVIOUS
  <2>1. a[o + k] \in Seq(X)
    BY <1>1, <1>5
  <2>2. ss[k] = Append(a[o + k], "LF")
    BY <1>5
  <2> QED BY <1>4, <2>1, <2>2
<1>7. ss \in Seq(Seq(X)) /\ Len(ss) = q
  <2>1. ss = [k \in 1..q |-> ss[k]]
    BY <1>5
  <2>2. \A k \in 1..q : ss[k] \in Seq(X)
    BY <1>6
  <2> HIDE DEF ss
  <2> DEFINE V == Seq(X)
  <2>3. \A k \in 1..q : ss[k] \in V
    BY <2>2
  <2>4. q \in Nat
    BY <1>5
  <2> HIDE DEF V
  <2>5. ss \in [1..q -> V]
    BY <2>1, <2>3
  <2>6. ss \in Seq(V) /\ Len(ss) = q
    BY <2>4, <2>5
  <2> QED BY <2>6 DEF V
<1> HIDE DEF ss
<1>8. PICK f \in [0..q -> Seq(X)] : /\ f[0] = <<>> /\ FlattenSeq(ss) = f[q]
                                    /\ \A i \in 1..q : f[i] = f[i - 1] \o ss[i]
  <2>1. PICK f \in [0..Len(ss) -> Seq(X)] : /\ f[0] = <<>> /\ FlattenSeq(ss) = f[Len(ss)]
                                            /\ \A i \in 1..Len(ss) : f[i] = f[i - 1] \o ss[i]
    BY <1>7, Flattened
  <2> QED BY <1>7, <2>1
<1>9. Rest(w[0], o) \in Seq(X)
  <2>1. <<>> \in Seq(X)
    OBVIOUS
  <2>2. o <= K => o \in 0..K
    OBVIOUS
  <2> QED BY <1>1, <1>2, <2>1, <2>2
<1>10. R \in Seq(X) /\ R = Rest(w[0], o) \o F
  BY <1>4, <1>9
<1>a. q # 0 => o < K /\ Rest(w[0], o) = w[o]
  BY <1>2, <1>5
<1> HIDE DEF R, F
<1> DEFINE Goes(j, z) == Cat(f[j], z) = R /\ (o + j < K => z = Cat(w[o + j], F))
           S == {j \in 0..q : \E z \in Seq(X) : Goes(j, z)}
<1>11. 0 \in S
  <2>1. Cat(<<>>, R) = R
    BY <1>10, ConcatEmptySeq DEF Cat
  <2>2. o < K => R = Cat(w[o], F)
    <3>1. o < K => o <= K
      OBVIOUS
    <3> QED BY <1>2, <1>10, <3>1 DEF Cat
  <2>3. Goes(0, R)
    BY <1>8, <2>1, <2>2
  <2>4. 0 \in 0..q /\ R \in Seq(X)
    BY <1>5, <1>10
  <2> HIDE DEF Goes
  <2> QED BY <2>3, <2>4
<1>12. ASSUME NEW j \in 0..(q - 1), j \in S PROVE j + 1 \in S
  <2> DEFINE k == o + (j + 1)  b == a[k]  s == f[j]  u == ss[j + 1]
  <2>1. /\ j + 1 \in 1..q /\ (j + 1) - 1 = j /\ j \in 0..q /\ j + 1 \in 0..q
        /\ k \in 1..K /\ k - 1 = o + j /\ o + j < K /\ k \in 0..K /\ (k = K => ~(k < K))
    BY <1>5
  <2>2. PICK z \in Seq(X) : Cat(s, z) = R /\ (o + j < K => z = Cat(w[o + j], F))
    BY <1>12
  <2>3. z = Cat(w[k - 1], F)
    BY <2>1, <2>2
  <2>4. b \in Seq(X) /\ s \in Seq(X) /\ u \in Seq(X) /\ u = Cat(b, F) /\ f[j + 1] = Cat(s, u) /\ w[k] \in Seq(X)
    BY <1>1, <1>6, <1>8, <2>1 DEF Cat
  <2>5. w[k - 1] = Cat(b, Cat(F, w[k])) \/ (k = K /\ w[k - 1] = b)
    BY <1>1, <2>1 DEF Cat
  <2> HIDE DEF b, s, u, k
  <2>6. \E y \in Seq(X) : Cat(u, y) = z /\ (k < K => y = Cat(w[k], F))
    <3>1. CASE w[k - 1] = Cat(b, Cat(F, w[k]))
      <4> DEFINE y == Cat(w[k], F)  v == Cat(F, w[k])
      <4>1. y \in Seq(X) /\ v \in Seq(X)
        BY <1>3, <2>4, ConcatProperties DEF Cat
      <4>2. Cat(Cat(b, F), y) = Cat(b, Cat(F, y))
        <5> HIDE DEF y
        <5> QED BY <1>3, <2>4, <4>1, Associates
      <4>3. Cat(Cat(F, w[k]), F) = Cat(F, Cat(w[k], F))
        BY <1>3, <2>4, Associates
      <4>4. Cat(Cat(b, v), F) = Cat(b, Cat(v, F))
        <5> HIDE DEF v
        <5> QED BY <1>3, <2>4, <4>1, Associates
      <4>5. Cat(u, y) = z
        BY <2>3, <2>4, <3>1, <4>2, <4>3, <4>4
      <4> QED BY <4>1, <4>5
    <3>2. CASE k = K /\ w[k - 1] = b
      <4>1. Cat(u, <<>>) = u
        BY <2>4, ConcatEmptySeq DEF Cat
      <4>2. u = z /\ ~(k < K)
        BY <2>1, <2>3, <2>4, <3>2
      <4>3. <<>> \in Seq(X)
        OBVIOUS
      <4> QED BY <4>1, <4>2, <4>3
    <3> QED BY <2>5, <3>1, <3>2
  <2>7. PICK y \in Seq(X) : Cat(u, y) = z /\ (k < K => y = Cat(w[k], F))
    BY <2>6
  <2>8. Cat(Cat(s, u), y) = Cat(s, Cat(u, y))
    BY <2>4, Associates
  <2>9. Goes(j + 1, y)
    <3>1. Cat(f[j + 1], y) = R
      BY <2>2, <2>4, <2>7, <2>8
    <3> QED BY <2>7, <3>1 DEF k
  <2> HIDE DEF Goes
  <2> QED BY <2>1, <2>9
<1> HIDE DEF S
<1>13. 0..q \subseteq S
  BY <1>5, <1>11, <1>12, Upwards
<1>14. PICK z \in Seq(X) : Cat(f[q], z) = R
  <2> q \in S
    BY <1>5, <1>13
  <2> QED BY DEF S
<1>15. IsPrefix(FlattenSeq(ss), R)
  <2>1. f[q] \in Seq(X)
    BY <1>5, <1>8
  <2>2. IsPrefix(f[q], f[q] \o z)
    BY <2>1, PrefixBy
  <2> QED BY <1>8, <1>14, <2>2 DEF Cat
<1> QED BY <1>15 DEF ss, R, lines

\* A set of numbers that ends somewhere has a greatest one.
LEMMA MaxIs ==
    ASSUME NEW n \in Nat, NEW T \in SUBSET (0..n), T # {}
    PROVE  Max(T) \in T /\ \A m \in T : Max(T) >= m
<1> DEFINE D == {d \in 0..n : n - d \in T}
<1>1. D \subseteq Nat /\ D # {}
  <2>1. PICK m \in T : TRUE
    OBVIOUS
  <2>2. m \in 0..n /\ n - m \in 0..n /\ n - (n - m) = m
    <3> m \in 0..n
      OBVIOUS
    <3> QED OBVIOUS
  <2> QED BY <2>1, <2>2
<1>2. PICK d \in D : \A c \in D : d <= c
  <2> HIDE DEF D
  <2> QED BY <1>1, LeastNumber
<1>3. n - d \in T /\ d \in 0..n
  OBVIOUS
<1>4. ASSUME NEW m \in T PROVE n - d >= m
  <2>0. m \in 0..n
    OBVIOUS
  <2>1. n - m \in 0..n /\ n - (n - m) = m
    BY <2>0
  <2>2. n - m \in D
    BY <2>1
  <2>3. d <= n - m
    BY <1>2, <2>2
  <2> QED BY <1>3, <2>0, <2>3
<1>5. \E x \in T : \A m \in T : x >= m
  BY <1>3, <1>4
<1> QED BY <1>5 DEF Max

\* How many lines the text that is shown has, as it is counted again.
LEMMA LinesReadAre ==
    ASSUME NEW X, NEW lines \in Seq(Seq(X))
    PROVE  /\ Len(lines) \in Nat /\ LinesRead(lines) \in Nat /\ LinesRead(lines) >= 1
           /\ LinesRead(lines) > 1 => LinesRead(lines) <= Len(lines)
           /\ lines # <<>> => Len(lines) > 0
           /\ lines # <<>> /\ Last(lines) # <<>> => LinesRead(lines) = Len(lines)
<1> DEFINE n == Len(lines)  T == {1} \cup {i \in DOMAIN lines : lines[i] # <<>>}
<1>1. n \in Nat /\ DOMAIN lines = 1..n /\ (lines # <<>> => n > 0)
  BY LenProperties, EmptySeq
<1>2. LinesRead(lines) = Max(T)
  BY DEF LinesRead
<1>3. 1 \in T /\ \A i \in T : i \in Nat /\ 1 <= i /\ i <= n + 1 /\ (i > 1 => i <= n)
  BY <1>1
<1>4. lines # <<>> /\ Last(lines) # <<>> => n \in T
  <2>1. lines # <<>> => n \in 1..n
    BY <1>1
  <2> QED BY <1>1, <2>1 DEF Last
<1>5. lines # <<>> => \A i \in T : i <= n
  BY <1>1
<1> HIDE DEF T, n
<1>6. Max(T) \in T /\ \A m \in T : Max(T) >= m
  <2>1. n + 1 \in Nat
    BY <1>1
  <2>2. T \in SUBSET (0..(n + 1))
    <3> SUFFICES ASSUME NEW i \in T PROVE i \in 0..(n + 1)
      OBVIOUS
    <3>1. i \in Nat /\ i <= n + 1
      BY <1>3
    <3> QED BY <1>1, <3>1
  <2>3. T # {}
    BY <1>3
  <2> QED BY <2>1, <2>2, <2>3, MaxIs
<1> DEFINE x == Max(T)
<1>7. x \in T /\ (\A m \in T : x >= m)
  BY <1>6
<1>8. LinesRead(lines) = x
  BY <1>2
<1> HIDE DEF x
<1>9. x \in Nat /\ 1 <= x /\ (x > 1 => x <= n)
  BY <1>3, <1>7
<1>10. ASSUME lines # <<>>, Last(lines) # <<>> PROVE x = n
  <2>1. x >= n
    BY <1>4, <1>7, <1>10
  <2>2. x <= n
    BY <1>5, <1>7, <1>10
  <2> QED BY <1>1, <1>9, <2>1, <2>2
<1> QED BY <1>1, <1>8, <1>9, <1>10 DEF n

\* The text has K lines.
Scanned(t, X, K) == K \in Nat /\ ScanLines(t) \in Seq(Seq(X)) /\ Len(ScanLines(t)) = K

\* What it shows are so many of them, and the note is right, to one.
Right(v, o, l, K) ==
    LET note   == MoreLines(v, o, l)
        remain == Max({0, K - o - l})
    IN  /\ Len(v.lines) = Max({0, Min({l, K - o})})
        /\ note > 0 => remain = note + 1
        /\ note = 0 /\ v.lines # <<>> /\ Last(v.lines) # <<>> => remain <= 1

\* What view counts is right, to one.
LEMMA NoteRight ==
    ASSUME NEW X, NEW t, NEW K, Scanned(t, X, K), NEW o \in Nat, NEW l \in Nat, l > 0
    PROVE  Right(readTextFile(t, o, l), o, l, K)
<1> DEFINE all == ScanLines(t)  m == Min({o + l, K})  d == Min({o + l + 1, K})
           lines == SubSeq(all, o + 1, m)  q == Len(lines)
           v == readTextFile(t, o, l)  read == LinesRead(lines)
           note == MoreLines(v, o, l)  remain == Max({0, K - o - l})
<1>0. K \in Nat /\ all \in Seq(Seq(X)) /\ Len(all) = K
  BY DEF Scanned
<1> K \in Nat
  BY <1>0
<1>1. /\ m = IF o + l <= K THEN o + l ELSE K
      /\ d = IF o + l + 1 <= K THEN o + l + 1 ELSE K
      /\ remain = IF 0 >= K - o - l THEN 0 ELSE K - o - l
  <2> DEFINE a == o + l  b == o + l + 1  c == K - o - l  z == 0
  <2>1. a \in Int /\ b \in Int /\ c \in Int /\ z \in Int /\ K \in Int
    OBVIOUS
  <2> HIDE DEF a, b, c, z
  <2>2. Min({a, K}) = IF a <= K THEN a ELSE K
    BY <2>1, OfTwo
  <2>3. Min({b, K}) = IF b <= K THEN b ELSE K
    BY <2>1, OfTwo
  <2>4. Max({z, c}) = IF z >= c THEN z ELSE c
    BY <2>1, OfTwo
  <2> QED BY <2>2, <2>3, <2>4 DEF a, b, c, z
<1>2. Max({0, Min({l, K - o})}) = IF K - o <= 0 THEN 0 ELSE IF l <= K - o THEN l ELSE K - o
  <2> DEFINE c == K - o  x == Min({l, c})  z == 0
  <2>1. l \in Int /\ c \in Int /\ z \in Int
    OBVIOUS
  <2> HIDE DEF c, z
  <2>2. x = IF l <= c THEN l ELSE c
    BY <2>1, OfTwo
  <2> HIDE DEF x
  <2>3. x \in Int
    BY <2>1, <2>2
  <2>4. Max({z, x}) = IF z >= x THEN z ELSE x
    BY <2>1, <2>3, OfTwo
  <2>5. Max({z, x}) = IF c <= z THEN z ELSE IF l <= c THEN l ELSE c
    BY <2>1, <2>2, <2>4 DEF z
  <2> QED BY <2>5 DEF x, c, z
<1>3. v = [lines |-> lines, count |-> o + q + (K - d)]
  BY <1>0 DEF readTextFile
<1> HIDE DEF m, d, remain
<1>4. m \in 0..K
  BY <1>1
<1>5. lines \in Seq(Seq(X)) /\ q = IF o + 1 <= m THEN m - o ELSE 0
  <2> DEFINE p == o + 1  V == Seq(X)
  <2>1. p \in Int /\ m \in Int /\ \A i \in p..m : all[i] \in V
    <3> \A i \in 1..K : all[i] \in V
      BY <1>0, ElementOfSeq
    <3> QED BY <1>4
  <2>2. p = o + 1
    OBVIOUS
  <2> HIDE DEF p, V, all
  <2>3. /\ SubSeq(all, p, m) \in Seq(V)
        /\ Len(SubSeq(all, p, m)) = IF p <= m THEN m - p + 1 ELSE 0
    BY <2>1, SubSeqProperties
  <2>4. p <= m => m - p + 1 = m - o
    BY <2>1, <2>2
  <2> QED BY <2>2, <2>3, <2>4 DEF V
<1> HIDE DEF lines
<1>6. /\ q \in Nat /\ read \in Nat /\ read >= 1 /\ (read > 1 => read <= q)
      /\ (lines # <<>> => q > 0)
      /\ (lines # <<>> /\ Last(lines) # <<>> => read = q)
  BY <1>5, LinesReadAre
<1>7. note = IF read = l /\ o + q + (K - d) > o + read THEN (o + q + (K - d)) - (o + read) ELSE 0
  BY <1>3 DEF MoreLines
<1>8. v.lines = lines
  BY <1>3
<1> HIDE DEF q, read, note, v, all
<1>9. q = IF K - o <= 0 THEN 0 ELSE IF l <= K - o THEN l ELSE K - o
  BY <1>1, <1>5, SMTT(30)
<1>10. note > 0 => remain = note + 1
  <2> SUFFICES ASSUME note > 0 PROVE remain = note + 1
    OBVIOUS
  <2>1. read = l /\ o + q + (K - d) > o + read /\ note = (o + q + (K - d)) - (o + read)
    BY <1>7
  <2>2. K - o > 0
    BY <1>1, <1>6, <1>9, <2>1
  <2>3. q = l
    BY <1>6, <1>9, <2>1, <2>2
  <2> QED BY <1>1, <1>6, <2>1, <2>3
<1>11. ASSUME note = 0, lines # <<>>, Last(lines) # <<>> PROVE remain <= 1
  <2>1. read = q /\ q > 0
    BY <1>6, <1>11
  <2>2. CASE q = l
    BY <1>1, <1>6, <1>7, <1>11, <2>1, <2>2
  <2>3. CASE q # l
    BY <1>1, <1>6, <1>9, <2>1, <2>3
  <2> QED BY <2>2, <2>3
<1>12. Len(v.lines) = Max({0, Min({l, K - o})})
  BY <1>2, <1>8, <1>9 DEF q
<1> QED BY <1>8, <1>10, <1>11, <1>12 DEF v, note, remain, Right

\* What view says of a text.
Tells(r, t) ==
    LET v      == View(r, t)
        note   == MoreLines(v, r.offset, Limit(r))
        remain == Max({0, LineTotal(t) - r.offset - Limit(r)})
    IN  /\ Len(v.lines) = Max({0, Min({Limit(r), LineTotal(t) - r.offset})})
        /\ IsPrefix(FlattenSeq([k \in DOMAIN v.lines |-> Append(v.lines[k], "LF")]),
                    Append(Rest(WithoutCR(Unix(t)), r.offset), "LF"))
        /\ note > 0 => remain = note + 1
        /\ note = 0 /\ v.lines # <<>> /\ Last(v.lines) # <<>> => remain <= 1

\* It is so of every text.
LEMMA ViewIs ==
    ASSUME NEW r, r.offset \in Nat, r.limit \in Nat, NEW t \in Texts
    PROVE  Tells(r, t)
<1> DEFINE X == Chars  K == LineTotal(t)  o == r.offset  l == Limit(r)  all == ScanLines(t)
           m == Min({o + l, Len(all)})
<1>1. {"CR", "LF"} \subseteq X /\ "LF" \in X /\ t \in Seq(X)
  BY TextsAssumption DEF Texts
<1>2. K = Cardinality(LineEnds(t)) /\ K \in Nat
  BY <1>1, TotalIs
<1>3. PICK w : Cut(w, all, X, Cardinality(LineEnds(t))) /\ w[0] = WithoutCR(Unix(t))
  BY <1>1, ShownCut
<1>4. o \in Nat /\ l \in Nat /\ l > 0
  BY DEF Limit, DefaultReadLimit
<1>5. Cut(w, all, X, K)
  BY <1>2, <1>3
<1> HIDE DEF X, K, o, l, all
<1>6. all \in Seq(Seq(X)) /\ Len(all) = K
  <2> DEFINE V == Seq(X)
  <2>1. all \in [1..K -> V]
    BY <1>5 DEF Cut
  <2> HIDE DEF V
  <2>2. all \in Seq(V) /\ Len(all) = K
    BY <1>2, <2>1
  <2> QED BY <2>2 DEF V
<1>7. m \in 0..K
  <2> DEFINE a == o + l
  <2>1. a \in Nat /\ K \in Nat /\ a \in Int /\ K \in Int
    BY <1>2, <1>4
  <2>2. m = Min({a, K})
    BY <1>6
  <2> HIDE DEF a, m
  <2>3. Min({a, K}) = IF a <= K THEN a ELSE K
    BY <2>1, OfTwo
  <2> QED BY <2>1, <2>2, <2>3
<1>8. View(r, t) = readTextFile(t, o, l)
  BY DEF View, o, l
<1>9. readTextFile(t, o, l).lines = SubSeq(all, o + 1, m)
  BY DEF readTextFile, all
<1> DEFINE v == readTextFile(t, o, l)
<1>10. /\ Len(v.lines) = Max({0, Min({l, K - o})})
       /\ MoreLines(v, o, l) > 0 => Max({0, K - o - l}) = MoreLines(v, o, l) + 1
       /\ MoreLines(v, o, l) = 0 /\ v.lines # <<>> /\ Last(v.lines) # <<>> => Max({0, K - o - l}) <= 1
  <2>1. ScanLines(t) \in Seq(Seq(X)) /\ Len(ScanLines(t)) = K
    BY <1>6 DEF all
  <2>2. /\ Scanned(t, X, K) /\ o \in Nat /\ l \in Nat /\ l > 0
    BY <1>2, <1>4, <2>1 DEF Scanned
  <2>3. Right(v, o, l, K)
    BY <2>2, NoteRight
  <2> HIDE DEF v
  <2> QED BY <2>3 DEF Right
<1> HIDE DEF m, v
<1>11. IsPrefix(FlattenSeq([k \in DOMAIN v.lines |-> Append(v.lines[k], "LF")]),
                Append(Rest(WithoutCR(Unix(t)), o), "LF"))
  <2>1. LET lines == SubSeq(all, o + 1, m)
        IN  IsPrefix(FlattenSeq([k \in DOMAIN lines |-> Append(lines[k], "LF")]),
                     Append(Rest(w[0], o), "LF"))
    BY <1>1, <1>2, <1>4, <1>5, <1>7, LinesBegin
  <2>2. v.lines = SubSeq(all, o + 1, m)
    BY <1>9 DEF v
  <2> QED BY <1>3, <2>1, <2>2
<1> QED BY <1>8, <1>10, <1>11 DEF Tells, K, o, l, v

\* A call that shows a file has read one, and never writes.
Viewed ==
    \A c \in Calls :
        Tool(c) = "view" => at[c] \notin {"open", "put"} /\ (at[c] = "record" => base[c] \in Texts)

\* view shows the lines it was asked for, whatever their endings, as far as they
\* go, and its note is right about the lines that remain, to one.
THEOREM ViewIsRight == Spec => []ViewTells
<1>1. Init => Viewed
  BY DEF Init, Viewed
<1>2. TypeOK /\ Viewed /\ [Next]_vars => Viewed'
  <2> SUFFICES ASSUME TypeOK, Viewed, [Next]_vars PROVE Viewed'
    OBVIOUS
  <2>0. job' = job
    BY JobStays
  <2>1. /\ at \in [Calls -> {"new", "stat", "read", "open", "put", "record", "done"}]
        /\ DOMAIN base = Calls /\ job \in Jobs /\ file \in Texts \cup {Absent}
    BY DEF TypeOK
  <2>2. \A d \in Calls : Request(d)' = Request(d) /\ Tool(d)' = Tool(d) /\ Tool(d) = Request(d).tool
    BY <2>0 DEF Request, Tool
  <2>a. \A d \in Calls : Tool(d) = "view" =>
            at[d] \notin {"open", "put"} /\ (at[d] = "record" => base[d] \in Texts)
    BY DEF Viewed
  <2>b. \A d \in Calls : Tool(d)' = Tool(d)
    BY <2>2
  <2> DEFINE Stays(d) == at'[d] = at[d] /\ base'[d] = base[d]
             Good(d)  == at'[d] \notin {"open", "put"} /\ (at'[d] = "record" => base'[d] \in Texts)
  <2>3. ASSUME NEW c \in Calls, \A d \in Calls \ {c} : Stays(d), Tool(c) = "view" => Good(c)
        PROVE  Viewed'
    <3> SUFFICES ASSUME NEW d \in Calls, Tool(d) = "view" PROVE Good(d)
      BY <2>2 DEF Viewed
    <3>1. CASE d = c
      BY <2>3, <3>1
    <3>2. CASE d # c
      <4>1. Stays(d)
        BY <2>3, <3>2
      <4>2. at[d] \notin {"open", "put"} /\ (at[d] = "record" => base[d] \in Texts)
        BY <2>a
      <4> QED BY <4>1, <4>2
    <3> QED BY <3>1, <3>2
  <2>4. ASSUME NEW c \in Calls, Begin(c) \/ ReadSame(c) \/ ReadFails(c) \/ OpenFails(c) \/ PutFails(c) \/ Record(c)
        PROVE  Viewed'
    <3>1. \A d \in Calls \ {c} : Stays(d)
      BY <2>1, <2>4 DEF Begin, ReadSame, ReadFails, OpenFails, PutFails, Record, Answer, Goto
    <3>2. at'[c] \in {"stat", "done"}
      BY <2>1, <2>4 DEF Begin, ReadSame, ReadFails, OpenFails, PutFails, Record, Answer, Goto
    <3> QED BY <2>3, <3>1, <3>2
  <2>5. ASSUME NEW c \in Calls, Stat(c) \/ StatFails(c) PROVE Viewed'
    <3>1. \A d \in Calls \ {c} : Stays(d)
      BY <2>1, <2>5 DEF Stat, StatFails, Proceed, Answer, Goto
    <3>2. ASSUME Tool(c) = "view" PROVE at'[c] \in {"read", "done"}
      <4>1. Request(c).tool = "view"
        BY <2>2, <3>2
      <4>2. NewText(Request(c)) = {}
        BY <4>1 DEF NewText, Creating, Editing
      <4>3. CASE Stat(c)
        BY <2>1, <4>2, <4>3 DEF Stat, Proceed, Answer, Goto
      <4>4. CASE StatFails(c)
        BY <2>1, <3>2, <4>4 DEF StatFails, Answer, Goto
      <4> QED BY <2>5, <4>3, <4>4
    <3> QED BY <2>3, <3>1, <3>2
  <2>6. ASSUME NEW c \in Calls, ReadView(c) PROVE Viewed'
    <3>1. \A d \in Calls \ {c} : Stays(d)
      BY <2>1, <2>6 DEF ReadView, Goto
    <3>2. at'[c] = "record" /\ base'[c] = file /\ file \in Texts
      BY <2>1, <2>6 DEF ReadView, Goto
    <3> QED BY <2>3, <3>1, <3>2
  <2>7. ASSUME NEW c \in Calls, Read(c) PROVE Viewed'
    <3>1. \A d \in Calls \ {c} : Stays(d)
      BY <2>1, <2>7 DEF Read, Proceed, Answer, Goto
    <3>2. Tool(c) # "view"
      BY <2>7 DEF Read
    <3> QED BY <2>3, <3>1, <3>2
  <2>8. ASSUME NEW c \in Calls, Open(c) \/ Put(c) PROVE Viewed'
    <3>1. \A d \in Calls \ {c} : Stays(d)
      BY <2>1, <2>8 DEF Open, Put, Goto
    <3>2. Tool(c) # "view"
      BY <2>8, <2>a DEF Open, Put, Goto
    <3> QED BY <2>3, <3>1, <3>2
  <2>9. CASE UNCHANGED vars
    <3>1. \A d \in Calls : Stays(d)
      BY <2>9 DEF vars
    <3> SUFFICES ASSUME NEW d \in Calls, Tool(d) = "view" PROVE Good(d)
      BY <2>b DEF Viewed
    <3> QED BY <2>a, <3>1
  <2> QED BY <2>4, <2>5, <2>6, <2>7, <2>8, <2>9 DEF Next
<1>3. TypeOK /\ Viewed => ViewTells
  <2> SUFFICES ASSUME TypeOK, Viewed, NEW c \in Calls, at[c] = "record", Tool(c) = "view"
               PROVE  Tells(Request(c), base[c])
    BY DEF ViewTells, Tells
  <2>1. base[c] \in Texts
    BY DEF Viewed
  <2>2. IsRequest(Request(c)) /\ Request(c).tool = "view"
    BY Requested DEF TypeOK, Tool
  <2>3. Request(c).offset \in Nat /\ Request(c).limit \in Nat
    BY <2>2 DEF IsRequest
  <2> QED BY <2>1, <2>3, ViewIs
<1> QED BY <1>1, <1>2, <1>3, TypeCorrect, PTL DEF Spec
=============================================================================
