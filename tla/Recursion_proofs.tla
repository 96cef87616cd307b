-------------------------- MODULE Recursion_proofs --------------------------
(***************************************************************************)
(* Induction over sets of numbers, and what it says of the definitions     *)
(* that walk through a sequence or a set one element at a time: that there *)
(* is such a function, so that the definition is its own equation.  The    *)
(* step of a definition is a function here, not an operator.               *)
(***************************************************************************)
EXTENDS Integers, Sequences, Functions, FiniteSetTheorems, SequenceTheorems, TLAPS

\* A set of numbers that has some has a least one.
LEMMA LeastOf ==
  ASSUME NEW T \in SUBSET Nat, T # {}
  PROVE  \E m \in T : \A k \in T : m <= k
<1>1. PICK m \in T : \A k \in T : ~(<<k, m>> \in OpToRel(<, Nat))
  BY WFMin, NatLessThanWellFounded
<1>2. \A k \in T : ~(k < m)
  BY <1>1 DEF OpToRel
<1> QED BY <1>2

\* A set that has 0 and goes on from each of its numbers has all of them.
LEMMA Induction ==
  ASSUME NEW T, 0 \in T, \A k \in Nat : k \in T => k + 1 \in T
  PROVE  Nat \subseteq T
<1> SUFFICES ASSUME Nat \ T # {} PROVE FALSE
  OBVIOUS
<1>1. PICK m \in Nat \ T : \A k \in Nat \ T : m <= k
  BY LeastOf
<1>2. m - 1 \in Nat /\ m - 1 \in T
  BY <1>1
<1>3. m \in T
  <2>1. (m - 1) + 1 \in T
    BY <1>2
  <2> QED BY <2>1
<1> QED BY <1>1, <1>3

\* g goes up from 0: each value is a step from the one before.
WalksUp(g, n, base, D) == \A i \in 0 .. n : g[i] = IF i = 0 THEN base ELSE D[<<g[i - 1], i>>]

\* A function that is defined from 0 on, each value by the one before.
LEMMA FromTheOneBefore ==
  ASSUME NEW n \in Nat, NEW V, NEW base \in V, NEW D \in [V \X (1 .. n) -> V]
  PROVE  \E g \in [0 .. n -> V] : WalksUp(g, n, base, D)
<1> DEFINE Upto(g, m) == \A i \in 0 .. n : i <= m => g[i] = IF i = 0 THEN base ELSE D[<<g[i - 1], i>>]
           T == {m \in Nat : \E g \in [0 .. n -> V] : Upto(g, m)}
<1>1. 0 \in T
  <2>1. [i \in 0 .. n |-> base] \in [0 .. n -> V] /\ Upto([i \in 0 .. n |-> base], 0)
    OBVIOUS
  <2> QED BY <2>1
<1>2. ASSUME NEW m \in Nat, m \in T PROVE m + 1 \in T
  <2>1. PICK g \in [0 .. n -> V] : Upto(g, m)
    BY <1>2
  <2> DEFINE h == [i \in 0 .. n |-> IF i = 0 THEN base ELSE D[<<g[i - 1], i>>]]
  <2>2. \A i \in 0 .. n : i # 0 => i - 1 \in 0 .. n /\ i \in 1 .. n
    OBVIOUS
  <2>3. h \in [0 .. n -> V]
    BY <2>2
  <2>4. \A i \in 0 .. n : i <= m => h[i] = g[i]
    BY <2>1
  <2>5. Upto(h, m + 1)
    BY <2>2, <2>4
  <2> HIDE DEF h, Upto
  <2> QED BY <2>3, <2>5
<1>3. n \in T
  <2> HIDE DEF T
  <2>1. Nat \subseteq T
    BY <1>1, <1>2, Induction
  <2> QED BY <2>1
<1> QED BY <1>3 DEF WalksUp

\* g goes through the parts of S: its value for a part is that for the part without one of
\* its elements, and a step.
Walks(g, S, base, D, pick) ==
  \A s \in SUBSET S : g[s] = IF s = {} THEN base ELSE D[<<pick[s], g[s \ {pick[s]}]>>]

\* A function of the parts of a finite set, each value by the part without one element.
LEMMA FromThePartBefore ==
  ASSUME NEW S, IsFiniteSet(S), NEW V, NEW base \in V, NEW D \in [S \X V -> V],
         NEW pick \in [(SUBSET S) \ {{}} -> S], \A s \in (SUBSET S) \ {{}} : pick[s] \in s
  PROVE  \E g \in [SUBSET S -> V] : Walks(g, S, base, D, pick)
<1> DEFINE Upto(g, m) ==
             \A s \in SUBSET S : Cardinality(s) <= m
               => g[s] = IF s = {} THEN base ELSE D[<<pick[s], g[s \ {pick[s]}]>>]
           T == {m \in Nat : \E g \in [SUBSET S -> V] : Upto(g, m)}
<1>0. \A s \in SUBSET S : /\ IsFiniteSet(s) /\ Cardinality(s) \in Nat
                          /\ Cardinality(s) = 0 <=> s = {}
  BY FS_Subset, FS_CardinalityType, FS_EmptySet
<1>1. 0 \in T
  <2>1. Upto([s \in SUBSET S |-> base], 0)
    BY <1>0
  <2> QED BY <2>1
<1>2. ASSUME NEW m \in Nat, m \in T PROVE m + 1 \in T
  <2>1. PICK g \in [SUBSET S -> V] : Upto(g, m)
    BY <1>2
  <2> DEFINE h == [s \in SUBSET S |-> IF s = {} THEN base ELSE D[<<pick[s], g[s \ {pick[s]}]>>]]
  <2>2. \A s \in SUBSET S : s # {} => pick[s] \in S /\ s \ {pick[s]} \in SUBSET S
    OBVIOUS
  <2>3. h \in [SUBSET S -> V]
    BY <2>2
  <2>4. \A s \in SUBSET S : Cardinality(s) <= m => h[s] = g[s]
    BY <2>1
  <2>5. \A s \in SUBSET S : s # {} /\ Cardinality(s) <= m + 1 => Cardinality(s \ {pick[s]}) <= m
    <3> SUFFICES ASSUME NEW s \in SUBSET S, s # {}, Cardinality(s) <= m + 1
                 PROVE  Cardinality(s \ {pick[s]}) <= m
      OBVIOUS
    <3>1. Cardinality(s \ {pick[s]}) = Cardinality(s) - 1
      BY <1>0, FS_RemoveElement
    <3> QED BY <1>0, <3>1
  <2>6. Upto(h, m + 1)
    <3> SUFFICES ASSUME NEW s \in SUBSET S, Cardinality(s) <= m + 1, s # {}
                 PROVE  h[s] = D[<<pick[s], h[s \ {pick[s]}]>>]
      OBVIOUS
    <3>1. h[s] = D[<<pick[s], g[s \ {pick[s]}]>>]
      OBVIOUS
    <3>2. h[s \ {pick[s]}] = g[s \ {pick[s]}]
      BY <2>2, <2>4, <2>5
    <3> QED BY <3>1, <3>2
  <2> HIDE DEF h, Upto
  <2> QED BY <2>3, <2>6
<1>3. Cardinality(S) \in T
  <2> HIDE DEF T
  <2>1. Nat \subseteq T
    BY <1>1, <1>2, Induction
  <2> QED BY <1>0, <2>1
<1>4. \A s \in SUBSET S : Cardinality(s) <= Cardinality(S)
  BY FS_Subset
<1>5. PICK g \in [SUBSET S -> V] : Upto(g, Cardinality(S))
  BY <1>3
<1>6. Walks(g, S, base, D, pick)
  BY <1>4, <1>5 DEF Walks
<1> QED BY <1>6

\* The last of some numbers.
Last(s) == CHOOSE x \in s : \A y \in s : x >= y

\* There is one, and from 1 on it is the number they go up to.
LEMMA LastIn ==
  ASSUME NEW n \in Nat, NEW s \in SUBSET (1 .. n), s # {}
  PROVE  Last(s) \in s /\ \A y \in s : Last(s) >= y
<1> DEFINE T == {n - k : k \in s}
<1>1. \A k \in s : k \in 1 .. n /\ n - k \in Nat
  OBVIOUS
<1>2. T \in SUBSET Nat /\ T # {}
  BY <1>1
<1>3. PICK m \in T : \A k \in T : m <= k
  BY <1>2, LeastOf
<1>4. PICK x \in s : m = n - x
  BY <1>3
<1>5. ASSUME NEW y \in s PROVE x >= y
  <2>1. m <= n - y
    BY <1>3
  <2> HIDE DEF T
  <2> QED BY <1>1, <1>4, <2>1
<1> QED BY <1>5 DEF Last

\* The last number up to i is i; without it they go up to the one before.
LEMMA LastNumber ==
  ASSUME NEW i \in Nat, i # 0
  PROVE  Last(1 .. i) = i /\ (1 .. i) \ {i} = 1 .. i - 1
BY DEF Last

\* g goes through the numbers from 1 to n, the last one first.
WalksDown(g, n, base, D) ==
  \A s \in SUBSET (1 .. n) : g[s] = IF s = {} THEN base ELSE D[<<Last(s), g[s \ {Last(s)}]>>]

\* There is such a function.
LEMMA FromTheLastBefore ==
  ASSUME NEW n \in Nat, NEW V, NEW base \in V, NEW D \in [(1 .. n) \X V -> V]
  PROVE  \E g \in [SUBSET (1 .. n) -> V] : WalksDown(g, n, base, D)
<1> DEFINE S    == 1 .. n
           last == [s \in (SUBSET S) \ {{}} |-> Last(s)]
<1>1. /\ \A s \in (SUBSET S) \ {{}} : last[s] = Last(s) /\ last[s] \in s
      /\ last \in [(SUBSET S) \ {{}} -> S]
  <2>1. \A s \in (SUBSET S) \ {{}} : Last(s) \in s /\ Last(s) \in S
    BY LastIn
  <2> QED BY <2>1
<1>2. IsFiniteSet(S)
  BY FS_Interval
<1>3. \E g \in [SUBSET S -> V] : Walks(g, S, base, D, last)
  <2> HIDE DEF last, S
  <2>1. D \in [S \X V -> V]
    BY DEF S
  <2> QED BY <1>1, <1>2, <2>1, FromThePartBefore
<1> QED BY <1>1, <1>3 DEF Walks, WalksDown

\* Up to a number there is it, and what is up to the one before.
LEMMA UpTo ==
  ASSUME NEW n \in Nat, NEW i \in 1 .. n
  PROVE  /\ 1 .. i \in SUBSET (1 .. n) /\ 1 .. i # {} /\ Last(1 .. i) = i
         /\ (1 .. i) \ {i} = 1 .. i - 1 /\ 1 .. i - 1 \in SUBSET (1 .. n)
BY LastNumber

\* One, two and three in a row.
LEMMA Appended ==
  ASSUME NEW S, NEW a \in S, NEW b \in S, NEW c \in S
  PROVE  Append(<<>>, a) = <<a>> /\ Append(<<a>>, b) = <<a, b>> /\ Append(<<a, b>>, c) = <<a, b, c>>
<1> DEFINE one == <<a>>
           two == <<a, b>>
           three == <<a, b, c>>
<1>1. /\ <<>> \in Seq(S) /\ Len(<<>>) = 0
      /\ one \in Seq(S) /\ Len(one) = 1 /\ one[1] = a
      /\ two \in Seq(S) /\ Len(two) = 2 /\ two[1] = a /\ two[2] = b
      /\ three \in Seq(S) /\ Len(three) = 3 /\ three[1] = a /\ three[2] = b /\ three[3] = c
  OBVIOUS
<1> HIDE DEF one, two, three
<1>2. Append(<<>>, a) = one
  <2>1. Append(<<>>, a) \in Seq(S) /\ Len(Append(<<>>, a)) = 1 /\ Append(<<>>, a)[1] = a
    BY <1>1, AppendProperties
  <2> QED BY <1>1, <2>1, SeqEqual
<1>3. Append(one, b) = two
  <2>1. Append(one, b) \in Seq(S) /\ Len(Append(one, b)) = 2 /\ Append(one, b)[1] = a /\ Append(one, b)[2] = b
    <3>1. /\ Append(one, b) \in Seq(S) /\ Len(Append(one, b)) = Len(one) + 1 /\ Append(one, b)[Len(one) + 1] = b
          /\ \A i \in 1 .. Len(one) : Append(one, b)[i] = one[i]
      <4>1. one \in Seq(S)
        BY <1>1
      <4> QED BY <4>1, AppendProperties
    <3> QED BY <1>1, <3>1
  <2> QED BY <1>1, <2>1, SeqEqual
<1>4. Append(two, c) = three
  <2>1. /\ Append(two, c) \in Seq(S) /\ Len(Append(two, c)) = 3
        /\ Append(two, c)[1] = a /\ Append(two, c)[2] = b /\ Append(two, c)[3] = c
    <3>1. /\ Append(two, c) \in Seq(S) /\ Len(Append(two, c)) = Len(two) + 1 /\ Append(two, c)[Len(two) + 1] = c
          /\ \A i \in 1 .. Len(two) : Append(two, c)[i] = two[i]
      <4>1. two \in Seq(S)
        BY <1>1
      <4> QED BY <4>1, AppendProperties
    <3> QED BY <1>1, <3>1
  <2> QED BY <1>1, <2>1, SeqEqual
<1> QED BY <1>2, <1>3, <1>4 DEF one, two, three

\* g is for each number below m what it is for base, and for the others a step from a lower one.
GoesDown(g, m, base, B, prev, D) ==
  \A v \in Nat : v < m => g[v] = IF v \in B THEN base[v] ELSE D[<<v, g[prev[v]]>>]

\* The number before one that is not in B is lower.
IsLower(prev, B) == \A v \in Nat : v \notin B => prev[v] < v

\* f goes down to B.
WalksLower(f, base, B, prev, D) == \A v \in Nat : f[v] = IF v \in B THEN base[v] ELSE D[<<v, f[prev[v]]>>]

\* Two such functions are the same below m.
LEMMA GoesDownOneWay ==
  ASSUME NEW m \in Nat, NEW base, NEW B \in SUBSET Nat, NEW prev \in [Nat -> Nat], NEW D,
         IsLower(prev, B),
         NEW g, NEW h, GoesDown(g, m, base, B, prev, D), GoesDown(h, m, base, B, prev, D)
  PROVE  \A v \in Nat : v < m => g[v] = h[v]
<1> DEFINE W == {v \in Nat : v < m /\ g[v] # h[v]}
<1> SUFFICES ASSUME W # {} PROVE FALSE
  OBVIOUS
<1>1. PICK v \in W : \A k \in W : v <= k
  BY LeastOf
<1>2. v \in B
  <2> SUFFICES ASSUME v \notin B PROVE FALSE
    OBVIOUS
  <2>1. prev[v] \in Nat /\ prev[v] < v
    BY DEF IsLower
  <2>2. g[prev[v]] = h[prev[v]]
    BY <1>1, <2>1
  <2> QED BY <2>2 DEF GoesDown
<1> QED BY <1>2 DEF GoesDown

\* A function of the numbers, each value by that of a lower number.
LEMMA FromALowerOne ==
  ASSUME NEW V, NEW base \in [Nat -> V], NEW B \in SUBSET Nat, NEW prev \in [Nat -> Nat], NEW D \in [Nat \X V -> V],
         IsLower(prev, B)
  PROVE  \E f \in [Nat -> V] : WalksLower(f, base, B, prev, D)
<1> DEFINE Upto(g, m) == GoesDown(g, m, base, B, prev, D)
           T == {m \in Nat : \E g \in [Nat -> V] : Upto(g, m)}
           c == [m \in Nat |-> CHOOSE g \in [Nat -> V] : Upto(g, m)]
           f == [v \in Nat |-> c[v + 1][v]]
<1>1. 0 \in T
  <2>1. Upto(base, 0)
    BY DEF GoesDown
  <2> QED BY <2>1
<1>2. ASSUME NEW m \in Nat, m \in T PROVE m + 1 \in T
  <2>1. PICK g \in [Nat -> V] : Upto(g, m)
    BY <1>2
  <2> DEFINE h == [v \in Nat |-> IF v \in B THEN base[v] ELSE D[<<v, g[prev[v]]>>]]
  <2>2. h \in [Nat -> V]
    OBVIOUS
  <2>3. \A v \in Nat : v < m => h[v] = g[v]
    BY <2>1 DEF GoesDown
  <2>4. \A v \in Nat : v < m + 1 /\ v \notin B => prev[v] \in Nat /\ prev[v] < m
    BY DEF IsLower
  <2>5. Upto(h, m + 1)
    BY <2>3, <2>4 DEF GoesDown
  <2> HIDE DEF h, Upto
  <2> QED BY <2>2, <2>5
<1>3. \A m \in Nat : c[m] \in [Nat -> V] /\ Upto(c[m], m)
  <2>1. \A m \in Nat : \E g \in [Nat -> V] : Upto(g, m)
    <3> HIDE DEF Upto
    <3>1. Nat \subseteq T
      <4> HIDE DEF T
      <4> QED BY <1>1, <1>2, Induction
    <3> QED BY <3>1
  <2> HIDE DEF Upto
  <2> QED BY <2>1
<1>4. ASSUME NEW v \in Nat PROVE f[v] = IF v \in B THEN base[v] ELSE D[<<v, f[prev[v]]>>]
  <2> HIDE DEF c
  <2>1. Upto(c[v + 1], v + 1) /\ f[v] = c[v + 1][v]
    BY <1>3
  <2>2. c[v + 1][v] = IF v \in B THEN base[v] ELSE D[<<v, c[v + 1][prev[v]]>>]
    BY <2>1 DEF GoesDown
  <2>3. ASSUME v \notin B PROVE c[v + 1][prev[v]] = f[prev[v]]
    <3> DEFINE u == prev[v]
    <3>1. u \in Nat /\ u < v
      BY <2>3 DEF IsLower
    <3> HIDE DEF u
    <3>2. Upto(c[u + 1], u + 1) /\ f[u] = c[u + 1][u]
      BY <1>3, <3>1
    <3>3. Upto(c[v + 1], u + 1)
      BY <2>1, <3>1 DEF GoesDown
    <3> HIDE DEF f, Upto
    <3>4. \A k \in Nat : k < u + 1 => c[v + 1][k] = c[u + 1][k]
      <4> DEFINE a == c[v + 1]
                 b == c[u + 1]
                 m == u + 1
      <4>1. m \in Nat /\ GoesDown(a, m, base, B, prev, D) /\ GoesDown(b, m, base, B, prev, D)
        BY <3>1, <3>2, <3>3 DEF Upto
      <4> HIDE DEF a, b, m
      <4>2. \A k \in Nat : k < m => a[k] = b[k]
        BY <4>1, GoesDownOneWay
      <4> QED BY <4>2 DEF a, b, m
    <3>5. c[v + 1][u] = f[u]
      BY <3>1, <3>2, <3>4
    <3> QED BY <3>5 DEF u
  <2> HIDE DEF f
  <2> QED BY <2>1, <2>2, <2>3
<1>5. f \in [Nat -> V]
  BY <1>3
<1> HIDE DEF f
<1> QED BY <1>4, <1>5 DEF WalksLower

----------------------------------------------------------------------------
\* A number in groups of five bits: what is left of it is smaller.
LEMMA FiveBits ==
  /\ \A v \in Nat : v < 32 => v % 32 = v /\ (32 + v) % 32 = v
  /\ \A v \in Nat : /\ v \div 32 \in Nat /\ v % 32 \in Nat /\ v % 32 < 32
                    /\ v = (v \div 32) * 32 + (v % 32)
                    /\ v >= 32 => v \div 32 < v
<1>1. ASSUME NEW v \in Nat, v < 32
      PROVE  v % 32 = v /\ (32 + v) % 32 = v
  <2>1. v % 32 = v
    BY <1>1
  <2>2. (32 + v) % 32 = v
    BY <1>1
  <2> QED BY <2>1, <2>2
<1>2. ASSUME NEW v \in Nat
      PROVE  /\ v \div 32 \in Nat /\ v % 32 \in Nat /\ v % 32 < 32
             /\ v = (v \div 32) * 32 + (v % 32)
             /\ v >= 32 => v \div 32 < v
  OBVIOUS
<1> QED BY <1>1, <1>2

----------------------------------------------------------------------------
(* Sums and counts over a finite set.                                      *)

\* What holds of no element, and goes on with one more, holds of a finite set.
LEMMA PartByPart ==
  ASSUME NEW S, IsFiniteSet(S), NEW P, {} \in P,
         \A s \in SUBSET S : \A x \in S : s \in P /\ x \notin s => s \union {x} \in P
  PROVE  S \in P
<1> DEFINE T == {m \in Nat : \A s \in SUBSET S : Cardinality(s) = m => s \in P}
<1>0. \A s \in SUBSET S : /\ IsFiniteSet(s) /\ Cardinality(s) \in Nat
                          /\ Cardinality(s) = 0 <=> s = {}
  BY FS_Subset, FS_CardinalityType, FS_EmptySet
<1>1. 0 \in T
  BY <1>0
<1>2. ASSUME NEW m \in Nat, m \in T PROVE m + 1 \in T
  <2> SUFFICES ASSUME NEW s \in SUBSET S, Cardinality(s) = m + 1 PROVE s \in P
    OBVIOUS
  <2>1. s # {}
    BY <1>0
  <2>2. PICK x \in s : TRUE
    BY <2>1
  <2>3. Cardinality(s \ {x}) = m /\ s \ {x} \in SUBSET S /\ x \in S
    <3>1. Cardinality(s \ {x}) = Cardinality(s) - 1
      BY <1>0, <2>2, FS_RemoveElement
    <3> QED BY <2>2, <3>1
  <2>4. s \ {x} \in P
    BY <1>2, <2>3
  <2>5. (s \ {x}) \union {x} = s /\ x \notin s \ {x}
    BY <2>2
  <2> QED BY <2>3, <2>4, <2>5
<1> HIDE DEF T
<1>3. Nat \subseteq T
  BY <1>1, <1>2, Induction
<1> USE DEF T
<1> QED BY <1>0, <1>3

AnyOf(s) == CHOOSE x \in s : TRUE

\* g is the sum of f over each part of S, one element and then the others.
SumsUp(g, f, S) == \A s \in SUBSET S : g[s] = IF s = {} THEN 0 ELSE f[AnyOf(s)] + g[s \ {AnyOf(s)}]

\* There is such a g, and the library's sum is its value for S.
SumWalk(f, S) == \E g \in [SUBSET S -> Int] : SumsUp(g, f, S) /\ SumFunctionOnSet(f, S) = g[S]

LEMMA SumWalks ==
  ASSUME NEW T, NEW f \in [T -> Int], NEW S \in SUBSET T, IsFiniteSet(S)
  PROVE  SumWalk(f, S)
<1> DEFINE D == [x \in S \X Int |-> f[x[1]] + x[2]]
           pick == [s \in (SUBSET S) \ {{}} |-> AnyOf(s)]
           step(h) == [s \in SUBSET S |-> IF s = {} THEN 0 ELSE f[AnyOf(s)] + h[s \ {AnyOf(s)}]]
           iter == CHOOSE h : h = step(h)
<1>1. /\ pick \in [(SUBSET S) \ {{}} -> S] /\ \A s \in (SUBSET S) \ {{}} : pick[s] \in s /\ pick[s] = AnyOf(s)
  <2>1. \A s \in (SUBSET S) \ {{}} : AnyOf(s) \in s /\ AnyOf(s) \in S
    BY DEF AnyOf
  <2> QED BY <2>1
<1>2. D \in [S \X Int -> Int] /\ \A x \in S, v \in Int : D[<<x, v>>] = f[x] + v
  <2>1. \A x \in S : f[x] \in Int
    OBVIOUS
  <2> QED BY <2>1
<1>3. PICK g \in [SUBSET S -> Int] : Walks(g, S, 0, D, pick)
  <2> HIDE DEF D, pick
  <2>1. 0 \in Int
    OBVIOUS
  <2> QED BY <1>1, <1>2, <2>1, FromThePartBefore
<1>4. SumsUp(g, f, S)
  <2> SUFFICES ASSUME NEW s \in SUBSET S, s # {} PROVE g[s] = f[AnyOf(s)] + g[s \ {AnyOf(s)}]
    BY <1>3 DEF SumsUp, Walks
  <2> HIDE DEF D, pick
  <2>1. pick[s] = AnyOf(s) /\ AnyOf(s) \in S /\ g[s \ {AnyOf(s)}] \in Int
    BY <1>1, <1>3
  <2>2. g[s] = D[<<AnyOf(s), g[s \ {AnyOf(s)}]>>]
    BY <1>3, <2>1 DEF Walks
  <2> QED BY <1>2, <2>1, <2>2
<1>5. g = step(g)
  BY <1>3, <1>4 DEF SumsUp
<1>6. iter = step(iter)
  <2> HIDE DEF step
  <2> QED BY <1>5
<1>7. iter[S] = g[S]
  <2> DEFINE N == {m \in Nat : \A s \in SUBSET S : Cardinality(s) = m => iter[s] = g[s]}
  <2>0. \A s \in SUBSET S : /\ IsFiniteSet(s) /\ Cardinality(s) \in Nat
                            /\ Cardinality(s) = 0 <=> s = {}
    BY FS_Subset, FS_CardinalityType, FS_EmptySet
  <2>1. \A s \in SUBSET S : iter[s] = step(iter)[s]
    <3> HIDE DEF step, iter
    <3> QED BY <1>6
  <2> HIDE DEF iter
  <2>2. 0 \in N
    BY <1>4, <2>0, <2>1 DEF SumsUp
  <2>3. ASSUME NEW m \in Nat, m \in N PROVE m + 1 \in N
    <3> SUFFICES ASSUME NEW s \in SUBSET S, Cardinality(s) = m + 1 PROVE iter[s] = g[s]
      OBVIOUS
    <3>1. s # {} /\ AnyOf(s) \in s
      BY <2>0 DEF AnyOf
    <3> DEFINE t == s \ {AnyOf(s)}
    <3>2. t \in SUBSET S /\ Cardinality(t) = m
      BY <2>0, <3>1, FS_RemoveElement
    <3>3. iter[t] = g[t]
      <4> HIDE DEF t
      <4> QED BY <2>3, <3>2
    <3>4. iter[s] = f[AnyOf(s)] + iter[t]
      BY <2>1, <3>1
    <3>5. g[s] = f[AnyOf(s)] + g[t]
      BY <1>4, <3>1 DEF SumsUp
    <3> QED BY <3>3, <3>4, <3>5
  <2> HIDE DEF N
  <2>4. Nat \subseteq N
    BY <2>2, <2>3, Induction
  <2>5. Cardinality(S) \in N
    BY <2>0, <2>4
  <2> QED BY <2>5 DEF N
<1>8. SumFunctionOnSet(f, S) = iter[S]
  BY DEF SumFunctionOnSet, FoldFunctionOnSet, MapThenFoldSet, AnyOf
<1> QED BY <1>4, <1>7, <1>8 DEF SumWalk

\* Two such functions are the same where both are.
SumsOf(g, f, S) == g \in [SUBSET S -> Int] /\ SumsUp(g, f, S)

LEMMA SumsAlike ==
  ASSUME NEW T, NEW f \in [T -> Int], NEW S \in SUBSET T, IsFiniteSet(S), NEW g, SumsOf(g, f, S),
         NEW R \in SUBSET S, NEW h, SumsOf(h, f, R)
  PROVE  h[R] = g[R]
<1> USE DEF SumsOf
<1> DEFINE N == {m \in Nat : \A s \in SUBSET R : Cardinality(s) = m => h[s] = g[s]}
<1>0. \A s \in SUBSET R : /\ IsFiniteSet(s) /\ Cardinality(s) \in Nat
                          /\ Cardinality(s) = 0 <=> s = {}
  BY FS_Subset, FS_CardinalityType, FS_EmptySet
<1>2. 0 \in N
  BY <1>0 DEF SumsUp
<1>3. ASSUME NEW m \in Nat, m \in N PROVE m + 1 \in N
  <2> SUFFICES ASSUME NEW s \in SUBSET R, Cardinality(s) = m + 1 PROVE h[s] = g[s]
    OBVIOUS
  <2>1. s # {} /\ AnyOf(s) \in s
    BY <1>0 DEF AnyOf
  <2> DEFINE t == s \ {AnyOf(s)}
  <2>2. t \in SUBSET R /\ Cardinality(t) = m
    <3>1. PICK x \in s : x = AnyOf(s)
      BY <2>1
    <3>2. Cardinality(s \ {x}) = Cardinality(s) - 1
      BY <1>0, FS_RemoveElement
    <3> QED BY <3>1, <3>2
  <2>3. h[t] = g[t]
    <3> HIDE DEF t
    <3> QED BY <1>3, <2>2
  <2>4. h[s] = f[AnyOf(s)] + h[t]
    BY <2>1 DEF SumsUp
  <2>5. g[s] = f[AnyOf(s)] + g[t]
    BY <2>1 DEF SumsUp
  <2> QED BY <2>3, <2>4, <2>5
<1> HIDE DEF N
<1>4. Nat \subseteq N
  BY <1>2, <1>3, Induction
<1>5. Cardinality(R) \in N
  BY <1>0, <1>4
<1> QED BY <1>5 DEF N

\* One function gives the sums over all parts.
HasSums(f, S) == \E g \in [SUBSET S -> Int] : SumsUp(g, f, S) /\ \A s \in SUBSET S : SumFunctionOnSet(f, s) = g[s]

LEMMA SumsOfParts ==
  ASSUME NEW T, NEW f \in [T -> Int], NEW S \in SUBSET T, IsFiniteSet(S)
  PROVE  HasSums(f, S)
<1>1. PICK g \in [SUBSET S -> Int] : SumsUp(g, f, S)
  BY SumWalks DEF SumWalk
<1>2. ASSUME NEW s \in SUBSET S PROVE SumFunctionOnSet(f, s) = g[s]
  <2>1. IsFiniteSet(s) /\ s \in SUBSET T
    BY FS_Subset
  <2>2. PICK h \in [SUBSET s -> Int] : SumsUp(h, f, s) /\ SumFunctionOnSet(f, s) = h[s]
    <3>1. SumWalk(f, s)
      BY <2>1, SumWalks
    <3> QED BY <3>1 DEF SumWalk
  <2>3. SumsOf(g, f, S) /\ SumsOf(h, f, s)
    BY <1>1, <2>2 DEF SumsOf
  <2>4. h[s] = g[s]
    BY <2>3, SumsAlike
  <2> QED BY <2>2, <2>4
<1> QED BY <1>1, <1>2 DEF HasSums

\* A sum is one of its elements and the sum of the others, whichever that is.
LEMMA SumOne ==
  ASSUME NEW T, NEW f \in [T -> Int], NEW S \in SUBSET T, IsFiniteSet(S)
  PROVE  /\ SumFunctionOnSet(f, {}) = 0
         /\ SumFunctionOnSet(f, S) \in Int
         /\ \A x \in S : SumFunctionOnSet(f, S) = f[x] + SumFunctionOnSet(f, S \ {x})
<1>1. PICK g \in [SUBSET S -> Int] : SumsUp(g, f, S) /\ \A s \in SUBSET S : SumFunctionOnSet(f, s) = g[s]
  <2>1. HasSums(f, S)
    BY SumsOfParts
  <2> QED BY <2>1 DEF HasSums
<1> DEFINE Goes(s) == \A x \in s : g[s] = f[x] + g[s \ {x}]
           N == {m \in Nat : \A s \in SUBSET S : Cardinality(s) = m => Goes(s)}
<1>0. \A s \in SUBSET S : /\ IsFiniteSet(s) /\ Cardinality(s) \in Nat
                          /\ Cardinality(s) = 0 <=> s = {}
  BY FS_Subset, FS_CardinalityType, FS_EmptySet
<1>2. 0 \in N
  BY <1>0
<1>3. ASSUME NEW m \in Nat, m \in N PROVE m + 1 \in N
  <2> SUFFICES ASSUME NEW s \in SUBSET S, Cardinality(s) = m + 1, NEW x \in s PROVE g[s] = f[x] + g[s \ {x}]
    OBVIOUS
  <2>1. PICK a \in s : a = AnyOf(s)
    BY DEF AnyOf
  <2>2. g[s] = f[a] + g[s \ {a}]
    BY <1>1, <2>1 DEF SumsUp
  <2>3. CASE x = a
    BY <2>2, <2>3
  <2>4. CASE x # a
    <3> DEFINE t == s \ {a}
               u == s \ {x}
               v == s \ {a, x}
    <3>1. t \in SUBSET S /\ Cardinality(t) = m /\ u \in SUBSET S /\ Cardinality(u) = m /\ v \in SUBSET S
      BY <1>0, FS_RemoveElement
    <3>2. x \in t /\ a \in u /\ t \ {x} = v /\ u \ {a} = v
      BY <2>4
    <3> HIDE DEF t, u, v
    <3>3. g[t] = f[x] + g[v] /\ g[u] = f[a] + g[v]
      BY <1>3, <3>1, <3>2
    <3>4. f[x] \in Int /\ f[a] \in Int /\ g[v] \in Int
      BY <3>1
    <3>5. g[s] = f[a] + g[t]
      BY <2>2 DEF t
    <3>6. g[s] = f[x] + g[u]
      BY <3>3, <3>4, <3>5
    <3> QED BY <3>6 DEF u
  <2> QED BY <2>3, <2>4
<1> HIDE DEF N
<1>4. Nat \subseteq N
  BY <1>2, <1>3, Induction
<1>5. Goes(S)
  <2>1. Cardinality(S) \in N
    BY <1>0, <1>4
  <2> HIDE DEF Goes
  <2> QED BY <2>1 DEF N
<1>6. SumFunctionOnSet(f, {}) = 0
  BY <1>1 DEF SumsUp
<1> QED BY <1>1, <1>5, <1>6

\* The sum over two sets without a common element.
LEMMA SumUnion ==
  ASSUME NEW T, NEW f \in [T -> Int], NEW A \in SUBSET T, NEW B \in SUBSET T, IsFiniteSet(A), IsFiniteSet(B),
         A \intersect B = {}
  PROVE  SumFunctionOnSet(f, A \union B) = SumFunctionOnSet(f, A) + SumFunctionOnSet(f, B)
<1> DEFINE P == {s \in SUBSET B : SumFunctionOnSet(f, A \union s) = SumFunctionOnSet(f, A) + SumFunctionOnSet(f, s)}
<1>1. {} \in P
  <2>1. A \union {} = A /\ SumFunctionOnSet(f, {}) = 0 /\ SumFunctionOnSet(f, A) \in Int
    BY SumOne
  <2> QED BY <2>1
<1>2. ASSUME NEW s \in SUBSET B, NEW x \in B, s \in P, x \notin s PROVE s \union {x} \in P
  <2> DEFINE t == s \union {x}
             u == A \union t
  <2>1. IsFiniteSet(s) /\ IsFiniteSet(t) /\ IsFiniteSet(u) /\ IsFiniteSet(A \union s)
    <3>1. t \in SUBSET B /\ u \in SUBSET (A \union B) /\ A \union s \in SUBSET (A \union B)
      OBVIOUS
    <3>2. IsFiniteSet(A \union B)
      BY FS_Union
    <3> HIDE DEF t, u
    <3> QED BY <3>1, <3>2, FS_Subset
  <2>2. t \in SUBSET T /\ u \in SUBSET T /\ x \in t /\ x \in u /\ t \ {x} = s /\ u \ {x} = A \union s
    BY <1>2
  <2>3. f[x] \in Int /\ SumFunctionOnSet(f, A) \in Int /\ SumFunctionOnSet(f, s) \in Int
    <3>1. s \in SUBSET T /\ x \in T
      BY <1>2
    <3> QED BY <2>1, <3>1, SumOne
  <2>4. SumFunctionOnSet(f, t) = f[x] + SumFunctionOnSet(f, s)
    <3> HIDE DEF t, u
    <3>1. SumFunctionOnSet(f, t) = f[x] + SumFunctionOnSet(f, t \ {x})
      BY <2>1, <2>2, SumOne
    <3> QED BY <2>2, <3>1
  <2>5. SumFunctionOnSet(f, u) = f[x] + SumFunctionOnSet(f, A \union s)
    <3> HIDE DEF t, u
    <3>1. SumFunctionOnSet(f, u) = f[x] + SumFunctionOnSet(f, u \ {x})
      BY <2>1, <2>2, SumOne
    <3> QED BY <2>2, <3>1
  <2>6. SumFunctionOnSet(f, A \union s) = SumFunctionOnSet(f, A) + SumFunctionOnSet(f, s)
    BY <1>2
  <2>7. SumFunctionOnSet(f, u) = SumFunctionOnSet(f, A) + SumFunctionOnSet(f, t)
    BY <2>3, <2>4, <2>5, <2>6
  <2> QED BY <2>7
<1> HIDE DEF P
<1>3. B \in P
  BY <1>1, <1>2, PartByPart
<1> QED BY <1>3 DEF P

\* A sum is the same for functions that are alike where it is taken.
LEMMA SumAlike ==
  ASSUME NEW T, NEW f \in [T -> Int], NEW U, NEW h \in [U -> Int], NEW S \in SUBSET T, S \in SUBSET U, IsFiniteSet(S),
         \A x \in S : f[x] = h[x]
  PROVE  SumFunctionOnSet(f, S) = SumFunctionOnSet(h, S)
<1> DEFINE P == {s \in SUBSET S : SumFunctionOnSet(f, s) = SumFunctionOnSet(h, s)}
<1>0. \A s \in SUBSET S : s \in SUBSET T /\ s \in SUBSET U /\ IsFiniteSet(s)
  BY FS_Subset
<1>1. {} \in P
  <2>1. SumFunctionOnSet(f, {}) = 0
    BY SumOne
  <2>2. SumFunctionOnSet(h, {}) = 0
    BY SumOne
  <2> QED BY <2>1, <2>2
<1>2. ASSUME NEW s \in SUBSET S, NEW x \in S, s \in P, x \notin s PROVE s \union {x} \in P
  <2> DEFINE t == s \union {x}
  <2>1. t \in SUBSET S /\ x \in t /\ t \ {x} = s
    BY <1>2
  <2> HIDE DEF t
  <2>2. SumFunctionOnSet(f, t) = f[x] + SumFunctionOnSet(f, t \ {x})
    BY <1>0, <2>1, SumOne
  <2>3. SumFunctionOnSet(h, t) = h[x] + SumFunctionOnSet(h, t \ {x})
    BY <1>0, <2>1, SumOne
  <2>4. SumFunctionOnSet(f, t) = SumFunctionOnSet(h, t)
    BY <1>2, <2>1, <2>2, <2>3
  <2> QED BY <2>1, <2>4 DEF t
<1> HIDE DEF P
<1>3. S \in P
  BY <1>1, <1>2, PartByPart
<1> QED BY <1>3 DEF P

\* A sum of at least k each is at least k times as many.
LEMMA SumAtLeast ==
  ASSUME NEW T, NEW f \in [T -> Int], NEW S \in SUBSET T, IsFiniteSet(S), NEW k \in Nat, \A x \in S : k <= f[x]
  PROVE  k * Cardinality(S) <= SumFunctionOnSet(f, S)
<1> DEFINE P == {s \in SUBSET S : k * Cardinality(s) <= SumFunctionOnSet(f, s)}
<1>0. \A s \in SUBSET S : s \in SUBSET T /\ IsFiniteSet(s) /\ Cardinality(s) \in Nat /\ SumFunctionOnSet(f, s) \in Int
  <2> SUFFICES ASSUME NEW s \in SUBSET S
               PROVE  s \in SUBSET T /\ IsFiniteSet(s) /\ Cardinality(s) \in Nat /\ SumFunctionOnSet(f, s) \in Int
    OBVIOUS
  <2>1. s \in SUBSET T /\ IsFiniteSet(s)
    BY FS_Subset
  <2> QED BY <2>1, SumOne, FS_CardinalityType
<1>1. {} \in P
  <2>1. SumFunctionOnSet(f, {}) = 0
    BY SumOne
  <2>2. Cardinality({}) = 0 /\ k * 0 = 0
    BY FS_EmptySet
  <2> QED BY <2>1, <2>2
<1>2. ASSUME NEW s \in SUBSET S, NEW x \in S, s \in P, x \notin s PROVE s \union {x} \in P
  <2> DEFINE t == s \union {x}
  <2>1. t \in SUBSET S /\ x \in t /\ t \ {x} = s /\ x \in T
    BY <1>2
  <2>2. Cardinality(t) = Cardinality(s) + 1
    BY <1>0, <1>2, FS_AddElement
  <2> HIDE DEF t
  <2>3. SumFunctionOnSet(f, t) = f[x] + SumFunctionOnSet(f, t \ {x})
    BY <1>0, <2>1, SumOne
  <2>4. k * (Cardinality(s) + 1) = k * Cardinality(s) + k
    BY <1>0
  <2>5. k * Cardinality(s) \in Nat /\ f[x] \in Int /\ k <= f[x]
    BY <1>0, <2>1
  <2>6. k * Cardinality(s) <= SumFunctionOnSet(f, s)
    BY <1>2
  <2>7. k * Cardinality(t) = k * Cardinality(s) + k
    BY <2>2, <2>4
  <2>8. SumFunctionOnSet(f, s) \in Int /\ t \ {x} = s
    BY <1>0, <2>1
  <2>9. k * Cardinality(t) <= SumFunctionOnSet(f, t)
    <3>1. PICK a \in Nat : a = k * Cardinality(s)
      BY <2>5
    <3>2. a <= SumFunctionOnSet(f, s) /\ k * Cardinality(t) = a + k
      BY <2>6, <2>7, <3>1
    <3>3. SumFunctionOnSet(f, t) = f[x] + SumFunctionOnSet(f, s)
      BY <2>3, <2>8
    <3>4. a + k <= SumFunctionOnSet(f, t)
      BY <2>5, <2>8, <3>2, <3>3
    <3> QED BY <3>2, <3>4
  <2> QED BY <2>1, <2>9 DEF t
<1> HIDE DEF P
<1>3. S \in P
  BY <1>1, <1>2, PartByPart
<1> QED BY <1>3 DEF P

\* Of what is nowhere negative, a part adds up to no more than the whole.
LEMMA SumOfPart ==
  ASSUME NEW T, NEW f \in [T -> Int], NEW S \in SUBSET T, IsFiniteSet(S), NEW R \in SUBSET S,
         \A x \in S \ R : 0 <= f[x]
  PROVE  SumFunctionOnSet(f, R) <= SumFunctionOnSet(f, S)
<1> DEFINE Q == S \ R
<1>1. IsFiniteSet(R) /\ IsFiniteSet(Q) /\ R \in SUBSET T /\ Q \in SUBSET T /\ R \intersect Q = {} /\ R \union Q = S
  BY FS_Subset
<1>2. \A x \in Q : 0 <= f[x]
  OBVIOUS
<1> HIDE DEF Q
<1>3. SumFunctionOnSet(f, R \union Q) = SumFunctionOnSet(f, R) + SumFunctionOnSet(f, Q)
  BY <1>1, SumUnion
<1>4. SumFunctionOnSet(f, R) \in Int /\ SumFunctionOnSet(f, Q) \in Int /\ Cardinality(Q) \in Nat
  BY <1>1, SumOne, FS_CardinalityType
<1>5. 0 <= SumFunctionOnSet(f, Q)
  <2>1. 0 \in Nat /\ 0 * Cardinality(Q) = 0
    BY <1>4
  <2>2. 0 * Cardinality(Q) <= SumFunctionOnSet(f, Q)
    BY <1>1, <1>2, <2>1, SumAtLeast
  <2> QED BY <2>1, <2>2
<1>6. SumFunctionOnSet(f, S) = SumFunctionOnSet(f, R) + SumFunctionOnSet(f, Q)
  BY <1>1, <1>3
<1> QED BY <1>4, <1>5, <1>6

\* The elements of S that day puts in d, for each d of D.
ByDay(S, day, d) == {x \in S : day[x] = d}

\* The sums of the days add up to the sum over those days.
LEMMA SumByDay ==
  ASSUME NEW T, NEW f \in [T -> Int], NEW S \in SUBSET T, IsFiniteSet(S), NEW day,
         NEW D, IsFiniteSet(D), NEW h \in [D -> Int], \A d \in D : h[d] = SumFunctionOnSet(f, ByDay(S, day, d))
  PROVE  SumFunctionOnSet(h, D) = SumFunctionOnSet(f, {x \in S : day[x] \in D})
<1> DEFINE Of(E) == {x \in S : day[x] \in E}
           P == {E \in SUBSET D : SumFunctionOnSet(h, E) = SumFunctionOnSet(f, Of(E))}
<1>0. \A E \in SUBSET D : Of(E) \in SUBSET T /\ IsFiniteSet(Of(E)) /\ IsFiniteSet(E)
  BY FS_Subset
<1>1. {} \in P
  <2>1. Of({}) = {}
    OBVIOUS
  <2> HIDE DEF Of
  <2>2. SumFunctionOnSet(f, {}) = 0
    BY SumOne
  <2>3. SumFunctionOnSet(h, {}) = 0
    BY SumOne
  <2> QED BY <2>1, <2>2, <2>3
<1>2. ASSUME NEW E \in SUBSET D, NEW d \in D, E \in P, d \notin E PROVE E \union {d} \in P
  <2> DEFINE F == E \union {d}
             one == ByDay(S, day, d)
  <2>1. F \in SUBSET D /\ d \in F /\ F \ {d} = E /\ Of(F) = one \union Of(E) /\ one \intersect Of(E) = {}
    BY <1>2 DEF ByDay
  <2>2. one \in SUBSET T /\ IsFiniteSet(one)
    BY FS_Subset DEF ByDay
  <2> HIDE DEF F, one, Of
  <2>3. SumFunctionOnSet(h, F) = h[d] + SumFunctionOnSet(h, F \ {d})
    <3>1. IsFiniteSet(F)
      BY <2>1, FS_Subset
    <3> QED BY <2>1, <3>1, SumOne
  <2>4. SumFunctionOnSet(f, one \union Of(E)) = SumFunctionOnSet(f, one) + SumFunctionOnSet(f, Of(E))
    BY <1>0, <2>1, <2>2, SumUnion
  <2>5. h[d] = SumFunctionOnSet(f, one)
    BY DEF one
  <2>6. SumFunctionOnSet(h, E) = SumFunctionOnSet(f, Of(E))
    BY <1>2
  <2>7. SumFunctionOnSet(h, F) = SumFunctionOnSet(f, Of(F))
    BY <2>1, <2>3, <2>4, <2>5, <2>6
  <2> QED BY <2>1, <2>7 DEF F
<1> HIDE DEF P
<1>3. D \in P
  BY <1>1, <1>2, PartByPart
<1> QED BY <1>3 DEF P

\* And so do the numbers of elements.
LEMMA CountByDay ==
  ASSUME NEW S, IsFiniteSet(S), NEW day,
         NEW D, IsFiniteSet(D), NEW h \in [D -> Int], \A d \in D : h[d] = Cardinality(ByDay(S, day, d))
  PROVE  SumFunctionOnSet(h, D) = Cardinality({x \in S : day[x] \in D})
<1> DEFINE Of(E) == {x \in S : day[x] \in E}
           P == {E \in SUBSET D : SumFunctionOnSet(h, E) = Cardinality(Of(E))}
<1>0. \A E \in SUBSET D : IsFiniteSet(Of(E)) /\ IsFiniteSet(E) /\ Cardinality(Of(E)) \in Nat
  BY FS_Subset, FS_CardinalityType
<1>1. {} \in P
  <2>1. Of({}) = {} /\ Cardinality({}) = 0
    BY FS_EmptySet
  <2> HIDE DEF Of
  <2>3. SumFunctionOnSet(h, {}) = 0
    BY SumOne
  <2> QED BY <2>1, <2>3
<1>2. ASSUME NEW E \in SUBSET D, NEW d \in D, E \in P, d \notin E PROVE E \union {d} \in P
  <2> DEFINE F == E \union {d}
             one == ByDay(S, day, d)
  <2>1. F \in SUBSET D /\ d \in F /\ F \ {d} = E /\ Of(F) = one \union Of(E) /\ one \intersect Of(E) = {}
    BY <1>2 DEF ByDay
  <2>2. IsFiniteSet(one) /\ Cardinality(one) \in Nat
    BY FS_Subset, FS_CardinalityType DEF ByDay
  <2> HIDE DEF F, one, Of
  <2>3. SumFunctionOnSet(h, F) = h[d] + SumFunctionOnSet(h, F \ {d})
    <3>1. IsFiniteSet(F)
      BY <2>1, FS_Subset
    <3> QED BY <2>1, <3>1, SumOne
  <2>4. Cardinality(one \union Of(E)) = Cardinality(one) + Cardinality(Of(E))
    <3>1. Cardinality(one \union Of(E)) = Cardinality(one) + Cardinality(Of(E)) - Cardinality(one \intersect Of(E))
      BY <1>0, <2>2, FS_Union
    <3> QED BY <1>0, <2>1, <2>2, <3>1, FS_EmptySet
  <2>5. h[d] = Cardinality(one)
    BY DEF one
  <2>6. SumFunctionOnSet(h, E) = Cardinality(Of(E))
    BY <1>2
  <2>7. SumFunctionOnSet(h, F) = Cardinality(Of(F))
    BY <2>1, <2>3, <2>4, <2>5, <2>6
  <2> QED BY <2>1, <2>7 DEF F
<1> HIDE DEF P
<1>3. D \in P
  BY <1>1, <1>2, PartByPart
<1> QED BY <1>3 DEF P
=============================================================================
