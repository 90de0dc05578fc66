------------------------------- MODULE Induction -------------------------------
(***************************************************************************)
(* Induction and recursion over the natural numbers for sets and functions,*)
(* from the fact that < is well-founded, and the sums over a finite set    *)
(* that rest on them: what a recursive function or a fold of the other     *)
(* modules computes follows from these lemmas.                             *)
(***************************************************************************)
EXTENDS Integers, SequencesExt, FiniteSets, FiniteSetsExt, FiniteSetTheorems,
        SequenceTheorems, WellFoundedInduction, TLAPS

(* A set with 0 that is closed under + 1 has all natural numbers. *)
LEMMA SetInduction ==
  ASSUME NEW S, 0 \in S, \A n \in Nat : n \in S => n + 1 \in S
  PROVE  Nat \subseteq S
<1> DEFINE R == OpToRel(<, Nat)
<1>1. IsWellFoundedOn(R, Nat)
  BY NatLessThanWellFounded
<1>2. \A x, y \in Nat : x < y => <<x, y>> \in R
  BY DEF OpToRel
<1> HIDE DEF R
<1>3. SUFFICES ASSUME Nat \ S # {} PROVE FALSE
  OBVIOUS
<1>4. PICK x \in Nat \ S : \A y \in Nat \ S : ~ (<<y, x>> \in R)
  BY <1>1, <1>3, WFMin
<1>5. x # 0 /\ x \in Nat /\ x - 1 \in Nat /\ x - 1 < x
  BY <1>4
<1>6. <<x - 1, x>> \in R
  BY <1>2, <1>5
<1>7. x - 1 \in S
  BY <1>4, <1>5, <1>6
<1>8. QED
  BY <1>4, <1>5, <1>7

(* A set of numbers that is not empty has a least one.                     *)
LEMMA HasLeast ==
  ASSUME NEW S \in SUBSET Nat, S # {}
  PROVE  \E x \in S : \A y \in S : x <= y
<1> DEFINE R == OpToRel(<, Nat)
<1>1. IsWellFoundedOn(R, Nat)
  BY NatLessThanWellFounded
<1>2. \A x, y \in Nat : x < y => <<x, y>> \in R
  BY DEF OpToRel
<1> HIDE DEF R
<1>3. PICK x \in S : \A y \in S : ~ (<<y, x>> \in R)
  BY <1>1, WFMin
<1>4. \A y \in S : x <= y
  <2> SUFFICES ASSUME NEW y \in S PROVE x <= y
    OBVIOUS
  <2>1. ~ (y < x)
    BY <1>2, <1>3
  <2>2. QED
    BY <2>1
<1>5. QED
  BY <1>4

(* There is a function for every start and every rule that leads from one  *)
(* value to the next.                                                      *)
Recurs(f, V, a, step) ==
  /\ f \in [Nat -> V]
  /\ f[0] = a
  /\ \A n \in Nat : f[n + 1] = step[n][f[n]]

LEMMA Recursion ==
  ASSUME NEW V, NEW a \in V, NEW step \in [Nat -> [V -> V]]
  PROVE  \E f : Recurs(f, V, a, step)
<1> DEFINE Upto(n, g) == /\ g \in [0 .. n -> V]
                         /\ g[0] = a
                         /\ \A i \in 0 .. n - 1 : g[i + 1] = step[i][g[i]]
           S == {n \in Nat : \E g \in [0 .. n -> V] : Upto(n, g)}
<1>1. 0 \in S
  <2>1. Upto(0, [i \in 0 .. 0 |-> a])
    OBVIOUS
  <2>2. QED
    BY <2>1
<1>2. ASSUME NEW n \in Nat, n \in S PROVE n + 1 \in S
  <2>1. PICK g \in [0 .. n -> V] : Upto(n, g)
    BY <1>2
  <2>2. step[n][g[n]] \in V
    BY <2>1
  <2> DEFINE h == [i \in 0 .. n + 1 |-> IF i = n + 1 THEN step[n][g[n]] ELSE g[i]]
  <2>3. h \in [0 .. n + 1 -> V]
    BY <2>1, <2>2
  <2>4. h[0] = a
    BY <2>1
  <2>5. \A i \in 0 .. n : h[i + 1] = step[i][h[i]]
    BY <2>1
  <2>6. n + 1 - 1 = n /\ n + 1 \in Nat
    OBVIOUS
  <2> HIDE DEF h
  <2>7. Upto(n + 1, h)
    BY <2>3, <2>4, <2>5, <2>6
  <2>8. QED
    BY <2>3, <2>6, <2>7
<1>3. Nat \subseteq S
  BY <1>1, <1>2, SetInduction
<1>4. \A n \in Nat : \E g \in [0 .. n -> V] : Upto(n, g)
  BY <1>3
<1> DEFINE G == [n \in Nat |-> CHOOSE g \in [0 .. n -> V] : Upto(n, g)]
<1>5. \A n \in Nat : Upto(n, G[n])
  BY <1>4
<1> HIDE DEF G, S
<1>6. \A n \in Nat : G[n + 1][n] = G[n][n]
  <2> SUFFICES ASSUME NEW n \in Nat PROVE G[n + 1][n] = G[n][n]
    OBVIOUS
  <2> DEFINE T == {i \in Nat : i <= n => G[n][i] = G[n + 1][i]}
  <2>1. Upto(n, G[n]) /\ Upto(n + 1, G[n + 1])
    BY <1>5
  <2>2. 0 \in T
    BY <2>1
  <2>3. \A i \in Nat : i \in T => i + 1 \in T
    <3> SUFFICES ASSUME NEW i \in Nat, i \in T, i + 1 <= n
                 PROVE  G[n][i + 1] = G[n + 1][i + 1]
      OBVIOUS
    <3>1. i \in 0 .. n - 1 /\ i \in 0 .. (n + 1) - 1
      OBVIOUS
    <3>2. QED
      BY <2>1, <3>1
  <2>4. Nat \subseteq T
    BY <2>2, <2>3, SetInduction
  <2>5. QED
    BY <2>4
<1> DEFINE f == [n \in Nat |-> G[n][n]]
<1>7. f \in [Nat -> V] /\ f[0] = a
  BY <1>5
<1>8. ASSUME NEW n \in Nat PROVE f[n + 1] = step[n][f[n]]
  <2>1. Upto(n + 1, G[n + 1])
    BY <1>5
  <2>2. n \in 0 .. (n + 1) - 1
    OBVIOUS
  <2>3. G[n + 1][n + 1] = step[n][G[n + 1][n]]
    BY <2>1, <2>2
  <2>4. QED
    BY <1>6, <2>3
<1>9. Recurs(f, V, a, step)
  <2> HIDE DEF f
  <2> QED BY <1>7, <1>8 DEF Recurs
<1>10. QED
  BY <1>9

-------------------------------------------------------------------------------
(***************************************************************************)
(* The sum of a function over a finite set, one element at a time.         *)
(***************************************************************************)
(* The element of s that the folds take first. *)
Some(s) == CHOOSE x \in s : TRUE

(* g is the sum of w over every part of S. *)
SumsUp(g, w, S) ==
  /\ g \in [SUBSET S -> Nat]
  /\ \A s \in SUBSET S :
       g[s] = IF s = {} THEN 0 ELSE w[Some(s)] + g[s \ {Some(s)}]

(* Taking it away leaves a smaller set. *)
LEMMA SomeIsOne ==
  ASSUME NEW S, IsFiniteSet(S), NEW s \in SUBSET S, s # {}
  PROVE  /\ Some(s) \in s /\ Some(s) \in S
         /\ IsFiniteSet(s)
         /\ s \ {Some(s)} \in SUBSET S
         /\ Cardinality(s) \in Nat \ {0}
         /\ Cardinality(s \ {Some(s)}) = Cardinality(s) - 1
<1>1. Some(s) \in s
  BY DEF Some
<1>2. IsFiniteSet(s)
  BY FS_Subset
<1> DEFINE a == Some(s)
<1> HIDE DEF a
<1>3. a \in s
  BY <1>1 DEF a
<1>4. Cardinality(s \ {a}) = Cardinality(s) - 1
  BY <1>2, <1>3, FS_RemoveElement
<1>5. Cardinality(s) \in Nat /\ Cardinality(s) # 0
  BY <1>2, FS_CardinalityType, FS_EmptySet
<1>6. QED
  BY <1>1, <1>2, <1>4, <1>5 DEF a

(* A set without elements is the empty one. *)
LEMMA EmptyOrSome ==
  ASSUME NEW S, IsFiniteSet(S), NEW s \in SUBSET S, Cardinality(s) <= 0
  PROVE  s = {}
<1> SUFFICES ASSUME s # {} PROVE FALSE
  OBVIOUS
<1>1. Cardinality(s) \in Nat \ {0}
  BY SomeIsOne
<1>2. QED
  BY <1>1

(* The sum over no element is 0. *)
LEMMA SumOfNone ==
  ASSUME NEW S, NEW w, NEW g, SumsUp(g, w, S)
  PROVE  g[{}] = 0
BY DEF SumsUp

(* There is such a sum: it is reached after as many rounds as there are    *)
(* elements.                                                               *)
LEMMA SumExists ==
  ASSUME NEW S, IsFiniteSet(S), NEW w \in [S -> Nat]
  PROVE  \E g : SumsUp(g, w, S)
<1> DEFINE V == [SUBSET S -> Nat]
           Round(g) == [s \in SUBSET S |->
                          IF s = {} THEN 0 ELSE w[Some(s)] + g[s \ {Some(s)}]]
           a == [s \in SUBSET S |-> 0]
           step == [n \in Nat |-> [g \in V |-> Round(g)]]
<1>1. a \in V
  OBVIOUS
<1>2. \A g \in V : Round(g) \in V
  <2> SUFFICES ASSUME NEW g \in V, NEW s \in SUBSET S, s # {}
               PROVE  w[Some(s)] + g[s \ {Some(s)}] \in Nat
    OBVIOUS
  <2>1. Some(s) \in S /\ s \ {Some(s)} \in SUBSET S
    BY SomeIsOne
  <2>2. w[Some(s)] \in Nat /\ g[s \ {Some(s)}] \in Nat
    BY <2>1
  <2>3. QED
    BY <2>2
<1>3. step \in [Nat -> [V -> V]]
  BY <1>2
<1> HIDE DEF V, a, step
<1>4. PICK G : Recurs(G, V, a, step)
  BY <1>1, <1>3, Recursion
<1>5. \A n \in Nat : G[n] \in V /\ G[n + 1] = Round(G[n])
  <2> SUFFICES ASSUME NEW n \in Nat PROVE G[n] \in V /\ G[n + 1] = Round(G[n])
    OBVIOUS
  <2>1. G[n] \in V /\ G[n + 1] = step[n][G[n]]
    BY <1>4 DEF Recurs
  <2>2. QED
    BY <2>1 DEF step
<1> HIDE DEF Round
<1>6. \A g \in V, s \in SUBSET S :
         Round(g)[s] = IF s = {} THEN 0 ELSE w[Some(s)] + g[s \ {Some(s)}]
  BY DEF Round
<1> DEFINE Done == {n \in Nat : \A s \in SUBSET S :
                      Cardinality(s) <= n => G[n + 1][s] = G[n][s]}
<1>7. 0 \in Done
  <2> SUFFICES ASSUME NEW s \in SUBSET S, Cardinality(s) <= 0
               PROVE  G[0 + 1][s] = G[0][s]
    OBVIOUS
  <2>1. s = {}
    BY EmptyOrSome
  <2>2. G[0] \in V /\ G[0 + 1] = Round(G[0])
    BY <1>5
  <2>3. G[0] = a
    BY <1>4 DEF Recurs
  <2>5. G[0 + 1][s] = 0
    BY <1>6, <2>1, <2>2
  <2>4. QED
    BY <2>3, <2>5 DEF a
<1>8. \A n \in Nat : n \in Done => n + 1 \in Done
  <2> SUFFICES ASSUME NEW n \in Nat, n \in Done, NEW s \in SUBSET S,
                      Cardinality(s) <= n + 1
               PROVE  G[(n + 1) + 1][s] = G[n + 1][s]
    OBVIOUS
  <2>1. G[(n + 1) + 1] = Round(G[n + 1]) /\ G[n + 1] = Round(G[n])
    BY <1>5
  <2>2. G[n] \in V /\ G[n + 1] \in V
    BY <1>5
  <2>3. CASE s = {}
    BY <1>6, <2>1, <2>2, <2>3
  <2>4. CASE s # {}
    <3> DEFINE r == s \ {Some(s)}
    <3>1. r \in SUBSET S /\ Cardinality(r) <= n
      BY <2>4, SomeIsOne
    <3> HIDE DEF r
    <3>2. G[n + 1][r] = G[n][r]
      BY <3>1
    <3>3. G[(n + 1) + 1][s] = w[Some(s)] + G[n + 1][r]
      BY <1>6, <2>1, <2>2, <2>4 DEF r
    <3>4. G[n + 1][s] = w[Some(s)] + G[n][r]
      BY <1>6, <2>1, <2>2, <2>4 DEF r
    <3>5. QED
      BY <3>2, <3>3, <3>4
  <2>5. QED
    BY <2>3, <2>4
<1>9. Cardinality(S) \in Done
  <2>1. Nat \subseteq Done
    <3> HIDE DEF Done
    <3> QED BY <1>7, <1>8, SetInduction
  <2>2. Cardinality(S) \in Nat
    BY FS_CardinalityType
  <2> HIDE DEF Done
  <2>3. QED
    BY <2>1, <2>2
<1> DEFINE n == Cardinality(S)
<1>10. n \in Nat /\ \A s \in SUBSET S : Cardinality(s) <= n
  BY FS_CardinalityType, FS_Subset
<1> HIDE DEF n
<1>11. \A s \in SUBSET S : G[n + 1][s] = G[n][s]
  BY <1>9, <1>10 DEF n
<1>12. G[n] \in [SUBSET S -> Nat] /\ G[n] \in V /\ G[n + 1] = Round(G[n])
  BY <1>5, <1>10 DEF V
<1>13. SumsUp(G[n], w, S)
  BY <1>6, <1>11, <1>12 DEF SumsUp
<1>14. QED
  BY <1>13

(* Sums of functions that differ at one place differ by what these do.     *)
Differ(v, w, S, b, d) ==
  /\ v \in [S -> Nat] /\ w \in [S -> Nat]
  /\ v[b] = w[b] + d
  /\ \A x \in S \ {b} : v[x] = w[x]

LEMMA SumChanges ==
  ASSUME NEW S, IsFiniteSet(S), NEW b \in S, NEW d \in Int,
         NEW w, NEW v, Differ(v, w, S, b, d),
         NEW g, NEW h, SumsUp(g, w, S), SumsUp(h, v, S)
  PROVE  h[S] = g[S] + d
<1> USE DEF Differ
<1> DEFINE Ok(s) == h[s] = g[s] + (IF b \in s THEN d ELSE 0)
           Done == {n \in Nat : \A s \in SUBSET S : Cardinality(s) <= n => Ok(s)}
<1>1. 0 \in Done
  <2> SUFFICES ASSUME NEW s \in SUBSET S, Cardinality(s) <= 0
               PROVE  Ok(s)
    OBVIOUS
  <2>1. s = {}
    BY EmptyOrSome
  <2>2. h[s] = 0 /\ g[s] = 0 /\ b \notin s
    BY <2>1, SumOfNone
  <2>3. QED
    BY <2>2
<1>2. \A n \in Nat : n \in Done => n + 1 \in Done
  <2> SUFFICES ASSUME NEW n \in Nat, n \in Done, NEW s \in SUBSET S,
                      Cardinality(s) <= n + 1
               PROVE  Ok(s)
    OBVIOUS
  <2>1. CASE s = {}
    <3>1. h[s] = 0 /\ g[s] = 0 /\ b \notin s
      BY <2>1, SumOfNone
    <3>2. QED
      BY <3>1
  <2>2. CASE s # {}
    <3> DEFINE c == Some(s)
               r == s \ {c}
    <3>1. r \in SUBSET S /\ Cardinality(r) <= n /\ c \in s /\ c \in S
      BY <2>2, SomeIsOne
    <3>2. Ok(r)
      BY <3>1
    <3>3. h[s] = v[c] + h[r] /\ g[s] = w[c] + g[r]
      BY <2>2 DEF SumsUp
    <3>4. h[r] \in Nat /\ g[r] \in Nat /\ v[c] \in Nat /\ w[c] \in Nat
      BY <3>1 DEF SumsUp
    <3>5. (c = b => b \notin r) /\ (c # b => (b \in r <=> b \in s))
      OBVIOUS
    <3> HIDE DEF c, r
    <3>6. CASE c = b
      BY <3>1, <3>2, <3>3, <3>4, <3>5, <3>6
    <3>7. CASE c # b
      <4>1. v[c] = w[c]
        BY <3>1, <3>7
      <4>2. QED
        BY <3>2, <3>3, <3>4, <3>5, <3>7, <4>1
    <3>8. QED
      BY <3>6, <3>7
  <2>3. QED
    BY <2>1, <2>2
<1>3. Nat \subseteq Done
  <2> HIDE DEF Done
  <2> QED BY <1>1, <1>2, SetInduction
<1>4. Cardinality(S) \in Nat /\ S \in SUBSET S
  BY FS_CardinalityType
<1>5. Ok(S)
  BY <1>3, <1>4
<1>6. QED
  BY <1>5

-------------------------------------------------------------------------------
(***************************************************************************)
(* How many elements a family of sequences has.                            *)
(***************************************************************************)
Total(q, S) == MapThenSumSet(LAMBDA b : Len(q[b]), S)

Lens(q, S) == [b \in S |-> Len(q[b])]

(* The fold of the community modules computes that sum. *)
LEMMA TotalSums ==
  ASSUME NEW S, IsFiniteSet(S), NEW q, Lens(q, S) \in [S -> Nat]
  PROVE  \E g : SumsUp(g, Lens(q, S), S) /\ Total(q, S) = g[S]
<1> DEFINE F(g) == [s \in SUBSET S |->
                      IF s = {} THEN 0
                      ELSE Len(q[CHOOSE x \in s : TRUE])
                             + g[s \ {CHOOSE x \in s : TRUE}]]
           f == CHOOSE g : g = F(g)
<1>1. PICK h : SumsUp(h, Lens(q, S), S)
  BY SumExists
<1>2. h = F(h)
  <2>1. \A s \in SUBSET S : s # {} => Lens(q, S)[Some(s)] = Len(q[Some(s)])
    BY SomeIsOne DEF Lens
  <2>2. h \in [SUBSET S -> Nat]
    BY <1>1 DEF SumsUp
  <2>3. \A s \in SUBSET S : h[s] = F(h)[s]
    BY <1>1, <2>1 DEF SumsUp, Some
  <2> DEFINE e == F(h)
  <2>4. e = [s \in SUBSET S |-> e[s]]
    OBVIOUS
  <2> HIDE DEF e
  <2>5. h = [s \in SUBSET S |-> h[s]]
    BY <2>2
  <2>6. h = e
    BY <2>3, <2>4, <2>5 DEF e
  <2>7. QED
    BY <2>6 DEF e
<1>3. f = F(f)
  <2> HIDE DEF F
  <2> QED BY <1>2
<1>4. Total(q, S) = f[S]
  BY DEF Total, MapThenSumSet, MapThenFoldSet
<1> HIDE DEF f
<1>5. SumsUp(f, Lens(q, S), S)
  <2>1. \A s \in SUBSET S :
           f[s] = IF s = {} THEN 0 ELSE Lens(q, S)[Some(s)] + f[s \ {Some(s)}]
    BY <1>3, SomeIsOne DEF Some, Lens
  <2> DEFINE Good == {n \in Nat : \A s \in SUBSET S :
                         Cardinality(s) <= n => f[s] \in Nat}
  <2>2. 0 \in Good
    <3> SUFFICES ASSUME NEW s \in SUBSET S, Cardinality(s) <= 0
                 PROVE  f[s] \in Nat
      OBVIOUS
    <3>1. s = {}
      BY EmptyOrSome
    <3>2. f[s] = 0
      BY <2>1, <3>1
    <3>3. QED
      BY <3>2
  <2>3. \A n \in Nat : n \in Good => n + 1 \in Good
    <3> SUFFICES ASSUME NEW n \in Nat, n \in Good, NEW s \in SUBSET S,
                        Cardinality(s) <= n + 1
                 PROVE  f[s] \in Nat
      OBVIOUS
    <3>1. CASE s = {}
      <4>1. f[s] = 0
        BY <2>1, <3>1
      <4>2. QED
        BY <4>1
    <3>2. CASE s # {}
      <4> DEFINE r == s \ {Some(s)}
      <4>1. r \in SUBSET S /\ Cardinality(r) <= n /\ Some(s) \in S
        BY <3>2, SomeIsOne
      <4> HIDE DEF r
      <4>2. f[r] \in Nat /\ Lens(q, S)[Some(s)] \in Nat
        BY <4>1
      <4>3. f[s] = Lens(q, S)[Some(s)] + f[r]
        BY <2>1, <3>2 DEF r
      <4>4. QED
        BY <4>2, <4>3
    <3>3. QED
      BY <3>1, <3>2
  <2>4. Nat \subseteq Good
    <3> HIDE DEF Good
    <3> QED BY <2>2, <2>3, SetInduction
  <2>5. \A s \in SUBSET S : f[s] \in Nat
    <3> SUFFICES ASSUME NEW s \in SUBSET S PROVE f[s] \in Nat
      OBVIOUS
    <3>1. Cardinality(s) \in Nat
      BY FS_Subset, FS_CardinalityType
    <3>2. QED
      BY <2>4, <3>1
  <2>6. f \in [SUBSET S -> Nat]
    <3>1. f = [s \in SUBSET S |-> f[s]]
      BY <1>3
    <3>2. QED
      BY <2>5, <3>1
  <2>7. QED
    BY <2>1, <2>6 DEF SumsUp
<1>6. QED
  BY <1>4, <1>5

(* Empty sequences have no element in all. *)
LEMMA TotalOfNone ==
  ASSUME NEW S, IsFiniteSet(S), NEW q, \A b \in S : Len(q[b]) = 0
  PROVE  Total(q, S) = 0
<1>1. Lens(q, S) \in [S -> Nat]
  BY DEF Lens
<1>2. PICK g : SumsUp(g, Lens(q, S), S) /\ Total(q, S) = g[S]
  BY <1>1, TotalSums
<1> DEFINE Zero == {n \in Nat : \A s \in SUBSET S : Cardinality(s) <= n => g[s] = 0}
<1>3. 0 \in Zero
  <2> SUFFICES ASSUME NEW s \in SUBSET S, Cardinality(s) <= 0
               PROVE  g[s] = 0
    OBVIOUS
  <2>1. s = {}
    BY EmptyOrSome
  <2>2. QED
    BY <1>2, <2>1, SumOfNone
<1>4. \A n \in Nat : n \in Zero => n + 1 \in Zero
  <2> SUFFICES ASSUME NEW n \in Nat, n \in Zero, NEW s \in SUBSET S,
                      Cardinality(s) <= n + 1
               PROVE  g[s] = 0
    OBVIOUS
  <2>1. CASE s = {}
    BY <1>2, <2>1, SumOfNone
  <2>2. CASE s # {}
    <3> DEFINE r == s \ {Some(s)}
    <3>1. r \in SUBSET S /\ Cardinality(r) <= n /\ Some(s) \in S
      BY <2>2, SomeIsOne
    <3> HIDE DEF r
    <3>2. g[r] = 0 /\ Lens(q, S)[Some(s)] = 0
      BY <3>1 DEF Lens
    <3>3. g[s] = Lens(q, S)[Some(s)] + g[r]
      BY <1>2, <2>2 DEF SumsUp, r
    <3>4. QED
      BY <3>2, <3>3
  <2>3. QED
    BY <2>1, <2>2
<1>5. Nat \subseteq Zero
  <2> HIDE DEF Zero
  <2> QED BY <1>3, <1>4, SetInduction
<1>6. Cardinality(S) \in Nat /\ S \in SUBSET S
  BY FS_CardinalityType
<1>7. QED
  BY <1>2, <1>5, <1>6

(* One sequence that changes changes the total by as much. *)
LEMMA TotalChanges ==
  ASSUME NEW S, IsFiniteSet(S), NEW b \in S, NEW d \in Int, NEW q, NEW r,
         Differ(Lens(r, S), Lens(q, S), S, b, d)
  PROVE  Total(r, S) = Total(q, S) + d
<1>1. PICK g : SumsUp(g, Lens(q, S), S) /\ Total(q, S) = g[S]
  BY TotalSums DEF Differ
<1>2. PICK h : SumsUp(h, Lens(r, S), S) /\ Total(r, S) = h[S]
  BY TotalSums DEF Differ
<1>3. QED
  BY <1>1, <1>2, SumChanges

(* The total is a number. *)
LEMMA TotalType ==
  ASSUME NEW S, IsFiniteSet(S), NEW q, Lens(q, S) \in [S -> Nat]
  PROVE  Total(q, S) \in Nat
<1>1. PICK g : SumsUp(g, Lens(q, S), S) /\ Total(q, S) = g[S]
  BY TotalSums
<1>2. QED
  BY <1>1 DEF SumsUp

-------------------------------------------------------------------------------
(***************************************************************************)
(* Sequences of sequences behind each other.                               *)
(***************************************************************************)
(* FlattenSeq() puts the sequences behind each other, one after the other. *)
Flattens(h, S, f) ==
  /\ h \in [Nat -> Seq(S)] /\ h[0] = <<>>
  /\ \A n \in Nat : n < Len(f) => h[n + 1] = h[n] \o f[n + 1]
  /\ FlattenSeq(f) = h[Len(f)]

(* FlattenSeq() is the last of its prefixes. *)
LEMMA FlattenUnfolds ==
  ASSUME NEW S, NEW f \in Seq(Seq(S))
  PROVE  \E h : Flattens(h, S, f)
<1> DEFINE L == Len(f)
           V == Seq(S)
           step == [n \in Nat |-> [v \in V |-> IF n + 1 \in 1 .. L THEN v \o f[n + 1] ELSE v]]
           Rec(up) == up = [i \in 1 .. L |-> IF i = 1 THEN f[i] ELSE up[i - 1] \o f[i]]
<1>1. L \in Nat /\ <<>> \in V /\ \A n \in 1 .. L : f[n] \in V
  OBVIOUS
<1>2. step \in [Nat -> [V -> V]]
  <2>1. \A n \in Nat, v \in V : n + 1 \in 1 .. L => v \o f[n + 1] \in V
    BY <1>1
  <2> QED BY <2>1
<1>3. PICK h : Recurs(h, V, <<>>, step)
  <2> HIDE DEF step, L, V
  <2> QED BY <1>1, <1>2, Recursion
<1>4. h \in [Nat -> V] /\ h[0] = <<>> /\ \A n \in Nat : h[n + 1] = step[n][h[n]]
  <2> HIDE DEF step, V
  <2> QED BY <1>3 DEF Recurs
<1>5. \A n \in Nat : n < L => h[n + 1] = h[n] \o f[n + 1]
  <2> SUFFICES ASSUME NEW n \in Nat, n < L PROVE h[n + 1] = h[n] \o f[n + 1]
    OBVIOUS
  <2>1. n + 1 \in 1 .. L
    BY <1>1
  <2>2. h[n] \in V
    BY <1>4, Zenon
  <2>3. step[n][h[n]] = h[n] \o f[n + 1]
    <3> HIDE DEF V
    <3> QED BY <2>1, <2>2
  <2> QED BY <1>4, <2>3, Zenon
<1>6. FlattenSeq(f) = h[L]
  <2>1. CASE L = 0
    <3>1. FlattenSeq(f) = f /\ f = <<>>
      BY <2>1, EmptySeq DEF FlattenSeq
    <3> QED BY <1>4, <2>1, <3>1
  <2>2. CASE L # 0
    <3> DEFINE g == [i \in 1 .. L |-> h[i]]
    <3>1. Rec(g)
      <4> SUFFICES ASSUME NEW i \in 1 .. L
                   PROVE  h[i] = IF i = 1 THEN f[i] ELSE g[i - 1] \o f[i]
        OBVIOUS
      <4>1. PICK n \in Nat : i = n + 1 /\ i - 1 = n /\ n < L
        BY <1>1
      <4>2. h[i] = h[n] \o f[i]
        BY <1>5, <4>1
      <4>3. CASE i = 1
        <5>1. h[n] = <<>> /\ f[i] \in Seq(S)
          BY <1>1, <1>4, <4>1, <4>3
        <5>2. <<>> \o f[i] = f[i]
          BY <5>1
        <5> QED BY <4>2, <4>3, <5>1, <5>2
      <4>4. CASE i # 1
        <5>1. g[i - 1] = h[n]
          BY <1>1, <4>1, <4>4
        <5> QED BY <4>2, <4>4, <5>1
      <4> QED BY <4>3, <4>4
    <3> DEFINE u == CHOOSE up : Rec(up)
    <3>2. Rec(u)
      <4> HIDE DEF Rec
      <4> QED BY <3>1
    <3>3. FlattenSeq(f) = u[L]
      BY <2>2 DEF FlattenSeq
    <3> HIDE DEF u
    <3> DEFINE T1 == {k \in Nat : k \in 1 .. L => u[k] = h[k]}
    <3>4. 0 \in T1
      BY <1>1
    <3>5. \A k \in Nat : k \in T1 => k + 1 \in T1
      <4> SUFFICES ASSUME NEW k \in Nat, k \in T1, k + 1 \in 1 .. L PROVE u[k + 1] = h[k + 1]
        OBVIOUS
      <4>1. PICK i \in 1 .. L : i = k + 1 /\ i - 1 = k
        OBVIOUS
      <4>2. u[i] = IF i = 1 THEN f[i] ELSE u[i - 1] \o f[i]
        BY <3>2
      <4>3. h[i] = IF i = 1 THEN f[i] ELSE h[i - 1] \o f[i]
        <5>1. g[i] = IF i = 1 THEN f[i] ELSE g[i - 1] \o f[i]
          BY <3>1
        <5>2. i # 1 => i - 1 \in 1 .. L
          BY <1>1
        <5> QED BY <5>1, <5>2
      <4>4. i # 1 => u[i - 1] = h[i - 1]
        BY <1>1, <4>1
      <4> QED BY <4>1, <4>2, <4>3, <4>4
    <3>6. Nat \subseteq T1
      <4> HIDE DEF T1
      <4> QED BY <3>4, <3>5, SetInduction
    <3>7. u[L] = h[L]
      <4>1. L \in T1 /\ L \in 1 .. L
        BY <1>1, <2>2, <3>6
      <4> QED BY <4>1
    <3> QED BY <3>3, <3>7
  <2> QED BY <2>1, <2>2
<1>7. Flattens(h, S, f)
  <2> HIDE DEF step
  <2> QED BY <1>4, <1>5, <1>6 DEF Flattens
<1> QED BY <1>7

(* Of no blocks there is nothing. *)
LEMMA FlattenNone == FlattenSeq(<<>>) = <<>>
BY DEF FlattenSeq

(* One more block goes behind the others. *)
LEMMA FlattenMore ==
  ASSUME NEW S, NEW f \in Seq(Seq(S)), NEW b \in Seq(S)
  PROVE  FlattenSeq(Append(f, b)) = FlattenSeq(f) \o b
<1> DEFINE g == Append(f, b)
<1>1. /\ g \in Seq(Seq(S)) /\ Len(f) \in Nat /\ Len(g) = Len(f) + 1
      /\ g[Len(f) + 1] = b /\ \A n \in 1 .. Len(f) : g[n] = f[n]
  OBVIOUS
<1>2. PICK h : Flattens(h, S, f)
  BY FlattenUnfolds
<1>3. PICK k : Flattens(k, S, g)
  <2> HIDE DEF g
  <2> QED BY <1>1, FlattenUnfolds
<1> DEFINE T1 == {n \in Nat : n <= Len(f) => h[n] = k[n]}
<1>4. 0 \in T1
  BY <1>2, <1>3 DEF Flattens
<1>5. ASSUME NEW n \in Nat, n \in T1 PROVE n + 1 \in T1
  <2> SUFFICES ASSUME n + 1 <= Len(f) PROVE h[n + 1] = k[n + 1]
    OBVIOUS
  <2>1. n < Len(f) /\ n < Len(g) /\ n + 1 \in 1 .. Len(f) /\ h[n] = k[n]
    BY <1>1, <1>5
  <2>2. h[n + 1] = h[n] \o f[n + 1]
    BY <1>2, <2>1 DEF Flattens
  <2>3. k[n + 1] = k[n] \o g[n + 1]
    <3> HIDE DEF g
    <3> QED BY <1>3, <2>1 DEF Flattens
  <2>4. g[n + 1] = f[n + 1]
    BY <1>1, <2>1
  <2> HIDE DEF g
  <2> QED BY <2>1, <2>2, <2>3, <2>4
<1>6. Nat \subseteq T1
  <2> HIDE DEF T1
  <2> QED BY <1>4, <1>5, SetInduction
<1>7. h[Len(f)] = k[Len(f)]
  <2>1. Len(f) \in T1
    BY <1>1, <1>6
  <2> QED BY <1>1, <2>1
<1> HIDE DEF g
<1>8. k[Len(f) + 1] = k[Len(f)] \o b
  <2>1. Len(f) < Len(g)
    BY <1>1
  <2> QED BY <1>1, <1>3, <2>1 DEF Flattens
<1>9. FlattenSeq(f) = h[Len(f)] /\ FlattenSeq(g) = k[Len(f) + 1]
  BY <1>1, <1>2, <1>3 DEF Flattens
<1>10. FlattenSeq(g) = FlattenSeq(f) \o b
  BY <1>7, <1>8, <1>9
<1> QED BY <1>10 DEF g

(* Blocks of cells behind each other are a sequence of cells. *)
LEMMA FlattenType ==
  ASSUME NEW S, NEW f \in Seq(Seq(S)) PROVE FlattenSeq(f) \in Seq(S)
<1>1. PICK h : Flattens(h, S, f)
  BY FlattenUnfolds
<1>2. h[Len(f)] \in Seq(S)
  <2>1. Len(f) \in Nat
    OBVIOUS
  <2> QED BY <1>1, <2>1 DEF Flattens
<1> QED BY <1>1, <1>2 DEF Flattens

(* Three sequences behind each other. *)
LEMMA Associates ==
  \A S : \A s, t, u \in Seq(S) : (s \o t) \o u = s \o (t \o u)
OBVIOUS

(* The blocks of two sequences behind each other. *)
LEMMA FlattenConcat ==
  ASSUME NEW S, NEW f \in Seq(Seq(S)), NEW g \in Seq(Seq(S))
  PROVE  FlattenSeq(f \o g) = FlattenSeq(f) \o FlattenSeq(g)
<1> DEFINE Q == Seq(Seq(S))
           N == {n \in Nat : \A u \in Q : Len(u) = n =>
                                FlattenSeq(f \o u) = FlattenSeq(f) \o FlattenSeq(u)}
<1>1. FlattenSeq(f) \in Seq(S)
  BY FlattenType
<1>2. 0 \in N
  <2> SUFFICES ASSUME NEW u \in Q, Len(u) = 0
               PROVE  FlattenSeq(f \o u) = FlattenSeq(f) \o FlattenSeq(u)
    OBVIOUS
  <2>1. u = <<>> /\ f \o <<>> = f
    BY EmptySeq, ConcatEmptySeq
  <2>2. FlattenSeq(f) \o <<>> = FlattenSeq(f)
    BY <1>1, ConcatEmptySeq
  <2>3. QED
    BY <2>1, <2>2, FlattenNone
<1>3. ASSUME NEW n \in Nat, n \in N PROVE n + 1 \in N
  <2> SUFFICES ASSUME NEW u \in Q, Len(u) = n + 1
               PROVE  FlattenSeq(f \o u) = FlattenSeq(f) \o FlattenSeq(u)
    OBVIOUS
  <2>1. u # <<>>
    OBVIOUS
  <2>2. PICK v \in Q, e \in Seq(S) : u = Append(v, e)
    BY <2>1, SequenceEmptyOrAppend
  <2>3. Len(v) = n
    BY <2>2
  <2>4. FlattenSeq(f \o v) = FlattenSeq(f) \o FlattenSeq(v)
    BY <1>3, <2>3
  <2>5. f \o u = Append(f \o v, e) /\ f \o v \in Q
    <3> DEFINE A == Seq(S)
    <3>1. f \in Seq(A) /\ v \in Seq(A) /\ e \in A
      OBVIOUS
    <3> HIDE DEF A, N, Q
    <3>2. Append(v, e) = v \o <<e>> /\ <<e>> \in Seq(A)
      BY <3>1, AppendIsConcat
    <3>3. f \o v \in Seq(A)
      BY <3>1, ConcatProperties
    <3>4. Append(f \o v, e) = (f \o v) \o <<e>>
      BY <3>1, <3>3, AppendIsConcat
    <3>5. (f \o v) \o <<e>> = f \o (v \o <<e>>)
      <4>1. \A s, t, w \in Seq(A) : (s \o t) \o w = s \o (t \o w)
        OBVIOUS
      <4>2. QED
        BY <3>1, <3>2, <4>1, Zenon
    <3>6. f \o u = Append(f \o v, e)
      BY <2>2, <3>2, <3>4, <3>5
    <3> QED BY <3>3, <3>6 DEF A, Q
  <2>6. FlattenSeq(v) \in Seq(S)
    BY FlattenType
  <2>7. FlattenSeq(f \o u) = FlattenSeq(f \o v) \o e
    BY <2>5, FlattenMore
  <2>8. FlattenSeq(u) = FlattenSeq(v) \o e
    BY <2>2, FlattenMore
  <2>9. QED
    <3> HIDE DEF N, Q
    <3>1. (FlattenSeq(f) \o FlattenSeq(v)) \o e = FlattenSeq(f) \o (FlattenSeq(v) \o e)
      BY <1>1, <2>6, Associates, SMTT(40)
    <3> QED BY <2>4, <2>7, <2>8, <3>1
<1>4. Nat \subseteq N
  <2> HIDE DEF N
  <2> QED BY <1>2, <1>3, SetInduction
<1>5. Len(g) \in N
  BY <1>4
<1> QED BY <1>5

(* One block. *)
LEMMA FlattenOne ==
  ASSUME NEW S, NEW b \in Seq(S) PROVE FlattenSeq(<<b>>) = b
<1> DEFINE A == Seq(S)
<1>1. <<>> \in Seq(A) /\ <<b>> = Append(<<>>, b)
  OBVIOUS
<1>2. FlattenSeq(Append(<<>>, b)) = FlattenSeq(<<>>) \o b
  BY <1>1, FlattenMore
<1>3. QED
  BY <1>1, <1>2, FlattenNone, ConcatEmptySeq
===============================================================================
