------------------------------ MODULE MemoryProofs ------------------------------
(***************************************************************************)
(* Theorems about module Memory, for any pools: the free lists hold what   *)
(* is not in use, headers stay, and the pools do what module Allocator     *)
(* promises.                                                               *)
(***************************************************************************)
EXTENDS Memory, Induction, FiniteSetTheorems, SequenceTheorems

(***************************************************************************)
(* Where kzmem_init() puts the blocks.                                     *)
(***************************************************************************)
LEMMA PoolTypes ==
  /\ Len(PoolSize) \in Nat
  /\ PoolIndex = 1 .. Len(PoolSize)
  /\ \A i \in PoolIndex : PoolSize[i] \in Nat /\ PoolNum[i] \in Nat
  /\ \A i \in PoolIndex : PoolSize[i] >= Header /\ PoolSize[i] > 0
  /\ Header \in Nat /\ Header > 0
BY PoolAssumption DEF PoolIndex

(* Products stand alone: the solver knows little of them.                  *)
LEMMA Products ==
  ASSUME NEW m \in Nat, NEW n \in Nat
  PROVE  m * n \in Nat
OBVIOUS

LEMMA ProductGrows ==
  ASSUME NEW j \in Int, NEW k \in Int, j < k, NEW s \in Nat
  PROVE  j * s + s <= k * s
<1>1. k - j - 1 \in Nat
  OBVIOUS
<1>2. (k - j - 1) * s \in Nat
  BY <1>1, Products
<1>3. (k - j - 1) * s = k * s - j * s - s
  OBVIOUS
<1>4. QED
  BY <1>2, <1>3

(* The bytes of pool i. *)
Extent(i) == PoolNum[i] * PoolSize[i]

(* The recursive definition of Area has a solution.                        *)
LEMMA AreaRecursion ==
  /\ Area \in [PoolIndex -> Nat]
  /\ 1 \in PoolIndex => Area[1] = 0
  /\ \A i \in PoolIndex : i + 1 \in PoolIndex => Area[i + 1] = Area[i] + Extent(i)
<1>1. Len(PoolSize) \in Nat /\ \A i \in 1 .. Len(PoolSize) : Extent(i) \in Nat
  BY PoolTypes, Products DEF Extent
<1> DEFINE step == [n \in Nat |-> [v \in Nat |->
                     IF n + 1 \in 1 .. Len(PoolSize) THEN v + Extent(n + 1) ELSE v]]
           Rec(a) == a = [i \in 1 .. Len(PoolSize) |->
                            IF i = 1 THEN 0 ELSE a[i - 1] + Extent(i - 1)]
<1>2. step \in [Nat -> [Nat -> Nat]] /\ 0 \in Nat
  BY <1>1
<1>3. PICK f : Recurs(f, Nat, 0, step)
  <2> HIDE DEF step
  <2> QED BY <1>2, Recursion
<1>3a. /\ f \in [Nat -> Nat] /\ f[0] = 0
      /\ \A n \in Nat : f[n + 1] = step[n][f[n]]
  <2> HIDE DEF step
  <2> QED BY <1>3 DEF Recurs
<1> DEFINE g == [i \in 1 .. Len(PoolSize) |-> f[i - 1]]
<1>4. Rec(g)
  <2> SUFFICES ASSUME NEW i \in 1 .. Len(PoolSize)
               PROVE  f[i - 1] = IF i = 1 THEN 0 ELSE g[i - 1] + Extent(i - 1)
    OBVIOUS
  <2>1. CASE i = 1
    BY <1>3a, <2>1
  <2>2. CASE i # 1
    <3>1. i - 2 \in Nat /\ i - 2 + 1 = i - 1 /\ i - 1 \in 1 .. Len(PoolSize)
          /\ i - 1 - 1 = i - 2
      BY <1>1, <2>2
    <3>2. f[i - 1] = step[i - 2][f[i - 2]]
      BY <1>3a, <3>1
    <3>3. step[i - 2][f[i - 2]] = f[i - 2] + Extent(i - 1)
      BY <1>3a, <3>1
    <3>4. QED
      BY <2>2, <3>1, <3>2, <3>3
  <2>3. QED
    BY <2>1, <2>2
<1>5. Area = CHOOSE a : Rec(a)
  BY DEF Area, Extent
<1>6. Rec(Area)
  <2> HIDE DEF Rec
  <2> QED BY <1>4, <1>5
<1>7. 1 \in PoolIndex => Area[1] = 0
  BY <1>6 DEF PoolIndex
<1>8. ASSUME NEW i \in PoolIndex, i + 1 \in PoolIndex
      PROVE  Area[i + 1] = Area[i] + Extent(i)
  <2>1. PICK k : k = i + 1
    OBVIOUS
  <2>2. k \in 1 .. Len(PoolSize) /\ k # 1 /\ i = k - 1
    BY <1>1, <1>8, <2>1 DEF PoolIndex
  <2>3. Area[k] = Area[k - 1] + Extent(k - 1)
    BY <1>6, <2>2
  <2>4. QED
    BY <2>1, <2>2, <2>3
<1> DEFINE S == {n \in Nat : n \in PoolIndex => Area[n] \in Nat}
<1>9. 0 \in S
  BY DEF PoolIndex
<1>10. ASSUME NEW n \in Nat, n \in S, n + 1 \in PoolIndex PROVE Area[n + 1] \in Nat
  <2>1. CASE n = 0
    BY <1>7, <1>10, <2>1
  <2>2. CASE n # 0
    <3>1. n \in PoolIndex
      BY <1>1, <1>10, <2>2 DEF PoolIndex
    <3>2. Area[n + 1] = Area[n] + Extent(n) /\ Extent(n) \in Nat /\ Area[n] \in Nat
      BY <1>1, <1>8, <1>10, <3>1 DEF PoolIndex
    <3>3. QED
      BY <3>2
  <2>3. QED
    BY <2>1, <2>2
<1>11. \A n \in Nat : n \in S => n + 1 \in S
  BY <1>10
<1>12. Nat \subseteq S
  <2> HIDE DEF S
  <2> QED BY <1>9, <1>11, SetInduction
<1>13. \A i \in PoolIndex : Area[i] \in Nat
  BY <1>1, <1>12 DEF PoolIndex
<1>14. Area = [i \in PoolIndex |-> Area[i]]
  BY <1>6 DEF PoolIndex
<1>15. QED
  BY <1>7, <1>8, <1>13, <1>14

(* Where block number k of pool i begins. *)
At(i, k) == Area[i] + k * PoolSize[i]

LEMMA AtGrows ==
  ASSUME NEW i \in PoolIndex
  PROVE  /\ \A k \in Nat : At(i, k) \in Nat
         /\ \A j, k \in Nat : j < k => At(i, j) + PoolSize[i] <= At(i, k)
         /\ At(i, 0) = Area[i]
         /\ Blocks(i) = {At(i, k) : k \in 0 .. PoolNum[i] - 1}
<1>1. Area[i] \in Nat /\ PoolSize[i] \in Nat
  BY AreaRecursion, PoolTypes
<1>2. ASSUME NEW k \in Nat PROVE At(i, k) \in Nat
  <2>1. k * PoolSize[i] \in Nat
    BY <1>1, Products
  <2>2. QED
    BY <1>1, <2>1 DEF At
<1>3. ASSUME NEW j \in Nat, NEW k \in Nat, j < k
      PROVE  At(i, j) + PoolSize[i] <= At(i, k)
  <2> DEFINE m == j * PoolSize[i]
             n == k * PoolSize[i]
  <2>1. m + PoolSize[i] <= n
    BY <1>1, <1>3, ProductGrows
  <2>2. m \in Nat /\ n \in Nat
    BY <1>1, Products
  <2>3. At(i, j) = Area[i] + m /\ At(i, k) = Area[i] + n
    BY DEF At
  <2> HIDE DEF m, n
  <2>4. QED
    BY <1>1, <2>1, <2>2, <2>3
<1>4. At(i, 0) = Area[i]
  BY <1>1 DEF At
<1>5. QED
  BY <1>2, <1>3, <1>4 DEF Blocks, At

LEMMA NextPlace ==
  ASSUME NEW i \in PoolIndex, NEW k \in Nat
  PROVE  At(i, k + 1) = At(i, k) + PoolSize[i]
<1>1. Area[i] \in Nat /\ PoolSize[i] \in Nat
  BY AreaRecursion, PoolTypes
<1> DEFINE m == k * PoolSize[i]
<1>2. (k + 1) * PoolSize[i] = m + PoolSize[i]
  BY <1>1
<1>3. m \in Nat
  BY <1>1, Products
<1>4. At(i, k) = Area[i] + m /\ At(i, k + 1) = Area[i] + (k + 1) * PoolSize[i]
  BY DEF At
<1> HIDE DEF m
<1>5. QED
  BY <1>1, <1>2, <1>3, <1>4

(* The pools lie one behind the other. *)
LEMMA AreaGrows ==
  ASSUME NEW i \in PoolIndex, NEW j \in PoolIndex, i < j
  PROVE  At(i, PoolNum[i]) <= Area[j]
<1> USE PoolTypes
<1> DEFINE end == At(i, PoolNum[i])
           S == {n \in Nat : n \in PoolIndex /\ i < n => end <= Area[n]}
<1>1. end \in Nat
  BY AtGrows
<1>2. 0 \in S
  OBVIOUS
<1>3. ASSUME NEW n \in Nat, n \in S PROVE n + 1 \in S
  <2> SUFFICES ASSUME n + 1 \in PoolIndex, i < n + 1 PROVE end <= Area[n + 1]
    OBVIOUS
  <2>1. n \in PoolIndex /\ n + 1 # 1 /\ n + 1 - 1 = n
    OBVIOUS
  <2>2. Area[n + 1] = At(n, PoolNum[n])
    <3>1. Area[n + 1] = Area[n] + Extent(n)
      BY <2>1, AreaRecursion
    <3>2. QED
      BY <3>1, Zenon DEF At, Extent
  <2>3. CASE n = i
    BY <2>2, <2>3, <1>1
  <2>4. CASE n # i
    <3>1. end <= Area[n]
      BY <1>3, <2>1, <2>4
    <3>2. CASE PoolNum[n] = 0
      BY <2>1, <2>2, <3>1, <3>2, AtGrows
    <3>3. CASE PoolNum[n] > 0
      <4>1. /\ At(n, 0) \in Nat /\ At(n, PoolNum[n]) \in Nat
            /\ At(n, 0) + PoolSize[n] <= At(n, PoolNum[n]) /\ At(n, 0) = Area[n]
        BY <2>1, <3>3, AtGrows
      <4> HIDE DEF end
      <4>2. QED
        BY <1>1, <2>1, <2>2, <3>1, <4>1
    <3>4. QED
      BY <2>1, <3>2, <3>3
  <2>5. QED
    BY <2>3, <2>4
<1>4. Nat \subseteq S
  BY <1>2, <1>3, SetInduction
<1>5. QED
  BY <1>4

(* A block lies in the area of its pool. *)
LEMMA BlockPlace ==
  ASSUME NEW i \in PoolIndex, NEW b \in Blocks(i)
  PROVE  /\ b \in Nat /\ b \in Block
         /\ Area[i] <= b
         /\ b + PoolSize[i] <= At(i, PoolNum[i])
<1>1. PICK k \in 0 .. PoolNum[i] - 1 : b = At(i, k)
  BY AtGrows
<1>2. k \in Nat /\ PoolNum[i] \in Nat /\ k < PoolNum[i] /\ 0 \in Nat
      /\ PoolSize[i] \in Nat
  BY PoolTypes
<1>3. b \in Nat /\ Area[i] \in Nat
  BY <1>1, <1>2, AtGrows, AreaRecursion
<1>4. b + PoolSize[i] <= At(i, PoolNum[i])
  BY <1>1, <1>2, AtGrows
<1>5. Area[i] <= b
  <2>1. 0 < k => Area[i] + PoolSize[i] <= b
    BY <1>1, <1>2, AtGrows
  <2>2. k = 0 => b = Area[i]
    BY <1>1, AtGrows
  <2>3. QED
    BY <1>2, <1>3, <2>1, <2>2
<1>6. QED
  BY <1>3, <1>4, <1>5 DEF Block

(* A block ends before the next one begins. *)
LEMMA BlocksApart ==
  ASSUME NEW i \in PoolIndex, NEW j \in PoolIndex,
         NEW b \in Blocks(i), NEW c \in Blocks(j), b # c \/ i # j
  PROVE  b + PoolSize[i] <= c \/ c + PoolSize[j] <= b
<1>1. CASE i = j
  <2>1. PICK k \in 0 .. PoolNum[i] - 1 : b = At(i, k)
    BY AtGrows
  <2>2. PICK m \in 0 .. PoolNum[i] - 1 : c = At(i, m)
    BY <1>1, AtGrows
  <2>3. k \in Nat /\ m \in Nat
    BY PoolTypes
  <2>4. k < m \/ m < k
    BY <1>1, <2>1, <2>2, <2>3
  <2>5. QED
    BY <1>1, <2>1, <2>2, <2>3, <2>4, AtGrows
<1>2. CASE i # j
  <2>1. /\ b \in Nat /\ c \in Nat /\ Area[i] \in Nat /\ Area[j] \in Nat
        /\ At(i, PoolNum[i]) \in Nat /\ At(j, PoolNum[j]) \in Nat
        /\ PoolSize[i] \in Nat /\ PoolSize[j] \in Nat
    BY BlockPlace, AreaRecursion, AtGrows, PoolTypes
  <2>2. /\ i < j => At(i, PoolNum[i]) <= Area[j]
        /\ j < i => At(j, PoolNum[j]) <= Area[i]
    BY AreaGrows
  <2>3. /\ Area[i] <= b /\ b + PoolSize[i] <= At(i, PoolNum[i])
        /\ Area[j] <= c /\ c + PoolSize[j] <= At(j, PoolNum[j])
    BY BlockPlace
  <2>4. i < j \/ j < i
    BY <1>2, PoolTypes
  <2>5. QED
    BY <2>1, <2>2, <2>3, <2>4
<1>3. QED
  BY <1>1, <1>2

(* The pool of a block is the one that kzmem_init_pool() put it in. *)
LEMMA HomeIsHome ==
  ASSUME NEW i \in PoolIndex, NEW b \in Blocks(i)
  PROVE  Home(b) = i /\ \A j \in PoolIndex : b \in Blocks(j) => j = i
<1>1. ASSUME NEW j \in PoolIndex, b \in Blocks(j), j # i PROVE FALSE
  BY <1>1, BlocksApart, BlockPlace, PoolTypes
<1>2. QED
  BY <1>1 DEF Home

-------------------------------------------------------------------------------
(***************************************************************************)
(* The inductive invariant.                                                *)
(***************************************************************************)
(* Sequence l has the blocks that the list of pool i leads to.             *)
FreeList(i, l) ==
  /\ free[i] = IF l = <<>> THEN NULL ELSE l[1]
  /\ \A k \in 1 .. Len(l) : next[l[k]] = IF k = Len(l) THEN NULL ELSE l[k + 1]
  /\ \A j, k \in 1 .. Len(l) : l[j] = l[k] => j = k
  /\ {l[k] : k \in 1 .. Len(l)} = Blocks(i) \ DOMAIN used

ListsHold == \A i \in PoolIndex : \E l \in Seq(Block) : FreeList(i, l)

(* Nobody was promised more than a block has. *)
UsedFits == \A i \in PoolIndex : \A b \in Blocks(i) :
              b \in DOMAIN used => HasRoom(i, used[b])

MemInv ==
  /\ TypeOK
  /\ used \in [DOMAIN used -> Int]
  /\ HeadersIntact
  /\ UsedFits
  /\ ListsHold

LEMMA BlockFacts ==
  /\ NULL \notin Block
  /\ \A b \in Block : b \in Nat /\ \E i \in PoolIndex : b \in Blocks(i)
  /\ \A i \in PoolIndex : Blocks(i) \subseteq Block
  /\ \A i, j \in PoolIndex : PoolSize[i] = PoolSize[j] => i = j
<1>1. \A b \in Block : b \in Nat /\ \E i \in PoolIndex : b \in Blocks(i)
  BY BlockPlace DEF Block
<1>2. NULL \notin Block
  BY <1>1, PoolAssumption
<1>3. \A i, j \in PoolIndex : PoolSize[i] = PoolSize[j] => i = j
  <2> SUFFICES ASSUME NEW i \in PoolIndex, NEW j \in PoolIndex, i # j
               PROVE  PoolSize[i] # PoolSize[j]
    OBVIOUS
  <2>1. i < j \/ j < i
    BY PoolTypes
  <2>2. PoolSize[i] < PoolSize[j] \/ PoolSize[j] < PoolSize[i]
    BY <2>1, PoolAssumption
  <2>3. QED
    BY <2>2, PoolTypes
<1>4. QED
  BY <1>1, <1>2, <1>3 DEF Block

LEMMA InitMem == Init => MemInv
<1> SUFFICES ASSUME Init PROVE MemInv
  OBVIOUS
<1>1. ASSUME NEW i \in PoolIndex, NEW b \in Blocks(i)
      PROVE  /\ size[b] = PoolSize[i]
             /\ next[b] = IF b + PoolSize[i] \in Blocks(i) THEN b + PoolSize[i] ELSE NULL
  BY HomeIsHome, BlockPlace DEF Init
<1>2. HeadersIntact
  BY <1>1 DEF HeadersIntact
<1>3. DOMAIN used = {} /\ used \in [DOMAIN used -> Int]
  BY DEF Init
<1>4. UsedFits
  BY <1>3 DEF UsedFits
<1>5. ASSUME NEW i \in PoolIndex PROVE \E l \in Seq(Block) : FreeList(i, l)
  <2> DEFINE n == PoolNum[i]
             l == [k \in 1 .. n |-> At(i, k - 1)]
  <2>1. n \in Nat /\ PoolSize[i] \in Nat /\ PoolSize[i] > 0
    BY PoolTypes
  <2>2. Blocks(i) = {At(i, k) : k \in 0 .. n - 1}
    BY AtGrows
  <2>3. /\ l \in Seq(Block) /\ Len(l) = n
        /\ \A k \in 1 .. n : l[k] = At(i, k - 1) /\ l[k] \in Blocks(i)
    BY <2>1, <2>2, BlockFacts
  <2>4. free[i] = IF n = 0 THEN NULL ELSE Area[i]
    BY DEF Init
  <2>5. At(i, 0) = Area[i]
    BY AtGrows
  <2>6. ASSUME NEW k \in 0 .. n - 1
        PROVE  next[At(i, k)] = IF k = n - 1 THEN NULL ELSE At(i, k + 1)
    <3>1. At(i, k + 1) = At(i, k) + PoolSize[i]
      BY <2>1, NextPlace
    <3>2. At(i, k) + PoolSize[i] \in Blocks(i) <=> k # n - 1
      <4>1. CASE k # n - 1
        BY <2>1, <2>2, <3>1, <4>1
      <4>2. CASE k = n - 1
        <5>1. ASSUME NEW m \in 0 .. n - 1, At(i, n) = At(i, m) PROVE FALSE
          <6>1. At(i, m) + PoolSize[i] <= At(i, n) /\ At(i, m) \in Nat
            BY <2>1, AtGrows
          <6>2. QED
            BY <2>1, <5>1, <6>1
        <5>2. QED
          BY <2>1, <2>2, <3>1, <4>2, <5>1
      <4>3. QED
        BY <4>1, <4>2
    <3>3. At(i, k) \in Blocks(i)
      BY <2>2
    <3>4. QED
      BY <1>1, <3>1, <3>2, <3>3
  <2>7. \A j, k \in 1 .. n : l[j] = l[k] => j = k
    <3> SUFFICES ASSUME NEW j \in 1 .. n, NEW k \in 1 .. n, j < k
                 PROVE  At(i, j - 1) # At(i, k - 1)
      BY <2>1, <2>3
    <3>1. At(i, j - 1) + PoolSize[i] <= At(i, k - 1) /\ At(i, j - 1) \in Nat
      BY <2>1, AtGrows
    <3>2. QED
      BY <2>1, <3>1
  <2>8. {l[k] : k \in 1 .. n} = Blocks(i)
    <3>1. \A k \in 0 .. n - 1 : k + 1 \in 1 .. n /\ At(i, k) = l[k + 1]
      BY <2>1
    <3> HIDE DEF l
    <3>2. QED
      BY <2>2, <2>3, <3>1
  <2>9. free[i] = IF l = <<>> THEN NULL ELSE l[1]
    <3>1. n # 0 => l[1] = Area[i]
      BY <2>1, <2>5
    <3> HIDE DEF l
    <3>2. l = <<>> <=> n = 0
      BY <2>3, EmptySeq
    <3>3. QED
      BY <2>4, <3>1, <3>2
  <2>10. \A k \in 1 .. n : next[l[k]] = IF k = n THEN NULL ELSE l[k + 1]
    <3> SUFFICES ASSUME NEW k \in 1 .. n
                 PROVE  next[At(i, k - 1)] = IF k = n THEN NULL ELSE l[k + 1]
      BY <2>3
    <3>1. next[At(i, k - 1)] = IF k - 1 = n - 1 THEN NULL ELSE At(i, k - 1 + 1)
      BY <2>1, <2>6
    <3>2. k # n => l[k + 1] = At(i, k)
      BY <2>1
    <3>3. k - 1 + 1 = k
      BY <2>1
    <3>4. QED
      BY <2>1, <3>1, <3>2, <3>3
  <2> HIDE DEF l
  <2>11. FreeList(i, l)
    BY <1>3, <2>3, <2>7, <2>8, <2>9, <2>10 DEF FreeList
  <2>12. QED
    BY <2>3, <2>11
<1>6. TypeOK
  <2>1. \A b \in Block : Home(b) \in PoolIndex /\ b \in Blocks(Home(b))
    BY BlockFacts, HomeIsHome
  <2>2. \A i \in PoolIndex : PoolNum[i] # 0 => Area[i] \in Block
    <3> SUFFICES ASSUME NEW i \in PoolIndex, PoolNum[i] # 0 PROVE Area[i] \in Block
      OBVIOUS
    <3>1. 0 \in 0 .. PoolNum[i] - 1
      BY PoolTypes
    <3>2. QED
      BY <3>1, AtGrows, BlockFacts
  <2>3. free \in [PoolIndex -> Block \cup {NULL}]
    BY <2>2 DEF Init
  <2>4. size \in [Block -> Nat]
    BY <2>1, PoolTypes DEF Init
  <2>5. next \in [Block -> Block \cup {NULL}]
    BY <2>1, BlockFacts DEF Init
  <2>6. QED
    BY <1>3, <2>3, <2>4, <2>5 DEF TypeOK, Init
<1>7. QED
  BY <1>2, <1>3, <1>4, <1>5, <1>6 DEF MemInv, ListsHold

-------------------------------------------------------------------------------
(***************************************************************************)
(* The calls.                                                              *)
(***************************************************************************)
(* A call on pool h leaves the list of another pool alone.                 *)
LEMMA OtherLists ==
  ASSUME MemInv, NEW h \in PoolIndex, NEW i \in PoolIndex, i # h,
         NEW b \in Blocks(h), free'[i] = free[i],
         \A c \in Block : c # b => next'[c] = next[c],
         \A c \in Block : c # b => (c \in DOMAIN used' <=> c \in DOMAIN used)
  PROVE  \E l \in Seq(Block) : FreeList(i, l)'
<1>1. PICK l \in Seq(Block) : FreeList(i, l)
  BY DEF MemInv, ListsHold
<1>2. b \notin Blocks(i) /\ Blocks(i) \subseteq Block
  BY HomeIsHome, BlockFacts
<1>3. \A k \in 1 .. Len(l) : l[k] \in Blocks(i)
  BY <1>1 DEF FreeList
<1>4. \A k \in 1 .. Len(l) : next'[l[k]] = next[l[k]]
  BY <1>2, <1>3
<1>5. Blocks(i) \ DOMAIN used' = Blocks(i) \ DOMAIN used
  BY <1>2
<1>6. FreeList(i, l)'
  BY <1>1, <1>4, <1>5 DEF FreeList
<1>7. QED
  BY <1>6

LEMMA TakeStep ==
  ASSUME MemInv, down = NULL, NEW n \in Request, NEW i \in PoolIndex,
         FirstFit(i, n), free[i] # NULL, Take(i),
         used' = [c \in DOMAIN used \cup {free[i]} |-> IF c = free[i] THEN n ELSE used[c]],
         UNCHANGED <<size, down>>
  PROVE  MemInv' /\ A!Next
<1>1. PICK l \in Seq(Block) : FreeList(i, l)
  BY DEF MemInv, ListsHold
<1> DEFINE b == free[i]
<1>2. /\ l # <<>> /\ b = l[1] /\ Len(l) \in Nat /\ Len(l) >= 1
      /\ next[b] = IF Len(l) = 1 THEN NULL ELSE l[2]
  <2>1. l # <<>> /\ b = l[1]
    BY <1>1 DEF FreeList
  <2>2. Len(l) \in Nat /\ Len(l) >= 1
    BY <2>1, EmptySeq
  <2>3. PICK k \in 1 .. Len(l) : k = 1
    BY <2>2
  <2>4. next[l[k]] = IF k = Len(l) THEN NULL ELSE l[k + 1]
    BY <1>1 DEF FreeList
  <2>5. k + 1 = 2
    BY <2>3
  <2>6. QED
    BY <2>1, <2>2, <2>3, <2>4, <2>5
<1>3. b \in Blocks(i) /\ b \in Block /\ b \notin DOMAIN used
  BY <1>1, <1>2, BlockFacts DEF FreeList
<1>4. /\ free \in [PoolIndex -> Block \cup {NULL}]
      /\ next \in [Block -> Block \cup {NULL}]
      /\ DOMAIN used \subseteq Block /\ n \in Int
  BY PoolAssumption DEF MemInv, TypeOK
<1>5. /\ free' \in [PoolIndex -> Block \cup {NULL}]
      /\ next' \in [Block -> Block \cup {NULL}]
      /\ free'[i] = next[b] /\ \A j \in PoolIndex : j # i => free'[j] = free[j]
      /\ \A c \in Block : c # b => next'[c] = next[c]
  BY <1>3, <1>4 DEF Take
<1> HIDE DEF b
<1>6. /\ DOMAIN used' = DOMAIN used \cup {b} /\ used'[b] = n
      /\ \A c \in DOMAIN used : c # b => used'[c] = used[c]
      /\ used' \in [DOMAIN used' -> Int]
  BY <1>4 DEF b, MemInv
<1>7. TypeOK'
  BY <1>3, <1>4, <1>5, <1>6 DEF MemInv, TypeOK
<1>8. UsedFits'
  <2> SUFFICES ASSUME NEW j \in PoolIndex, NEW c \in Blocks(j), c \in DOMAIN used'
               PROVE  HasRoom(j, used'[c])
    BY DEF UsedFits, HasRoom
  <2>1. CASE c = b
    BY <1>3, <1>6, <2>1, HomeIsHome DEF FirstFit
  <2>2. CASE c # b
    BY <1>6, <2>2 DEF MemInv, UsedFits
  <2>3. QED
    BY <2>1, <2>2
<1>9. \E m \in Seq(Block) : FreeList(i, m)'
  <2> DEFINE m == Tail(l)
  <2>1. /\ m \in Seq(Block) /\ Len(m) = Len(l) - 1
        /\ \A k \in 1 .. Len(m) : m[k] = l[k + 1] /\ k + 1 \in 1 .. Len(l)
    BY <1>2
  <2> HIDE DEF m
  <2>2. \A j, k \in 1 .. Len(l) : l[j] = l[k] => j = k
    BY <1>1 DEF FreeList
  <2>3. \A j, k \in 1 .. Len(m) : m[j] = m[k] => j = k
    <3> SUFFICES ASSUME NEW j \in 1 .. Len(m), NEW k \in 1 .. Len(m), m[j] = m[k]
                 PROVE  j = k
      OBVIOUS
    <3>1. j + 1 \in 1 .. Len(l) /\ k + 1 \in 1 .. Len(l) /\ l[j + 1] = l[k + 1]
      BY <2>1
    <3>2. j + 1 = k + 1
      BY <2>2, <3>1
    <3>3. QED
      BY <3>2
  <2>4. \A k \in 1 .. Len(m) : m[k] # b
    <3> SUFFICES ASSUME NEW k \in 1 .. Len(m), m[k] = b PROVE FALSE
      OBVIOUS
    <3>1. k + 1 \in 1 .. Len(l) /\ 1 \in 1 .. Len(l) /\ l[k + 1] = l[1]
      BY <1>2, <2>1
    <3>2. k + 1 = 1
      BY <2>2, <3>1
    <3>3. QED
      BY <1>2, <2>1, <3>2
  <2>5. {m[k] : k \in 1 .. Len(m)} = {l[k] : k \in 1 .. Len(l)} \ {b}
    <3>1. ASSUME NEW k \in 1 .. Len(l), l[k] # b
          PROVE  \E j \in 1 .. Len(m) : m[j] = l[k]
      <4>1. k # 1
        BY <1>2, <3>1
      <4>2. k - 1 \in 1 .. Len(m) /\ k - 1 + 1 = k
        BY <1>2, <2>1, <4>1
      <4>3. QED
        BY <2>1, <4>2
    <3>2. ASSUME NEW k \in 1 .. Len(m) PROVE \E j \in 1 .. Len(l) : l[j] = m[k]
      BY <2>1
    <3> DEFINE L == {l[k] : k \in 1 .. Len(l)}
               M == {m[k] : k \in 1 .. Len(m)}
    <3>3. M \subseteq L /\ b \notin M
      BY <2>4, <3>2
    <3>4. L \ {b} \subseteq M
      BY <3>1
    <3> HIDE DEF L, M
    <3>5. M = L \ {b}
      BY <3>3, <3>4
    <3>6. QED
      BY <3>5 DEF L, M
  <2>6. {m[k] : k \in 1 .. Len(m)} = Blocks(i) \ DOMAIN used'
    BY <1>1, <1>6, <2>5 DEF FreeList
  <2>7. free'[i] = IF m = <<>> THEN NULL ELSE m[1]
    <3>1. m = <<>> <=> Len(l) = 1
      BY <1>2, <2>1, EmptySeq
    <3>2. m # <<>> => m[1] = l[2]
      BY <1>2, <2>1, <3>1
    <3>3. QED
      BY <1>2, <1>5, <3>1, <3>2
  <2>8. ASSUME NEW k \in 1 .. Len(m)
        PROVE  next'[m[k]] = IF k = Len(m) THEN NULL ELSE m[k + 1]
    <3>1. m[k] \in Block /\ m[k] # b
      BY <2>1, <2>4
    <3>2. PICK j \in 1 .. Len(l) : j = k + 1
      BY <2>1
    <3>3. m[k] = l[j] /\ next[l[j]] = IF j = Len(l) THEN NULL ELSE l[j + 1]
      BY <1>1, <2>1, <3>2 DEF FreeList
    <3>4. k # Len(m) => m[k + 1] = l[j + 1]
      <4> SUFFICES ASSUME k # Len(m) PROVE m[k + 1] = l[j + 1]
        OBVIOUS
      <4>1. k + 1 \in 1 .. Len(m)
        BY <2>1, <1>2
      <4>2. m[k + 1] = l[k + 1 + 1]
        BY <2>1, <4>1
      <4>3. QED
        BY <3>2, <4>2
    <3>5. k = Len(m) <=> j = Len(l)
      BY <1>2, <2>1, <3>2
    <3>6. next'[m[k]] = next[m[k]]
      BY <1>5, <3>1
    <3>7. QED
      BY <3>3, <3>4, <3>5, <3>6
  <2>9. FreeList(i, m)'
    BY <2>3, <2>6, <2>7, <2>8 DEF FreeList
  <2>10. QED
    BY <2>1, <2>9
<1>10. ListsHold'
  <2> SUFFICES ASSUME NEW j \in PoolIndex PROVE \E m \in Seq(Block) : FreeList(j, m)'
    BY DEF ListsHold
  <2>1. CASE j = i
    BY <1>9, <2>1
  <2>2. CASE j # i
    <3>1. \A c \in Block : c # b => (c \in DOMAIN used' <=> c \in DOMAIN used)
      BY <1>6
    <3>2. QED
      BY <1>3, <1>5, <2>2, <3>1, OtherLists
  <2>3. QED
    BY <2>1, <2>2
<1>11. HeadersIntact'
  BY DEF MemInv, HeadersIntact
<1>12. A!Next
  <2>1. A!Serves(i, n)
    <3>1. n <= Room(i) /\ 0 <= n
      BY DEF FirstFit, HasRoom, Room
    <3>2. ASSUME NEW j \in PoolIndex, j < i PROVE n > Room(j)
      <4>1. j \in 1 .. i - 1
        BY <3>2, PoolTypes
      <4>2. ~HasRoom(j, n)
        BY <4>1 DEF FirstFit
      <4>3. QED
        BY <1>4, <3>1, <4>2, PoolTypes DEF HasRoom, Room
    <3>3. QED
      BY <3>1, <3>2 DEF A!Serves
  <2>2. A!Alloc(n)
    BY <1>3, <2>1 DEF A!Alloc, b
  <2>3. QED
    BY <2>2 DEF A!Next
<1>13. QED
  BY <1>6, <1>7, <1>8, <1>10, <1>11, <1>12 DEF MemInv

(* kzmem_alloc() gives up only when it must. *)
LEMMA AllocStep ==
  ASSUME MemInv, NEW n \in Request, kzmem_alloc(n)
  PROVE  MemInv' /\ A!Next
<1>1. down = NULL /\ n \in Int
  BY PoolAssumption DEF kzmem_alloc
<1>2. ASSUME kz_sysdown(n) PROVE MemInv'
  <2>1. UNCHANGED <<free, next, size, used>> /\ down' = n
    BY <1>2 DEF kz_sysdown
  <2>2. QED
    BY <2>1, SMTT(40) DEF MemInv, TypeOK, HeadersIntact, UsedFits, ListsHold, FreeList
<1>3. CASE \E i \in PoolIndex :
             /\ FirstFit(i, n) /\ free[i] # NULL /\ Take(i)
             /\ used' = [c \in DOMAIN used \cup {free[i]} |->
                           IF c = free[i] THEN n ELSE used[c]]
             /\ UNCHANGED <<size, down>>
  BY <1>1, <1>3, TakeStep
<1>4. CASE \E i \in PoolIndex : FirstFit(i, n) /\ free[i] = NULL /\ kz_sysdown(n)
  <2>1. PICK i \in PoolIndex : FirstFit(i, n) /\ free[i] = NULL /\ kz_sysdown(n)
    BY <1>4
  <2>2. PICK l \in Seq(Block) : FreeList(i, l)
    BY DEF MemInv, ListsHold
  <2>3. l = <<>>
    <3>1. l # <<>> => l[1] \in Block
      BY EmptySeq
    <3>2. QED
      BY <2>1, <2>2, <3>1, BlockFacts DEF FreeList
  <2>4. Blocks(i) \subseteq DOMAIN used
    <3>1. 1 .. Len(l) = {}
      BY <2>3, EmptySeq
    <3>2. QED
      BY <2>2, <3>1 DEF FreeList
  <2>5. ASSUME NEW j \in PoolIndex, A!Serves(j, n) PROVE j = i
    <3>1. HasRoom(j, n)
      BY <2>5 DEF A!Serves, HasRoom, Room
    <3>2. ~(j < i)
      BY <2>1, <3>1, PoolTypes DEF FirstFit
    <3>3. ~(i < j)
      <4>1. n <= Room(i) /\ Room(i) \in Int
        BY <2>1, PoolTypes DEF FirstFit, HasRoom, Room
      <4>2. i < j => n > Room(i)
        BY <2>5 DEF A!Serves
      <4>3. QED
        BY <1>1, <4>1, <4>2
    <3>4. QED
      BY <3>2, <3>3, PoolTypes
  <2>6. A!Fail(n)
    BY <2>1, <2>4, <2>5 DEF A!Fail, kz_sysdown
  <2>7. QED
    BY <1>1, <1>2, <2>1, <2>6 DEF A!Next
<1>5. CASE (\A i \in PoolIndex : ~HasRoom(i, n)) /\ kz_sysdown(n)
  <2>1. \A i \in PoolIndex : ~A!Serves(i, n)
    BY <1>5 DEF A!Serves, HasRoom, Room
  <2>2. A!Fail(n)
    BY <1>5, <2>1 DEF A!Fail, kz_sysdown
  <2>3. QED
    BY <1>1, <1>2, <1>5, <2>2 DEF A!Next
<1>6. QED
  BY <1>3, <1>4, <1>5 DEF kzmem_alloc

(* The block comes back to the list of its own pool. *)
LEMMA FreeStep ==
  ASSUME MemInv, NEW b \in Block, kzmem_free(b)
  PROVE  MemInv' /\ A!Next
<1>1. down = NULL /\ b \in DOMAIN used
  BY DEF kzmem_free
<1>2. PICK i \in PoolIndex : b \in Blocks(i)
  BY BlockFacts
<1>3. size[b] = PoolSize[i]
  BY <1>2 DEF MemInv, HeadersIntact
<1>4. /\ next' = [next EXCEPT ![b] = free[i]]
      /\ free' = [free EXCEPT ![i] = b]
      /\ used' = Restrict(used, DOMAIN used \ {b})
      /\ UNCHANGED <<size, down>>
  BY <1>3, BlockFacts DEF kzmem_free
<1>5. PICK l \in Seq(Block) : FreeList(i, l)
  BY DEF MemInv, ListsHold
<1>6. /\ free \in [PoolIndex -> Block \cup {NULL}]
      /\ next \in [Block -> Block \cup {NULL}]
      /\ DOMAIN used \subseteq Block /\ used \in [DOMAIN used -> Int]
  BY DEF MemInv, TypeOK
<1>7. /\ free' \in [PoolIndex -> Block \cup {NULL}]
      /\ next' \in [Block -> Block \cup {NULL}]
      /\ free'[i] = b /\ \A j \in PoolIndex : j # i => free'[j] = free[j]
      /\ next'[b] = free[i] /\ \A c \in Block : c # b => next'[c] = next[c]
  BY <1>4, <1>6
<1>8. /\ DOMAIN used' = DOMAIN used \ {b}
      /\ \A c \in DOMAIN used' : used'[c] = used[c]
      /\ used' \in [DOMAIN used' -> Int]
  BY <1>4, <1>6 DEF Restrict
<1>9. TypeOK'
  BY <1>4, <1>7, <1>8 DEF MemInv, TypeOK
<1>10. UsedFits'
  BY <1>8 DEF MemInv, UsedFits, HasRoom
<1>11. \E m \in Seq(Block) : FreeList(i, m)'
  <2> DEFINE m == <<b>> \o l
  <2>1. /\ m \in Seq(Block) /\ Len(m) = Len(l) + 1 /\ Len(l) \in Nat
        /\ m[1] = b /\ \A k \in 1 .. Len(l) : m[k + 1] = l[k]
    OBVIOUS
  <2> HIDE DEF m
  <2>2. \A k \in 1 .. Len(l) : l[k] # b /\ l[k] \in Block
    BY <1>1, <1>5, <1>6 DEF FreeList
  <2>3. ASSUME NEW k \in 1 .. Len(m), k # 1
        PROVE  \E j \in 1 .. Len(l) : k = j + 1 /\ m[k] = l[j]
    <3>1. k - 1 \in 1 .. Len(l) /\ k = k - 1 + 1
      BY <2>1, <2>3
    <3>2. QED
      BY <2>1, <3>1
  <2>4. \A j, k \in 1 .. Len(m) : m[j] = m[k] => j = k
    <3> SUFFICES ASSUME NEW j \in 1 .. Len(m), NEW k \in 1 .. Len(m), m[j] = m[k]
                 PROVE  j = k
      OBVIOUS
    <3>1. (j = 1 /\ k # 1) \/ (j # 1 /\ k = 1) => FALSE
      BY <2>1, <2>2, <2>3
    <3>2. ASSUME j # 1, k # 1 PROVE j = k
      <4>1. PICK j0 \in 1 .. Len(l) : j = j0 + 1 /\ m[j] = l[j0]
        BY <2>3, <3>2
      <4>2. PICK k0 \in 1 .. Len(l) : k = k0 + 1 /\ m[k] = l[k0]
        BY <2>3, <3>2
      <4>3. j0 = k0
        BY <1>5, <4>1, <4>2 DEF FreeList
      <4>4. QED
        BY <4>1, <4>2, <4>3
    <3>3. QED
      BY <3>1, <3>2
  <2>5. {m[k] : k \in 1 .. Len(m)} = Blocks(i) \ DOMAIN used'
    <3> DEFINE L == {l[k] : k \in 1 .. Len(l)}
               M == {m[k] : k \in 1 .. Len(m)}
    <3>1. L \subseteq M /\ b \in M
      <4>1. \A k \in 1 .. Len(l) : k + 1 \in 1 .. Len(m)
        BY <2>1
      <4>2. 1 \in 1 .. Len(m)
        BY <2>1
      <4>3. QED
        BY <2>1, <4>1, <4>2
    <3>2. M \subseteq L \cup {b}
      <4> SUFFICES ASSUME NEW k \in 1 .. Len(m) PROVE m[k] \in L \cup {b}
        OBVIOUS
      <4>1. CASE k = 1
        BY <2>1, <4>1
      <4>2. CASE k # 1
        BY <2>3, <4>2
      <4>3. QED
        BY <4>1, <4>2
    <3>3. L = Blocks(i) \ DOMAIN used
      BY <1>5 DEF FreeList
    <3> HIDE DEF L, M
    <3>4. M = Blocks(i) \ DOMAIN used'
      BY <1>1, <1>2, <1>8, <3>1, <3>2, <3>3
    <3>5. QED
      BY <3>4 DEF M
  <2>6. free'[i] = IF m = <<>> THEN NULL ELSE m[1]
    BY <1>7, <2>1, EmptySeq
  <2>7. ASSUME NEW k \in 1 .. Len(m)
        PROVE  next'[m[k]] = IF k = Len(m) THEN NULL ELSE m[k + 1]
    <3>1. CASE k = 1
      <4>1. next'[m[k]] = free[i]
        BY <1>7, <2>1, <3>1
      <4>2. free[i] = IF l = <<>> THEN NULL ELSE l[1]
        BY <1>5 DEF FreeList
      <4>3. l = <<>> <=> k = Len(m)
        BY <2>1, <3>1, EmptySeq
      <4>4. l # <<>> => m[k + 1] = l[1]
        <5>1. l # <<>> => 1 \in 1 .. Len(l)
          BY <2>1, EmptySeq
        <5>2. QED
          BY <2>1, <3>1, <5>1
      <4>5. QED
        BY <4>1, <4>2, <4>3, <4>4
    <3>2. CASE k # 1
      <4>1. PICK j \in 1 .. Len(l) : k = j + 1 /\ m[k] = l[j]
        BY <2>3, <3>2
      <4>2. next'[m[k]] = next[l[j]]
        BY <1>7, <2>2, <4>1
      <4>3. next[l[j]] = IF j = Len(l) THEN NULL ELSE l[j + 1]
        BY <1>5 DEF FreeList
      <4>4. j = Len(l) <=> k = Len(m)
        BY <2>1, <4>1
      <4>5. j # Len(l) => m[k + 1] = l[j + 1]
        <5>1. j # Len(l) => j + 1 \in 1 .. Len(l)
          BY <2>1
        <5>2. PICK h : h = j + 1
          OBVIOUS
        <5>3. QED
          BY <2>1, <4>1, <5>1, <5>2
      <4>6. QED
        BY <4>2, <4>3, <4>4, <4>5
    <3>3. QED
      BY <3>1, <3>2
  <2>8. FreeList(i, m)'
    BY <2>4, <2>5, <2>6, <2>7 DEF FreeList
  <2>9. QED
    BY <2>1, <2>8
<1>12. ListsHold'
  <2> SUFFICES ASSUME NEW j \in PoolIndex PROVE \E m \in Seq(Block) : FreeList(j, m)'
    BY DEF ListsHold
  <2>1. CASE j = i
    BY <1>11, <2>1
  <2>2. CASE j # i
    <3>1. \A c \in Block : c # b => (c \in DOMAIN used' <=> c \in DOMAIN used)
      BY <1>8
    <3>2. QED
      BY <1>2, <1>7, <2>2, <3>1, OtherLists
  <2>3. QED
    BY <2>1, <2>2
<1>13. HeadersIntact'
  BY <1>4 DEF MemInv, HeadersIntact
<1>14. A!Next
  BY <1>1, <1>4 DEF A!Next, A!Free, A!Restrict, Restrict
<1>15. QED
  BY <1>8, <1>9, <1>10, <1>12, <1>13, <1>14 DEF MemInv

(* The bytes that were asked for end before the next header. *)
LEMMA FillStep ==
  ASSUME MemInv, NEW b \in Block, Fill(b)
  PROVE  UNCHANGED vars
<1> DEFINE first == b + Header
           hit == {h \in Block : h < first + used[b] /\ first < h + Header}
<1>1. b \in DOMAIN used /\ UNCHANGED <<free, used, down>>
  BY DEF Fill
<1>2. PICK i \in PoolIndex : b \in Blocks(i)
  BY BlockFacts
<1>3. 0 <= used[b] /\ used[b] <= PoolSize[i] - Header /\ used[b] \in Int
  BY <1>1, <1>2 DEF MemInv, UsedFits, HasRoom
<1>4. ASSUME NEW h \in hit PROVE FALSE
  <2>1. PICK j \in PoolIndex : h \in Blocks(j)
    BY BlockFacts
  <2>2. h \in Nat /\ b \in Nat
    BY BlockFacts
  <2>3. h # b
    BY <2>2, PoolTypes
  <2>4. b + PoolSize[i] <= h \/ h + PoolSize[j] <= b
    BY <1>2, <2>1, <2>3, BlocksApart
  <2>5. QED
    BY <1>3, <2>2, <2>4, PoolTypes
<1>5. /\ size' = [h \in Block |-> IF h \in hit THEN 0 ELSE size[h]]
      /\ next' = [h \in Block |-> IF h \in hit THEN NULL ELSE next[h]]
  BY DEF Fill
<1> HIDE DEF hit
<1>6. size' = [h \in Block |-> size[h]] /\ next' = [h \in Block |-> next[h]]
  BY <1>4, <1>5
<1>7. QED
  BY <1>1, <1>6 DEF vars, MemInv, TypeOK

LEMMA NextMem ==
  ASSUME MemInv, [Next]_vars
  PROVE  MemInv' /\ [A!Next]_(A!vars)
<1>1. ASSUME UNCHANGED vars PROVE MemInv' /\ UNCHANGED A!vars
  <2>1. UNCHANGED <<free, next, size, used, down>>
    BY <1>1 DEF vars
  <2>2. UNCHANGED A!vars
    BY <2>1 DEF A!vars
  <2>3. TypeOK' /\ HeadersIntact' /\ UsedFits' /\ (used \in [DOMAIN used -> Int])'
    BY <2>1 DEF MemInv, TypeOK, HeadersIntact, UsedFits, HasRoom
  <2>4. ListsHold'
    BY <2>1 DEF MemInv, ListsHold, FreeList
  <2>5. QED
    BY <2>2, <2>3, <2>4 DEF MemInv
<1>2. ASSUME NEW n \in Request, kzmem_alloc(n) PROVE MemInv' /\ A!Next
  BY <1>2, AllocStep
<1>3. ASSUME NEW b \in Block, kzmem_free(b) PROVE MemInv' /\ A!Next
  BY <1>3, FreeStep
<1>4. ASSUME NEW b \in Block, Fill(b) PROVE UNCHANGED vars
  BY <1>4, FillStep
<1>5. QED
  BY <1>1, <1>2, <1>3, <1>4 DEF Next

LEMMA Inductive == Spec => []MemInv
<1>1. Init => MemInv
  BY InitMem
<1>2. MemInv /\ [Next]_vars => MemInv'
  BY NextMem
<1>3. QED
  BY <1>1, <1>2, PTL DEF Spec

-------------------------------------------------------------------------------
(***************************************************************************)
(* What the invariant means.                                               *)
(***************************************************************************)
(* No pool has more blocks than it was made of.                            *)
LEMMA ListIsShort ==
  ASSUME NEW i \in PoolIndex, NEW l \in Seq(Block), FreeList(i, l)
  PROVE  Len(l) <= PoolNum[i]
<1> DEFINE n == PoolNum[i]
           f == [k \in 0 .. n - 1 |-> At(i, k)]
           L == {l[k] : k \in 1 .. Len(l)}
           g == [k \in 1 .. Len(l) |-> l[k]]
<1>1. n \in Nat /\ Len(l) \in Nat
  BY PoolTypes
<1>2. f \in Surjection(0 .. n - 1, Blocks(i))
  BY AtGrows DEF Surjection
<1>3. IsFiniteSet(0 .. n - 1) /\ Cardinality(0 .. n - 1) = n
  <2>1. 0 \in Int /\ n - 1 \in Int /\ (IF 0 > n - 1 THEN 0 ELSE n - 1 - 0 + 1) = n
    BY <1>1
  <2> HIDE DEF n
  <2> QED BY <2>1, FS_Interval
<1>4. IsFiniteSet(Blocks(i)) /\ Cardinality(Blocks(i)) <= n
  <2> HIDE DEF f
  <2> QED BY <1>2, <1>3, FS_Surjection
<1>5. IsFiniteSet(L) /\ Cardinality(L) <= Cardinality(Blocks(i))
  BY <1>4, FS_Subset DEF FreeList
<1>6. g \in Injection(1 .. Len(l), L)
  BY DEF Injection, IsInjective, FreeList
<1>7. IsFiniteSet(1 .. Len(l)) /\ Cardinality(1 .. Len(l)) = Len(l)
  <2>1. 1 \in Int /\ Len(l) \in Int
        /\ (IF 1 > Len(l) THEN 0 ELSE Len(l) - 1 + 1) = Len(l)
    BY <1>1
  <2> QED BY <2>1, FS_Interval
<1>8. Cardinality(1 .. Len(l)) <= Cardinality(L)
  <2> HIDE DEF g, L
  <2> QED BY <1>5, <1>6, FS_Injection
<1>9. Cardinality(L) \in Nat /\ Cardinality(Blocks(i)) \in Nat
  BY <1>4, <1>5, FS_CardinalityType
<1> HIDE DEF L
<1>10. QED
  BY <1>1, <1>4, <1>5, <1>7, <1>8, <1>9

(* A walk visits the sequence, and then stays at the end.                  *)
LEMMA WalkVisits ==
  ASSUME NEW i \in PoolIndex, NEW l \in Seq(Block), FreeList(i, l)
  PROVE  \A k \in 0 .. PoolNum[i] : Walk(i)[k] = IF k < Len(l) THEN l[k + 1] ELSE NULL
<1> DEFINE n == PoolNum[i]
           w == [k \in 0 .. n |-> IF k < Len(l) THEN l[k + 1] ELSE NULL]
           Rec(at) == at = [k \in 0 .. n |->
                              IF k = 0 THEN free[i]
                              ELSE IF at[k - 1] = NULL THEN NULL ELSE next[at[k - 1]]]
<1>1. n \in Nat /\ Len(l) \in Nat
  BY PoolTypes
<1>2. \A k \in 1 .. Len(l) : l[k] # NULL
  BY BlockFacts
<1>3. Rec(w)
  <2> SUFFICES ASSUME NEW k \in 0 .. n
               PROVE  w[k] = IF k = 0 THEN free[i]
                             ELSE IF w[k - 1] = NULL THEN NULL ELSE next[w[k - 1]]
    OBVIOUS
  <2>1. CASE k = 0
    <3>1. l = <<>> <=> Len(l) = 0
      BY EmptySeq
    <3>2. w[0] = IF 0 < Len(l) THEN l[1] ELSE NULL
      BY <1>1
    <3>3. QED
      BY <1>1, <2>1, <3>1, <3>2 DEF FreeList
  <2>2. CASE k # 0
    <3>1. k - 1 \in 0 .. n /\ k - 1 + 1 = k
      BY <1>1, <2>2
    <3>2. w[k - 1] = IF k - 1 < Len(l) THEN l[k] ELSE NULL
      BY <3>1
    <3>3. CASE k - 1 < Len(l)
      <4>1. k \in 1 .. Len(l)
        BY <1>1, <2>2, <3>3
      <4>2. next[l[k]] = IF k = Len(l) THEN NULL ELSE l[k + 1]
        BY <4>1 DEF FreeList
      <4>3. k < Len(l) <=> k # Len(l)
        BY <1>1, <4>1
      <4>4. w[k] = IF k < Len(l) THEN l[k + 1] ELSE NULL
        OBVIOUS
      <4> HIDE DEF w
      <4>5. QED
        BY <1>2, <2>2, <3>2, <3>3, <4>1, <4>2, <4>3, <4>4
    <3>4. CASE ~(k - 1 < Len(l))
      BY <1>1, <2>2, <3>2, <3>4
    <3>5. QED
      BY <3>3, <3>4
  <2>3. QED
    BY <2>1, <2>2
<1>4. Walk(i) = CHOOSE at : Rec(at)
  BY DEF Walk
<1>5. Rec(Walk(i))
  <2> HIDE DEF Rec
  <2> QED BY <1>3, <1>4
<1> DEFINE S == {k \in Nat : k \in 0 .. n => Walk(i)[k] = w[k]}
<1>6. 0 \in S
  BY <1>1, <1>3, <1>5
<1>7. \A k \in Nat : k \in S => k + 1 \in S
  <2> SUFFICES ASSUME NEW k \in Nat, k \in S, k + 1 \in 0 .. n
               PROVE  Walk(i)[k + 1] = w[k + 1]
    OBVIOUS
  <2>1. PICK m \in 0 .. n : m = k + 1
    OBVIOUS
  <2>2. m # 0 /\ m - 1 = k /\ k \in 0 .. n
    BY <1>1, <2>1
  <2>3. Walk(i)[m] = IF Walk(i)[m - 1] = NULL THEN NULL ELSE next[Walk(i)[m - 1]]
    BY <1>5, <2>2
  <2>4. w[m] = IF w[m - 1] = NULL THEN NULL ELSE next[w[m - 1]]
    BY <1>3, <2>2
  <2>5. Walk(i)[k] = w[k]
    BY <2>2
  <2> HIDE DEF w
  <2>6. QED
    BY <2>1, <2>2, <2>3, <2>4, <2>5
<1>8. Nat \subseteq S
  <2> HIDE DEF S
  <2> QED BY <1>6, <1>7, SetInduction
<1>9. ASSUME NEW k \in 0 .. n PROVE Walk(i)[k] = w[k]
  <2>1. k \in S
    <3> HIDE DEF S
    <3> QED BY <1>1, <1>8
  <2> HIDE DEF w
  <2>2. QED
    BY <2>1
<1>10. QED
  BY <1>9

LEMMA InvLists == MemInv => FreeListsHoldTheRest
<1> SUFFICES ASSUME MemInv, NEW i \in PoolIndex
             PROVE  /\ Walk(i)[PoolNum[i]] = NULL
                    /\ {Walk(i)[k] : k \in 0 .. PoolNum[i]} \ {NULL} = Blocks(i) \ DOMAIN used
  BY DEF FreeListsHoldTheRest
<1>1. PICK l \in Seq(Block) : FreeList(i, l)
  BY DEF MemInv, ListsHold
<1> DEFINE n == PoolNum[i]
           W == {Walk(i)[k] : k \in 0 .. n}
           L == {l[k] : k \in 1 .. Len(l)}
<1>2. n \in Nat /\ Len(l) \in Nat /\ Len(l) <= n
  BY <1>1, PoolTypes, ListIsShort
<1>3. \A k \in 0 .. n : Walk(i)[k] = IF k < Len(l) THEN l[k + 1] ELSE NULL
  BY <1>1, WalkVisits
<1>4. Walk(i)[n] = NULL
  BY <1>2, <1>3
<1>5. NULL \notin L
  BY BlockFacts
<1>6. W \ {NULL} \subseteq L
  <2> SUFFICES ASSUME NEW k \in 0 .. n, Walk(i)[k] # NULL PROVE Walk(i)[k] \in L
    OBVIOUS
  <2>1. k < Len(l) /\ Walk(i)[k] = l[k + 1]
    BY <1>3
  <2>2. k + 1 \in 1 .. Len(l)
    BY <1>2, <2>1
  <2>3. QED
    BY <2>1, <2>2
<1>7. L \subseteq W
  <2> SUFFICES ASSUME NEW k \in 1 .. Len(l) PROVE l[k] \in W
    OBVIOUS
  <2>1. PICK j \in 0 .. n : j + 1 = k /\ j < Len(l)
    <3>1. k - 1 \in 0 .. n /\ k - 1 + 1 = k /\ k - 1 < Len(l)
      BY <1>2
    <3>2. QED
      BY <3>1
  <2>2. Walk(i)[j] = l[k]
    BY <1>3, <2>1
  <2>3. QED
    BY <2>2
<1>8. L = Blocks(i) \ DOMAIN used
  BY <1>1 DEF FreeList
<1> HIDE DEF W, L
<1>9. W \ {NULL} = Blocks(i) \ DOMAIN used
  BY <1>5, <1>6, <1>7, <1>8
<1>10. QED
  BY <1>4, <1>9 DEF W

(* The variables of the pools have their types; kzmem_free() never takes   *)
(* the system down, so down is a request.                                  *)
THEOREM Typing == Spec => []TypeOK
BY Inductive, PTL DEF MemInv

(* Every free list ends and has each unused block of its pool once, after  *)
(* any sequence of kzmem_alloc(), kzmem_free() and writes of the owners.   *)
THEOREM ListsAreWhole == Spec => []FreeListsHoldTheRest
<1>1. MemInv => FreeListsHoldTheRest
  BY InvLists
<1>2. QED
  BY <1>1, Inductive, PTL

(* No owner who keeps to the size it asked for reaches a header: the size  *)
(* that kzmem_alloc() promises is there.                                   *)
THEOREM HeadersStay == Spec => []HeadersIntact
<1>1. MemInv => HeadersIntact
  BY DEF MemInv
<1>2. QED
  BY <1>1, Inductive, PTL

(* memory.c does what Allocator promises: a block that nobody has, of the  *)
(* first pool with room, and a system down only when that pool is empty.   *)
THEOREM PoolsAllocate == Spec => ImplementsAllocator
<1>1. Init => A!Init
  BY DEF Init, A!Init
<1>2. MemInv /\ [Next]_vars => [A!Next]_(A!vars)
  BY NextMem
<1>3. QED
  BY <1>1, <1>2, Inductive, PTL DEF Spec, ImplementsAllocator, A!Spec
===============================================================================
