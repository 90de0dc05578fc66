--------------------------- MODULE KozosListsProofs ---------------------------
(***************************************************************************)
(* The linked lists of the kernel hold its ready queues after any sequence *)
(* of calls, for any number of threads, priorities, boxes and blocks.      *)
(***************************************************************************)
EXTENDS KozosLists, KozosProofs

-------------------------------------------------------------------------------
(***************************************************************************)
(* getcurrent() and putcurrent() on the pointers do what they do on the    *)
(* sequences, as long as the queues are consistent.                        *)
(***************************************************************************)
(* Lengths and elements of a queue without its head. *)
LEMMA TailFacts ==
  ASSUME NEW q \in Seq(Thread), q # <<>>
  PROVE  \E n \in Nat :
           /\ n = Len(q) /\ n >= 1 /\ Len(Tail(q)) = n - 1
           /\ \A i \in 1 .. n - 1 : Tail(q)[i] = q[i + 1]
           /\ n = 1 <=> Tail(q) = <<>>
           /\ n = 1 \/ (n - 1 \in 1 .. n - 1 /\ 1 \in 1 .. n - 1)
<1>1. Tail(q) \in Seq(Thread) /\ Len(Tail(q)) = Len(q) - 1
  OBVIOUS
<1>2. /\ \A i \in 1 .. Len(q) - 1 : Tail(q)[i] = q[i + 1]
      /\ Len(q) \in Nat /\ Len(q) >= 1
  BY EmptySeq
<1>3. Len(q) - 1 = 0 <=> Tail(q) = <<>>
  BY <1>1, EmptySeq
<1>4. \A n \in Nat : n >= 1 => n = 1 \/ (n - 1 \in 1 .. n - 1 /\ 1 \in 1 .. n - 1)
  BY Z3
<1>5. Len(q) = 1 <=> Len(q) - 1 = 0
  BY <1>2, Z3
<1>6. Len(q) = 1 \/ (Len(q) - 1 \in 1 .. Len(q) - 1 /\ 1 \in 1 .. Len(q) - 1)
  BY <1>2, <1>4, Zenon
<1>7. QED
  BY <1>1, <1>2, <1>3, <1>5, <1>6, Zenon

(***************************************************************************)
(* The links of a queue lead through its tail, and say whether it is empty.*)
(***************************************************************************)
LEMMA TailLinks ==
  ASSUME NEW q \in Seq(Thread), q # <<>>,
         \A i, j \in 1 .. Len(q) : q[i] = q[j] => i = j,
         NEW next, \A i \in 1 .. Len(q) : next[q[i]] = Successor(q, i)
  PROVE  /\ next[Head(q)] = HeadOf(Tail(q))
         /\ next[Head(q)] = NULL <=> Tail(q) = <<>>
         /\ TailOf(Tail(q)) = IF Tail(q) = <<>> THEN NULL ELSE TailOf(q)
         /\ \A i \in 1 .. Len(Tail(q)) :
              /\ Tail(q)[i] # Head(q)
              /\ next[Tail(q)[i]] = Successor(Tail(q), i)
<1>1. PICK n \in Nat :
        /\ n = Len(q) /\ n >= 1 /\ Len(Tail(q)) = n - 1
        /\ \A i \in 1 .. n - 1 : Tail(q)[i] = q[i + 1]
        /\ n = 1 <=> Tail(q) = <<>>
        /\ n = 1 \/ (n - 1 \in 1 .. n - 1 /\ 1 \in 1 .. n - 1)
  BY TailFacts
<1>2. Head(q) = q[1] /\ \A i \in 1 .. n : q[i] \in Thread
  BY <1>1
<1>3. 1 \in 1 .. n /\ n \in 1 .. n /\ \A i \in 1 .. n - 1 : i + 1 \in 1 .. n /\ i + 1 # 1
  <2>1. \A m \in Nat : m >= 1 => /\ 1 \in 1 .. m /\ m \in 1 .. m
                                 /\ \A i \in 1 .. m - 1 : i + 1 \in 1 .. m /\ i + 1 # 1
    BY Z3
  <2>2. QED
    BY <2>1, <1>1, Zenon
<1>4. next[Head(q)] = IF n = 1 THEN NULL ELSE q[2]
  <2>1. (1 = n <=> n = 1) /\ q[1 + 1] = q[2]
    OBVIOUS
  <2>2. next[Head(q)] = Successor(q, 1)
    BY <1>1, <1>2, <1>3, Zenon
  <2>3. Successor(q, 1) = IF n = 1 THEN NULL ELSE q[1 + 1]
    BY <1>1, <2>1 DEF Successor
  <2>4. QED
    BY <2>1, <2>2, <2>3, Zenon
<1>5. next[Head(q)] = HeadOf(Tail(q))
  <2>1. q[1 + 1] = q[2]
    OBVIOUS
  <2>2. QED
    BY <1>1, <1>4, <2>1, Zenon DEF HeadOf
<1>6. next[Head(q)] = NULL <=> Tail(q) = <<>>
  <2>1. CASE n = 1
    BY <1>1, <1>4, <2>1, Zenon
  <2>2. CASE n # 1
    <3>1. q[2] \in Thread
      <4>1. q[1 + 1] \in Thread /\ q[1 + 1] = q[2]
        BY <1>1, <1>2, <1>3, <2>2, SMT
      <4>2. QED
        BY <4>1
    <3>2. QED
      BY <1>1, <1>4, <2>2, <3>1, NullIsNoThread, Zenon
  <2>3. QED
    BY <2>1, <2>2
<1>7. TailOf(Tail(q)) = IF Tail(q) = <<>> THEN NULL ELSE TailOf(q)
  <2>1. n # 1 => Tail(q)[n - 1] = q[(n - 1) + 1]
    BY <1>1, Zenon
  <2>2. \A m \in Nat : (m - 1) + 1 = m
    OBVIOUS
  <2>3. QED
    BY <1>1, <2>1, <2>2, Zenon DEF TailOf
<1>8. ASSUME NEW i \in 1 .. n - 1
      PROVE  /\ Tail(q)[i] # Head(q)
             /\ next[Tail(q)[i]] = Successor(Tail(q), i)
  <2>1. /\ Tail(q)[i] = q[i + 1] /\ i + 1 \in 1 .. n /\ i + 1 # 1
    BY <1>1, <1>3, Zenon
  <2>2. Tail(q)[i] # Head(q)
    BY <1>1, <1>2, <1>3, <2>1, Zenon
  <2>3. next[Tail(q)[i]] = IF i + 1 = n THEN NULL ELSE q[(i + 1) + 1]
    BY <1>1, <2>1, Zenon DEF Successor
  <2>4. i # n - 1 => i + 1 \in 1 .. n - 1
    <3>1. \A m \in Nat : \A k \in 1 .. m - 1 : k # m - 1 => k + 1 \in 1 .. m - 1
      BY Z3
    <3>2. QED
      BY <3>1, Zenon
  <2>5. i + 1 = n <=> i = n - 1
    <3>1. \A m \in Nat : \A k \in 1 .. m - 1 : k + 1 = m <=> k = m - 1
      BY Z3
    <3>2. QED
      BY <3>1, Zenon
  <2>6. QED
    BY <1>1, <2>2, <2>3, <2>4, <2>5, Zenon DEF Successor
<1>9. QED
  BY <1>1, <1>5, <1>6, <1>7, <1>8, Zenon

(***************************************************************************)
(* Appending a thread that is in no queue: what had to be the last link    *)
(* leads to it, and it has no successor of its own.                        *)
(***************************************************************************)
LEMMA AppendLinks ==
  ASSUME NEW q \in Seq(Thread), NEW t \in Thread,
         \A i, j \in 1 .. Len(q) : q[i] = q[j] => i = j,
         \A i \in 1 .. Len(q) : q[i] # t,
         NEW next \in [Thread -> Thread \cup {NULL}], next[t] = NULL,
         \A i \in 1 .. Len(q) : next[q[i]] = Successor(q, i),
         NEW new,
         new = IF q = <<>> THEN next ELSE [next EXCEPT ![TailOf(q)] = t]
  PROVE  /\ HeadOf(Append(q, t)) = IF q = <<>> THEN t ELSE HeadOf(q)
         /\ TailOf(Append(q, t)) = t
         /\ \A i \in 1 .. Len(Append(q, t)) :
              new[Append(q, t)[i]] = Successor(Append(q, t), i)
<1> DEFINE r == Append(q, t)
<1>1. PICK n \in Nat : n = Len(q) /\ (n = 0 <=> q = <<>>)
  BY EmptySeq
<1>2. /\ r \in Seq(Thread) /\ Len(r) = n + 1
      /\ \A i \in 1 .. n : r[i] = q[i]
      /\ r[n + 1] = t
  BY <1>1, AppendProperties
<1>3. \A m \in Nat : m = 0 \/ (1 \in 1 .. m /\ m \in 1 .. m)
  BY Z3
<1>4. r # <<>>
  <2>1. n + 1 # 0
    BY Z3
  <2>2. QED
    BY <1>2, <2>1, EmptySeq, Zenon
<1> HIDE DEF r
<1>5. r[1] = IF q = <<>> THEN t ELSE q[1]
  <2>1. CASE n = 0
    <3>1. 0 + 1 = 1
      OBVIOUS
    <3>2. QED
      BY <1>1, <1>2, <2>1, <3>1, Zenon
  <2>2. CASE n # 0
    BY <1>1, <1>2, <1>3, <2>2, Zenon
  <2>3. QED
    BY <2>1, <2>2
<1>6. HeadOf(r) = IF q = <<>> THEN t ELSE HeadOf(q)
  BY <1>4, <1>5, Zenon DEF HeadOf
<1>7. TailOf(r) = t
  BY <1>2, <1>4, Zenon DEF TailOf
<1>8. new[t] = NULL
  <2>1. CASE q = <<>>
    BY <2>1
  <2>2. CASE q # <<>>
    <3>1. TailOf(q) = q[n] /\ n \in 1 .. n
      BY <1>1, <1>3, <2>2, Zenon DEF TailOf
    <3>2. TailOf(q) # t
      BY <1>1, <3>1, Zenon
    <3>3. new = [next EXCEPT ![TailOf(q)] = t]
      BY <2>2
    <3>4. QED
      BY <3>2, <3>3
  <2>3. QED
    BY <2>1, <2>2
<1>9. ASSUME NEW i \in 1 .. n
      PROVE  new[q[i]] = r[i + 1]
  <2>1. n # 0 /\ q # <<>>
    <3>1. \A m \in Nat : \A k \in 1 .. m : m # 0
      BY Z3
    <3>2. QED
      BY <1>1, <3>1, Zenon
  <2>2. TailOf(q) = q[n] /\ n \in 1 .. n /\ q[i] \in Thread /\ q[n] \in Thread
    <3>1. TailOf(q) = q[n] /\ n \in 1 .. n
      BY <1>1, <1>3, <2>1, Zenon DEF TailOf
    <3>2. \A k \in 1 .. n : q[k] \in Thread
      BY <1>1
    <3>3. QED
      BY <3>1, <3>2
  <2>3. \A u \in Thread : new[u] = IF u = q[n] THEN t ELSE next[u]
    <3>1. new = [next EXCEPT ![TailOf(q)] = t]
      BY <2>1
    <3>2. QED
      BY <2>2, <3>1
  <2>4. CASE i = n
    BY <1>2, <2>2, <2>3, <2>4, Zenon
  <2>5. CASE i # n
    <3>1. i + 1 \in 1 .. n
      <4>1. \A m \in Nat : \A k \in 1 .. m : k # m => k + 1 \in 1 .. m
        BY Z3
      <4>2. QED
        BY <2>5, <4>1, Zenon
    <3>2. q[i] # q[n]
      BY <1>1, <2>2, <2>5, Zenon
    <3>3. next[q[i]] = q[i + 1]
      BY <1>1, <2>5, Zenon DEF Successor
    <3>4. QED
      BY <1>2, <2>2, <2>3, <3>1, <3>2, <3>3, Zenon
  <2>6. QED
    BY <2>4, <2>5
<1>10. ASSUME NEW i \in 1 .. n + 1
       PROVE  new[r[i]] = Successor(r, i)
  <2>1. i = n + 1 \/ (i \in 1 .. n /\ i # n + 1)
    <3>1. \A m \in Nat : \A k \in 1 .. m + 1 : k = m + 1 \/ (k \in 1 .. m /\ k # m + 1)
      BY Z3
    <3>2. QED
      BY <3>1, Zenon
  <2>2. CASE i = n + 1
    BY <1>2, <1>8, <2>2, Zenon DEF Successor
  <2>3. CASE i \in 1 .. n /\ i # n + 1
    BY <1>2, <1>9, <2>3, Zenon DEF Successor
  <2>4. QED
    BY <2>1, <2>2, <2>3
<1>11. QED
  BY <1>2, <1>6, <1>7, <1>10, Zenon DEF r

-------------------------------------------------------------------------------
(***************************************************************************)
(* getcurrent() of a thread at the head of its queue, or of one that is    *)
(* not READY.                                                              *)
(***************************************************************************)
LEMMA UnlinkFollows ==
  ASSUME NEW Q \in Ready, NEW prio \in [Thread -> Priority],
         NEW t \in Thread, Consistent(Q, prio),
         t \in Q.ready => Q.que[prio[t]] # <<>> /\ Head(Q.que[prio[t]]) = t,
         NEW L \in Lists, Represents(L, Q)
  PROVE  /\ unlink(L, prio, t) \in Lists
         /\ Represents(unlink(L, prio, t), getcurrent(Q, prio, t))
<1>1. CASE t \notin Q.ready
  BY <1>1 DEF unlink, getcurrent, Represents
<1>2. CASE t \in Q.ready
  <2> DEFINE q == Q.que[prio[t]]
             G == getcurrent(Q, prio, t)
             M == unlink(L, prio, t)
  <2>1. prio[t] \in Priority /\ q \in Seq(Thread) /\ q # <<>> /\ Head(q) = t
    BY <1>2 DEF Ready
  <2>2. \A i, j \in 1 .. Len(q) : q[i] = q[j] => i = j
    BY <2>1 DEF Consistent, QueuedOnce
  <2>3. /\ \A p \in Priority : G.que[p] = IF p = prio[t] THEN Tail(q) ELSE Q.que[p]
        /\ G.ready = Q.ready \ {t}
    <3>1. Behind(q, t) = Tail(q)
      BY <2>1, <2>2, BehindHead
    <3>2. QED
      BY <1>2, <3>1 DEF getcurrent, Ready
  <2>4. /\ L.head[prio[t]] = HeadOf(q) /\ L.tail[prio[t]] = TailOf(q)
        /\ \A i \in 1 .. Len(q) : L.next[q[i]] = Successor(q, i)
    BY <2>1 DEF Represents
  <2>5. /\ L.next[t] = HeadOf(Tail(q))
        /\ L.next[t] = NULL <=> Tail(q) = <<>>
        /\ TailOf(Tail(q)) = IF Tail(q) = <<>> THEN NULL ELSE TailOf(q)
        /\ \A i \in 1 .. Len(Tail(q)) :
             Tail(q)[i] # t /\ L.next[Tail(q)[i]] = Successor(Tail(q), i)
    <3> HIDE DEF q
    <3>1. QED
      BY <2>1, <2>2, <2>4, TailLinks, ZenonT(40)
  <2>6. M = [head  |-> [L.head EXCEPT ![prio[t]] = L.next[t]],
             tail  |-> [L.tail EXCEPT ![prio[t]] =
                          IF L.next[t] = NULL THEN NULL ELSE L.tail[prio[t]]],
             next  |-> [L.next EXCEPT ![t] = NULL],
             ready |-> L.ready \ {t}]
    BY <1>2 DEF unlink, Lists, Represents
  <2>7. M \in Lists
    BY <2>1, <2>6 DEF Lists
  <2>8. /\ \A p \in Priority :
             /\ M.head[p] = IF p = prio[t] THEN L.next[t] ELSE L.head[p]
             /\ M.tail[p] = IF p = prio[t]
                            THEN IF L.next[t] = NULL THEN NULL ELSE L.tail[p]
                            ELSE L.tail[p]
        /\ \A u \in Thread : M.next[u] = IF u = t THEN NULL ELSE L.next[u]
        /\ M.ready = Q.ready \ {t}
    BY <2>6 DEF Lists, Represents
  <2>9. Tail(q) \in Seq(Thread) /\ \A i \in 1 .. Len(Tail(q)) : Tail(q)[i] \in Thread
    <3>1. Tail(q) \in Seq(Thread)
      BY <2>1
    <3>2. QED
      BY <3>1
  <2> HIDE DEF G, M
  <2>10. ASSUME NEW p \in Priority
         PROVE  /\ M.head[p] = HeadOf(G.que[p])
                /\ M.tail[p] = TailOf(G.que[p])
                /\ \A i \in 1 .. Len(G.que[p]) :
                     M.next[G.que[p][i]] = Successor(G.que[p], i)
    <3>1. CASE p # prio[t]
      <4>1. G.que[p] = Q.que[p] /\ Q.que[p] \in Seq(Thread)
        BY <2>3, <3>1 DEF Ready
      <4>2. \A i \in 1 .. Len(Q.que[p]) : Q.que[p][i] # t /\ Q.que[p][i] \in Thread
        BY <4>1, <3>1 DEF Consistent, QueuedAreReady
      <4>3. QED
        BY <4>1, <4>2, <2>8, <3>1 DEF Represents
    <3>2. CASE p = prio[t]
      <4>1. G.que[p] = Tail(q) /\ L.tail[p] = TailOf(q)
        BY <2>3, <2>4, <3>2
      <4>2. M.head[p] = HeadOf(Tail(q))
        BY <2>5, <2>8, <3>2
      <4>3. M.tail[p] = TailOf(Tail(q))
        BY <4>1, <2>5, <2>8, <3>2, Zenon
      <4>4. \A i \in 1 .. Len(Tail(q)) : M.next[Tail(q)[i]] = Successor(Tail(q), i)
        BY <2>5, <2>8, <2>9, Zenon
      <4>5. QED
        BY <4>1, <4>2, <4>3, <4>4, Zenon
    <3>3. QED
      BY <3>1, <3>2
  <2>11. \A u \in Thread \ G.ready : M.next[u] = NULL
    BY <2>3, <2>8 DEF Represents
  <2>12. Represents(M, G)
    BY <2>3, <2>8, <2>10, <2>11, Zenon DEF Represents
  <2>13. QED
    BY <2>7, <2>12 DEF G, M
<1>3. QED
  BY <1>1, <1>2

(***************************************************************************)
(* putcurrent() of any thread, and of NULL.                                *)
(***************************************************************************)
LEMMA LinkFollows ==
  ASSUME NEW Q \in Ready, NEW prio \in [Thread -> Priority],
         NEW t \in Thread \cup {NULL}, Consistent(Q, prio),
         NEW L \in Lists, Represents(L, Q)
  PROVE  /\ link(L, prio, t) \in Lists
         /\ Represents(link(L, prio, t), putcurrent(Q, prio, t))
<1>1. CASE t = NULL \/ t \in Q.ready
  BY <1>1 DEF link, putcurrent, Represents
<1>2. CASE t # NULL /\ t \notin Q.ready
  <2> DEFINE q == Q.que[prio[t]]
             G == putcurrent(Q, prio, t)
             M == link(L, prio, t)
             new == IF q = <<>> THEN L.next ELSE [L.next EXCEPT ![TailOf(q)] = t]
  <2>1. t \in Thread /\ prio[t] \in Priority /\ q \in Seq(Thread)
    BY <1>2 DEF Ready
  <2>2. /\ \A i, j \in 1 .. Len(q) : q[i] = q[j] => i = j
        /\ \A i \in 1 .. Len(q) : q[i] # t /\ q[i] \in Q.ready
    BY <1>2, <2>1 DEF Consistent, QueuedOnce, QueuedAreReady
  <2>3. /\ \A p \in Priority : G.que[p] = IF p = prio[t] THEN Append(q, t) ELSE Q.que[p]
        /\ G.ready = Q.ready \cup {t}
    BY <1>2 DEF putcurrent, Ready
  <2>4. /\ L.head[prio[t]] = HeadOf(q) /\ L.tail[prio[t]] = TailOf(q)
        /\ \A i \in 1 .. Len(q) : L.next[q[i]] = Successor(q, i)
        /\ L.next[t] = NULL
        /\ L.next \in [Thread -> Thread \cup {NULL}]
    BY <1>2, <2>1 DEF Represents, Lists
  <2>5. /\ HeadOf(Append(q, t)) = IF q = <<>> THEN t ELSE HeadOf(q)
        /\ TailOf(Append(q, t)) = t
        /\ \A i \in 1 .. Len(Append(q, t)) :
             new[Append(q, t)[i]] = Successor(Append(q, t), i)
    <3>1. new = IF q = <<>> THEN L.next ELSE [L.next EXCEPT ![TailOf(q)] = t]
      OBVIOUS
    <3> HIDE DEF q, new
    <3>2. QED
      BY <2>1, <2>2, <2>4, <3>1, AppendLinks, SMT
  <2>6. q # <<>> => TailOf(q) \in Q.ready /\ TailOf(q) \in Thread
                    /\ \E i \in 1 .. Len(q) : TailOf(q) = q[i]
    <3>1. \A m \in Nat : m = 0 \/ m \in 1 .. m
      BY Z3
    <3>2. Len(q) \in Nat /\ (Len(q) = 0 <=> q = <<>>)
      BY <2>1, EmptySeq
    <3>3. q # <<>> => Len(q) \in 1 .. Len(q) /\ TailOf(q) = q[Len(q)]
      BY <3>1, <3>2, Zenon DEF TailOf
    <3>4. \A i \in 1 .. Len(q) : q[i] \in Thread
      BY <2>1
    <3>5. QED
      BY <3>3, <3>4, <2>2, Zenon
  <2>7. TailOf(q) = NULL <=> q = <<>>
    BY <2>6, NullIsNoThread DEF TailOf
  <2>8. M = [head  |-> [L.head EXCEPT ![prio[t]] =
                          IF q = <<>> THEN t ELSE L.head[prio[t]]],
             tail  |-> [L.tail EXCEPT ![prio[t]] = t],
             next  |-> new,
             ready |-> L.ready \cup {t}]
    BY <1>2, <2>4, <2>7 DEF link, Lists, Represents
  <2>9. new \in [Thread -> Thread \cup {NULL}]
    BY <2>1, <2>4, <2>6
  <2>10. \A u \in Thread : new[u] = IF q # <<>> /\ u = TailOf(q) THEN t ELSE L.next[u]
    BY <2>4, <2>6
  <2> HIDE DEF new
  <2>11. M \in Lists
    BY <2>1, <2>8, <2>9 DEF Lists
  <2>12. /\ \A p \in Priority :
              /\ M.head[p] = IF p = prio[t]
                             THEN IF q = <<>> THEN t ELSE L.head[p]
                             ELSE L.head[p]
              /\ M.tail[p] = IF p = prio[t] THEN t ELSE L.tail[p]
         /\ M.next = new
         /\ M.ready = Q.ready \cup {t}
    BY <2>8 DEF Lists, Represents
  <2> HIDE DEF G, M
  <2>13. ASSUME NEW p \in Priority
         PROVE  /\ M.head[p] = HeadOf(G.que[p])
                /\ M.tail[p] = TailOf(G.que[p])
                /\ \A i \in 1 .. Len(G.que[p]) :
                     M.next[G.que[p][i]] = Successor(G.que[p], i)
    <3>1. CASE p # prio[t]
      <4>1. G.que[p] = Q.que[p] /\ Q.que[p] \in Seq(Thread)
        BY <2>3, <3>1 DEF Ready
      <4>2. \A i \in 1 .. Len(Q.que[p]) : Q.que[p][i] \in Thread
        BY <4>1
      <4>3. q # <<>> => \A i \in 1 .. Len(Q.que[p]) : Q.que[p][i] # TailOf(q)
        BY <2>1, <2>6, <3>1 DEF Consistent, QueuedAreReady
      <4>4. \A i \in 1 .. Len(Q.que[p]) : new[Q.que[p][i]] = Successor(Q.que[p], i)
        BY <4>2, <4>3, <2>10 DEF Represents
      <4>5. QED
        BY <4>1, <4>4, <2>12, <3>1 DEF Represents
    <3>2. CASE p = prio[t]
      <4>1. G.que[p] = Append(q, t)
        BY <2>3, <3>2
      <4>2. M.head[p] = HeadOf(Append(q, t))
        BY <2>4, <2>5, <2>12, <3>2, Zenon
      <4>3. M.tail[p] = TailOf(Append(q, t))
        BY <2>5, <2>12, <3>2, Zenon
      <4>4. QED
        BY <4>1, <4>2, <4>3, <2>5, <2>12, Zenon
    <3>3. QED
      BY <3>1, <3>2
  <2>14. \A u \in Thread \ G.ready : M.next[u] = NULL
    <3>1. \A u \in Thread \ G.ready : q # <<>> => u # TailOf(q)
      BY <2>3, <2>6
    <3>2. QED
      BY <3>1, <2>3, <2>10, <2>12 DEF Represents
  <2>15. Represents(M, G)
    BY <2>3, <2>12, <2>13, <2>14, Zenon DEF Represents
  <2>16. QED
    BY <2>11, <2>15 DEF G, M
<1>3. QED
  BY <1>1, <1>2

(* memset() of a TCB that is in no queue. *)
LEMMA ClearFollows ==
  ASSUME NEW Q \in Ready, NEW prio \in [Thread -> Priority],
         NEW t \in Thread \ Q.ready, Consistent(Q, prio),
         NEW L \in Lists, Represents(L, Q)
  PROVE  clear(L, t) \in Lists /\ Represents(clear(L, t), Cleared(Q, t))
<1>1. L.next[t] = NULL /\ t \notin L.ready /\ Cleared(Q, t) = Q
  BY ClearedUnready DEF Represents
<1>2. [L.next EXCEPT ![t] = NULL] = L.next /\ L.ready \ {t} = L.ready
  BY <1>1 DEF Lists
<1>3. clear(L, t) = [L EXCEPT !.next = [L.next EXCEPT ![t] = NULL],
                              !.ready = L.ready \ {t}]
  BY DEF clear, Lists
<1>4. [L EXCEPT !.next = L.next, !.ready = L.ready] = L
  BY DEF Lists
<1>5. clear(L, t) = L
  BY <1>2, <1>3, <1>4, Zenon
<1>6. QED
  BY <1>1, <1>5

-------------------------------------------------------------------------------
(***************************************************************************)
(* The lists of the kernel, step by step.                                  *)
(***************************************************************************)
LEMMA InitLists == ListInit => ListsFollow
<1> SUFFICES ASSUME ListInit PROVE ListsFollow
  OBVIOUS
<1>1. 0 \in Thread /\ 0 \in Priority /\ NULL \notin Thread
  BY TableAssumption DEF Thread, Priority
<1>2. \A p \in Priority : rq.que[p] = IF p = 0 THEN <<0>> ELSE <<>>
  BY <1>1 DEF ListInit, Init
<1>3. rq.ready = {0}
  BY DEF ListInit, Init
<1>4. /\ HeadOf(<<0>>) = 0 /\ TailOf(<<0>>) = 0 /\ Successor(<<0>>, 1) = NULL
      /\ HeadOf(<<>>) = NULL /\ TailOf(<<>>) = NULL
      /\ 1 .. Len(<<0>>) = {1} /\ 1 .. Len(<<>>) = {} /\ <<0>>[1] = 0
  BY DEF HeadOf, TailOf, Successor
<1>5. lists \in Lists
  BY <1>1 DEF ListInit, Lists
<1>6. Represents(lists, rq)
  BY <1>1, <1>2, <1>3, <1>4 DEF ListInit, Represents
<1>7. QED
  BY <1>5, <1>6 DEF ListsFollow

(* What the lists are while a call runs. *)
LEMMA CallerLists ==
  ASSUME IInv, ListsFollow, mode = "user"
  PROVE  /\ Unlinked \in Lists /\ Represents(Unlinked, Taken)
         /\ Relinked \in Lists /\ Represents(Relinked, Requeued)
<1>1. /\ rq \in Ready /\ Consistent(rq, priority)
      /\ priority \in [Thread -> Priority]
  BY QueuesNow
<1>2. /\ current \in Thread /\ current \in rq.ready
      /\ Taken \in Ready /\ Consistent(Taken, priority)
  BY CallerQueues DEF IInv
<1>3. rq.que[priority[current]] # <<>> /\ Head(rq.que[priority[current]]) = current
  BY DEF IInv, QueueInv, RunsFirst, IsFirst
<1>4. Unlinked \in Lists /\ Represents(Unlinked, Taken)
  BY <1>1, <1>2, <1>3, UnlinkFollows DEF ListsFollow, Unlinked, Taken
<1>5. Relinked \in Lists /\ Represents(Relinked, Requeued)
  BY <1>1, <1>2, <1>4, LinkFollows DEF Relinked, Requeued
<1>6. QED
  BY <1>4, <1>5

LEMMA RunLists ==
  ASSUME IInv, ListsFollow, NEW p \in Priority, run(p)
  PROVE  ListsFollow'
<1>1. mode = "user" /\ live \in SUBSET Thread /\ thread_run(p)
  BY DEF run, thread_run, kz_syscall, IInv, TypeOK
<1>2. /\ current \in Thread /\ current \in rq.ready
      /\ Taken \in Ready /\ Consistent(Taken, priority)
      /\ Taken.ready = rq.ready \ {current}
  BY <1>1, CallerQueues DEF IInv
<1>3. /\ Unlinked \in Lists /\ Represents(Unlinked, Taken)
      /\ priority \in [Thread -> Priority] /\ rq.ready \subseteq live
  BY <1>1, CallerLists, QueuesNow
<1>4. CASE live = Thread /\ lists' = Unlinked
  <2>1. rq' = Taken
    BY <1>1, <1>4 DEF thread_run
  <2>2. QED
    BY <1>3, <1>4, <2>1 DEF ListsFollow
<1>5. ASSUME NEW t \in Thread \ live, live' = live \cup {t},
             lists' = link(link(clear(Unlinked, t), priority, current), priority', t)
      PROVE  ListsFollow'
  <2> DEFINE Q1 == Cleared(Taken, t)
             Q2 == putcurrent(Q1, priority, current)
             L1 == clear(Unlinked, t)
             L2 == link(L1, priority, current)
  <2>1. /\ rq' = putcurrent(Q2, priority', t)
        /\ priority' = [priority EXCEPT ![t] = p]
    BY <1>1, <1>5 DEF thread_run
  <2>2. /\ Q1 \in Ready /\ Consistent(Q1, priority) /\ Q1.ready = Taken.ready
        /\ L1 \in Lists /\ Represents(L1, Q1)
    <3>1. t \in Thread \ Taken.ready
      BY <1>2, <1>3, <1>5
    <3>2. Q1 = Taken
      BY <1>2, <3>1, ClearedUnready
    <3>3. QED
      BY <1>2, <1>3, <3>1, <3>2, ClearFollows
  <2> HIDE DEF Q1, L1
  <2>3. /\ Q2 \in Ready /\ Consistent(Q2, priority)
        /\ Q2.ready = Q1.ready \cup ({current} \ {NULL})
    BY <1>2, <1>3, <2>2, PutcurrentConsistent
  <2>4. L2 \in Lists /\ Represents(L2, Q2)
    BY <1>2, <1>3, <2>2, LinkFollows
  <2> HIDE DEF Q2, L2
  <2>5. priority' \in [Thread -> Priority] /\ \A u \in Q2.ready : priority'[u] = priority[u]
    BY <1>2, <1>3, <1>5, <2>1, <2>2, <2>3
  <2>6. Consistent(Q2, priority')
    BY <1>3, <2>3, <2>5, PriorityOfUnready
  <2>7. lists' = link(L2, priority', t)
    BY <1>5 DEF L1, L2
  <2>8. QED
    BY <2>1, <2>3, <2>4, <2>5, <2>6, <2>7, LinkFollows DEF ListsFollow
<1>6. QED
  BY <1>4, <1>5 DEF run

LEMMA ExitLists ==
  ASSUME IInv, ListsFollow, exit
  PROVE  ListsFollow'
<1>1. /\ mode = "user" /\ rq' = Cleared(Taken, current)
      /\ lists' = clear(Unlinked, current)
  BY DEF exit, thread_exit, softerr_intr, ClearCurrent
<1>2. /\ current \in Thread \ Taken.ready
      /\ Taken \in Ready /\ Consistent(Taken, priority)
  BY <1>1, CallerQueues DEF IInv
<1>3. /\ Unlinked \in Lists /\ Represents(Unlinked, Taken)
      /\ priority \in [Thread -> Priority]
  BY <1>1, CallerLists, QueuesNow
<1>4. QED
  BY <1>1, <1>2, <1>3, ClearFollows DEF ListsFollow

LEMMA RequeueLists ==
  ASSUME IInv, ListsFollow, requeue \/ sleep
  PROVE  ListsFollow'
<1>1. mode = "user"
  BY DEF requeue, sleep, thread_wait, thread_getid, thread_kzmalloc,
         thread_kmfree, thread_setintr, thread_sleep, kz_syscall
<1>2. CASE requeue
  <2>1. rq' = Requeued /\ lists' = Relinked
    BY <1>2 DEF requeue, thread_wait, thread_getid, thread_kzmalloc,
                thread_kmfree, thread_setintr
  <2>2. QED
    BY <1>1, <2>1, CallerLists DEF ListsFollow
<1>3. CASE sleep
  BY <1>1, <1>3, CallerLists DEF sleep, thread_sleep, ListsFollow
<1>4. QED
  BY <1>2, <1>3

LEMMA WakeupLists ==
  ASSUME IInv, ListsFollow, NEW t \in Thread, wakeup(t)
  PROVE  ListsFollow'
<1>1. /\ mode = "user" /\ rq' = putcurrent(Requeued, priority, t)
      /\ lists' = link(Relinked, priority, t)
  BY DEF wakeup, thread_wakeup, kz_syscall
<1>2. /\ Requeued \in Ready /\ Consistent(Requeued, priority)
      /\ Relinked \in Lists /\ Represents(Relinked, Requeued)
      /\ priority \in [Thread -> Priority]
  BY <1>1, CallerQueues, CallerLists, QueuesNow DEF IInv
<1>3. QED
  BY <1>1, <1>2, LinkFollows DEF ListsFollow

LEMMA ChpriLists ==
  ASSUME IInv, ListsFollow, NEW p \in Priority \cup {-1}, chpri(p)
  PROVE  ListsFollow'
<1>1. /\ mode = "user" /\ rq' = putcurrent(Taken, priority', current)
      /\ lists' = link(Unlinked, priority', current)
      /\ priority' = IF p < 0 THEN priority ELSE [priority EXCEPT ![current] = p]
  BY DEF chpri, thread_chpri, kz_syscall
<1>2. /\ current \in Thread
      /\ Taken \in Ready /\ Consistent(Taken, priority)
      /\ Taken.ready = rq.ready \ {current}
  BY <1>1, CallerQueues DEF IInv
<1>3. /\ Unlinked \in Lists /\ Represents(Unlinked, Taken)
      /\ priority \in [Thread -> Priority]
  BY <1>1, CallerLists, QueuesNow
<1>4. /\ priority' \in [Thread -> Priority]
      /\ \A u \in Taken.ready : priority'[u] = priority[u]
  <2>1. CASE p < 0
    BY <1>1, <1>3, <2>1
  <2>2. CASE ~(p < 0)
    <3>1. p \in Priority /\ priority' = [priority EXCEPT ![current] = p]
      BY <1>1, <2>2
    <3>2. Taken.ready \subseteq Thread
      BY <1>2 DEF Ready
    <3>3. QED
      BY <1>2, <1>3, <3>1, <3>2
  <2>3. QED
    BY <2>1, <2>2
<1>5. Consistent(Taken, priority')
  BY <1>2, <1>3, <1>4, PriorityOfUnready
<1>6. QED
  BY <1>1, <1>2, <1>3, <1>4, <1>5, LinkFollows DEF ListsFollow

(* thread_send() with the caller requeued in Q, or with no caller.         *)
LEMMA DeliveryLists ==
  ASSUME TypeOK, NEW Q \in Ready, Consistent(Q, priority),
         NEW L \in Lists, Represents(L, Q), NEW P, NEW m, NEW b \in MsgBox,
         thread_send(Q, P, m, b), lists' = link(L, priority, receiver[b])
  PROVE  ListsFollow'
<1>1. receiver[b] \in Thread \cup {NULL} /\ priority \in [Thread -> Priority]
  BY DEF TypeOK
<1>2. rq' = putcurrent(Q, priority, receiver[b])
  BY DEF thread_send, putcurrent
<1>3. QED
  BY <1>1, <1>2, LinkFollows DEF ListsFollow

LEMMA SendLists ==
  ASSUME IInv, ListsFollow, NEW b \in MsgBox, NEW x \in Payload, send(b, x)
  PROVE  ListsFollow'
<1>1. mode = "user" /\ TypeOK
  BY DEF send, kz_send, kz_syscall, IInv
<1>2. /\ Requeued \in Ready /\ Consistent(Requeued, priority)
      /\ Relinked \in Lists /\ Represents(Relinked, Requeued)
  BY <1>1, CallerQueues, CallerLists DEF IInv
<1>3. CASE HasBlock(MsgPool)
  <2>1. /\ thread_send(Requeued, NewParam, [sender |-> current, p |-> x], b)
        /\ lists' = link(Relinked, priority, receiver[b])
    BY <1>3 DEF send, kz_send
  <2>2. QED
    BY <1>1, <1>2, <2>1, DeliveryLists
<1>4. CASE ~HasBlock(MsgPool)
  BY <1>2, <1>4 DEF send, kz_send, ListsFollow
<1>5. QED
  BY <1>3, <1>4

LEMMA RecvLists ==
  ASSUME IInv, ListsFollow, NEW b \in MsgBox, recv(b)
  PROVE  ListsFollow'
<1>1. mode = "user"
  BY DEF recv, thread_recv, kz_syscall
<1>2. CASE receiver[b] = NULL /\ msgs[b] # <<>>
  BY <1>1, <1>2, CallerLists DEF recv, thread_recv, ListsFollow
<1>3. CASE ~(receiver[b] = NULL /\ msgs[b] # <<>>)
  BY <1>1, <1>3, CallerLists DEF recv, thread_recv, ListsFollow
<1>4. QED
  BY <1>2, <1>3

LEMMA HandlerLists ==
  ASSUME IInv, ListsFollow, handler_call
  PROVE  ListsFollow'
<1>1. /\ rq \in Ready /\ Consistent(rq, priority)
      /\ priority \in [Thread -> Priority] /\ TypeOK
      /\ lists \in Lists /\ Represents(lists, rq)
  BY QueuesNow DEF ListsFollow, IInv
<1>2. ASSUME NEW t \in Thread, kx_wakeup(t), lists' = link(lists, priority, t)
      PROVE  ListsFollow'
  BY <1>1, <1>2, LinkFollows DEF kx_wakeup, ListsFollow
<1>3. ASSUME NEW b \in MsgBox, NEW x \in Payload, kx_send(b, x),
             lists' = IF HasBlock(MsgPool)
                      THEN link(lists, priority, receiver[b]) ELSE lists
      PROVE  ListsFollow'
  <2>1. CASE HasBlock(MsgPool)
    <3>1. thread_send(rq, param, [sender |-> NULL, p |-> x], b)
      BY <1>3, <2>1 DEF kx_send
    <3>2. QED
      BY <1>1, <1>3, <2>1, <3>1, DeliveryLists
  <2>2. CASE ~HasBlock(MsgPool)
    BY <1>1, <1>3, <2>2 DEF kx_send, ListsFollow
  <2>3. QED
    BY <2>1, <2>2
<1>4. QED
  BY <1>2, <1>3 DEF handler_call

LEMMA ElsewhereLists ==
  ASSUME ListsFollow, elsewhere \/ UNCHANGED lvars
  PROVE  ListsFollow'
<1>1. rq' = rq /\ lists' = lists
  BY DEF elsewhere, INTR_ENABLE, INTR_DISABLE, thread_intr, kx_kmalloc,
         kx_kmfree, intr_end, lvars, vars
<1>2. QED
  BY <1>1 DEF ListsFollow

-------------------------------------------------------------------------------
(* Every step of the kernel with lists is one of the kernel with queues.   *)
LEMMA ListStepIsStep ==
  ASSUME [ListNext]_lvars
  PROVE  [Next]_vars
BY DEF ListNext, Next, ThreadStep, HandlerStep, run, exit, requeue, sleep, wakeup,
       chpri, send, recv, handler_call, elsewhere, lvars

LEMMA ListNextFollows ==
  ASSUME IInv, ListsFollow, [ListNext]_lvars
  PROVE  ListsFollow'
BY RunLists, ExitLists, RequeueLists, WakeupLists, ChpriLists, SendLists, RecvLists,
   HandlerLists, ElsewhereLists
   DEF ListNext

(* The pointers of the ready queues follow the queues, whatever is called: *)
(* the list ends where the queue ends, the tail is the last thread, and a  *)
(* thread outside has next = NULL, on which putcurrent() relies.           *)
THEOREM ListsFollowQueues ==
  ASSUME ~WakeReceivers
  PROVE  ListSpec => []ListsFollow
<1>1. ListInit => IInv /\ ListsFollow
  BY InitIInv, InitLists DEF ListInit
<1>2. IInv /\ ListsFollow /\ [ListNext]_lvars => (IInv /\ ListsFollow)'
  BY ListStepIsStep, NextIInv, ListNextFollows
<1>3. QED
  BY <1>1, <1>2, PTL DEF ListSpec
===============================================================================
