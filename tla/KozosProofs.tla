------------------------------ MODULE KozosProofs ------------------------------
(***************************************************************************)
(* Theorems about module Kozos, for any number of threads, priorities,     *)
(* message boxes, pools and blocks: the ready queues stay consistent, the  *)
(* first thread of the highest priority runs, no wake-up is lost.          *)
(***************************************************************************)
EXTENDS Kozos, Induction, SequenceTheorems, TLAPS

-------------------------------------------------------------------------------
(***************************************************************************)
(* What getcurrent(), putcurrent() and the ways to change a priority do to *)
(* ready queues that are consistent.                                       *)
(***************************************************************************)
(* t->next of the head of a queue without repetitions leads to its tail.   *)
LEMMA BehindHead ==
  ASSUME NEW q \in Seq(Thread), q # <<>>,
         \A i, j \in 1 .. Len(q) : q[i] = q[j] => i = j
  PROVE  Behind(q, Head(q)) = Tail(q)
<1>1. 1 \in 1 .. Len(q) /\ Head(q) = q[1]
  BY EmptySeq
<1>2. (CHOOSE k \in 1 .. Len(q) : q[k] = Head(q)) = 1
  BY <1>1
<1>3. Behind(q, Head(q)) = SubSeq(q, 2, Len(q))
  BY <1>2, SMTT(40) DEF Behind
<1>4. QED
  BY <1>1, <1>3

(* NULL is not a TCB. *)
LEMMA NullIsNoThread == NULL \notin Thread
  BY TableAssumption DEF Thread

(***************************************************************************)
(* getcurrent() of a thread that is at the head of its queue, or not READY,*)
(* keeps the queues consistent and clears its READY bit only.              *)
(***************************************************************************)
LEMMA GetcurrentConsistent ==
  ASSUME NEW Q \in Ready, NEW prio \in [Thread -> Priority],
         NEW t \in Thread, Consistent(Q, prio),
         t \in Q.ready => Q.que[prio[t]] # <<>> /\ Head(Q.que[prio[t]]) = t
  PROVE  LET G == getcurrent(Q, prio, t)
         IN  /\ G \in Ready
             /\ Consistent(G, prio)
             /\ G.ready = Q.ready \ {t}
<1>1. CASE t \notin Q.ready
  BY <1>1 DEF getcurrent
<1>2. CASE t \in Q.ready
  <2> DEFINE q == Q.que[prio[t]]
             G == [que   |-> [Q.que EXCEPT ![prio[t]] = Tail(q)],
                   ready |-> Q.ready \ {t}]
  <2>1. /\ Q.que \in [Priority -> Seq(Thread)]
        /\ Q.ready \in SUBSET Thread
        /\ prio[t] \in Priority
        /\ q \in Seq(Thread)
    BY DEF Ready
  <2>2. q # <<>> /\ Head(q) = t
    BY <1>2
  <2>3. \A i, j \in 1 .. Len(q) : q[i] = q[j] => i = j
    BY <2>1 DEF Consistent, QueuedOnce
  <2>4. Behind(q, t) = Tail(q)
    BY <2>1, <2>2, <2>3, BehindHead
  <2>5. getcurrent(Q, prio, t) = G
    BY <1>2, <2>4 DEF getcurrent
  <2>6. /\ Tail(q) \in Seq(Thread)
        /\ Len(Tail(q)) = Len(q) - 1
        /\ \A i \in 1 .. Len(q) - 1 : Tail(q)[i] = q[i + 1]
        /\ Len(q) \in Nat \ {0}
    BY <2>1, <2>2
  <2>7. G \in Ready
    BY <2>1, <2>6 DEF Ready
  <2>8. /\ \A p \in Priority : G.que[p] = IF p = prio[t] THEN Tail(q) ELSE Q.que[p]
        /\ G.ready = Q.ready \ {t}
    BY <2>1
  <2> HIDE DEF G
  <2>9. QueuedAreReady(G, prio)
    <3> SUFFICES ASSUME NEW p \in Priority, NEW i \in 1 .. Len(G.que[p])
                 PROVE  G.que[p][i] \in G.ready /\ prio[G.que[p][i]] = p
      BY DEF QueuedAreReady
    <3>1. CASE p = prio[t]
      <4>0. G.que[p] = Tail(q)
        BY <2>8, <3>1
      <4>1. i + 1 \in 1 .. Len(q) /\ G.que[p][i] = q[i + 1]
        <5>1. i \in 1 .. Len(q) - 1
          BY <4>0, <2>6
        <5>2. QED
          BY <5>1, <4>0, <2>6
      <4>2. q[i + 1] \in Q.ready /\ prio[q[i + 1]] = p
        BY <4>1, <3>1 DEF Consistent, QueuedAreReady
      <4>3. q[i + 1] # t
        <5>1. q[1] = t /\ 1 \in 1 .. Len(q) /\ i \in Nat \ {0}
          BY <2>1, <2>2, <2>6, <2>8, <3>1
        <5>2. QED
          BY <5>1, <4>1, <2>3
      <4>4. QED
        BY <4>1, <4>2, <4>3, <2>8
    <3>2. CASE p # prio[t]
      <4>1. G.que[p] = Q.que[p]
        BY <2>8, <3>2
      <4>2. Q.que[p][i] \in Q.ready /\ prio[Q.que[p][i]] = p
        BY <4>1 DEF Consistent, QueuedAreReady
      <4>3. QED
        BY <4>1, <4>2, <2>8, <3>2
    <3>3. QED
      BY <3>1, <3>2
  <2>10. QueuedOnce(G)
    <3> SUFFICES ASSUME NEW p \in Priority, NEW i \in 1 .. Len(G.que[p]),
                        NEW j \in 1 .. Len(G.que[p]), G.que[p][i] = G.que[p][j]
                 PROVE  i = j
      BY DEF QueuedOnce
    <3>1. CASE p = prio[t]
      <4>1. /\ i \in 1 .. Len(q) - 1 /\ j \in 1 .. Len(q) - 1
            /\ q[i + 1] = q[j + 1]
        BY <2>6, <2>8, <3>1
      <4>2. i + 1 \in 1 .. Len(q) /\ j + 1 \in 1 .. Len(q)
        BY <4>1, <2>6
      <4>3. i + 1 = j + 1
        BY <4>1, <4>2, <2>3
      <4>4. QED
        BY <4>1, <4>3, <2>6
    <3>2. CASE p # prio[t]
      BY <3>2, <2>8 DEF Consistent, QueuedOnce
    <3>3. QED
      BY <3>1, <3>2
  <2>11. ReadyAreQueued(G, prio)
    <3> SUFFICES ASSUME NEW u \in Q.ready, u # t
                 PROVE  \E i \in 1 .. Len(G.que[prio[u]]) : G.que[prio[u]][i] = u
      BY <2>8 DEF ReadyAreQueued
    <3>0. u \in Thread /\ prio[u] \in Priority
      BY <2>1
    <3>1. PICK k \in 1 .. Len(Q.que[prio[u]]) : Q.que[prio[u]][k] = u
      BY DEF Consistent, ReadyAreQueued
    <3>2. CASE prio[u] = prio[t]
      <4>1. k # 1 /\ k \in 1 .. Len(q) /\ q[k] = u
        BY <2>1, <2>2, <3>1, <3>2
      <4>2. k - 1 \in 1 .. Len(q) - 1 /\ (k - 1) + 1 = k
        BY <4>1, <2>6
      <4>3. Tail(q)[k - 1] = u
        BY <4>1, <4>2, <2>6
      <4>4. QED
        BY <4>2, <4>3, <3>0, <3>2, <2>6, <2>8
    <3>3. CASE prio[u] # prio[t]
      BY <3>0, <3>1, <3>3, <2>8
    <3>4. QED
      BY <3>2, <3>3
  <2>12. QED
    BY <2>5, <2>7, <2>8, <2>9, <2>10, <2>11 DEF Consistent
<1>3. QED
  BY <1>1, <1>2

(***************************************************************************)
(* putcurrent() of any thread, queued or not, and of NULL, keeps the       *)
(* queues consistent and sets the READY bit of that thread only.           *)
(***************************************************************************)
LEMMA PutcurrentConsistent ==
  ASSUME NEW Q \in Ready, NEW prio \in [Thread -> Priority],
         NEW t \in Thread \cup {NULL}, Consistent(Q, prio)
  PROVE  LET P == putcurrent(Q, prio, t)
         IN  /\ P \in Ready
             /\ Consistent(P, prio)
             /\ P.ready = Q.ready \cup ({t} \ {NULL})
<1>0. Q.que \in [Priority -> Seq(Thread)] /\ Q.ready \in SUBSET Thread
  BY DEF Ready
<1>1. CASE t = NULL \/ t \in Q.ready
  BY <1>0, <1>1, NullIsNoThread DEF putcurrent
<1>2. CASE t # NULL /\ t \notin Q.ready
  <2> DEFINE q == Q.que[prio[t]]
             P == [que   |-> [Q.que EXCEPT ![prio[t]] = Append(q, t)],
                   ready |-> Q.ready \cup {t}]
  <2>1. t \in Thread /\ prio[t] \in Priority /\ q \in Seq(Thread)
    BY <1>0, <1>2
  <2>2. putcurrent(Q, prio, t) = P
    BY <1>2 DEF putcurrent
  <2>3. /\ Append(q, t) \in Seq(Thread)
        /\ Len(Append(q, t)) = Len(q) + 1
        /\ \A i \in 1 .. Len(q) : Append(q, t)[i] = q[i]
        /\ Append(q, t)[Len(q) + 1] = t
        /\ Len(q) \in Nat
    BY <2>1, AppendProperties
  <2>4. P \in Ready
    BY <1>0, <2>1, <2>3 DEF Ready
  <2>5. /\ \A p \in Priority : P.que[p] = IF p = prio[t] THEN Append(q, t) ELSE Q.que[p]
        /\ P.ready = Q.ready \cup {t}
    BY <1>0
  <2> HIDE DEF P
  <2>6. \A i \in 1 .. Len(q) : q[i] \in Q.ready /\ prio[q[i]] = prio[t] /\ q[i] # t
    BY <1>2, <2>1 DEF Consistent, QueuedAreReady
  <2>7. QueuedAreReady(P, prio)
    <3> SUFFICES ASSUME NEW p \in Priority, NEW i \in 1 .. Len(P.que[p])
                 PROVE  P.que[p][i] \in P.ready /\ prio[P.que[p][i]] = p
      BY DEF QueuedAreReady
    <3>1. CASE p = prio[t]
      <4>0. P.que[p] = Append(q, t)
        BY <2>5, <3>1
      <4>1. i \in 1 .. Len(q) \/ i = Len(q) + 1
        BY <4>0, <2>3
      <4>2. CASE i \in 1 .. Len(q)
        BY <4>0, <4>2, <2>3, <2>5, <2>6, <3>1
      <4>3. CASE i = Len(q) + 1
        BY <4>0, <4>3, <2>3, <2>5, <3>1
      <4>4. QED
        BY <4>1, <4>2, <4>3
    <3>2. CASE p # prio[t]
      BY <3>2, <2>5 DEF Consistent, QueuedAreReady
    <3>3. QED
      BY <3>1, <3>2
  <2>8. QueuedOnce(P)
    <3> SUFFICES ASSUME NEW p \in Priority, NEW i \in 1 .. Len(P.que[p]),
                        NEW j \in 1 .. Len(P.que[p]), P.que[p][i] = P.que[p][j]
                 PROVE  i = j
      BY DEF QueuedOnce
    <3>1. CASE p = prio[t]
      <4>0. P.que[p] = Append(q, t)
        BY <2>5, <3>1
      <4>1. /\ i \in 1 .. Len(q) \/ i = Len(q) + 1
            /\ j \in 1 .. Len(q) \/ j = Len(q) + 1
            /\ Append(q, t)[i] = Append(q, t)[j]
        BY <4>0, <2>3
      <4>2. \A k, l \in 1 .. Len(q) : q[k] = q[l] => k = l
        BY <2>1 DEF Consistent, QueuedOnce
      <4>3. QED
        BY <4>1, <4>2, <2>3, <2>6
    <3>2. CASE p # prio[t]
      BY <3>2, <2>5 DEF Consistent, QueuedOnce
    <3>3. QED
      BY <3>1, <3>2
  <2>9. ReadyAreQueued(P, prio)
    <3> SUFFICES ASSUME NEW u \in Q.ready \cup {t}
                 PROVE  \E i \in 1 .. Len(P.que[prio[u]]) : P.que[prio[u]][i] = u
      BY <2>5 DEF ReadyAreQueued
    <3>1. CASE u = t
      <4>0. P.que[prio[u]] = Append(q, t)
        BY <2>1, <2>5, <3>1
      <4>1. Len(q) + 1 \in 1 .. Len(P.que[prio[u]])
        BY <4>0, <2>3
      <4>2. P.que[prio[u]][Len(q) + 1] = u
        BY <2>1, <2>3, <2>5, <3>1
      <4>3. QED
        BY <4>1, <4>2
    <3>2. CASE u \in Q.ready
      <4>1. PICK k \in 1 .. Len(Q.que[prio[u]]) : Q.que[prio[u]][k] = u
        BY <3>2 DEF Consistent, ReadyAreQueued
      <4>2. prio[u] \in Priority
        BY <1>0, <3>2
      <4>3. CASE prio[u] = prio[t]
        <5>1. k \in 1 .. Len(q) /\ k \in 1 .. Len(q) + 1
          BY <4>1, <4>3, <2>3
        <5>2. QED
          BY <5>1, <4>1, <4>2, <4>3, <2>3, <2>5
      <4>4. CASE prio[u] # prio[t]
        BY <4>1, <4>2, <4>4, <2>5
      <4>5. QED
        BY <4>3, <4>4
    <3>3. QED
      BY <3>1, <3>2
  <2>10. QED
    BY <2>2, <2>4, <2>5, <2>7, <2>8, <2>9, <1>2 DEF Consistent
<1>3. QED
  BY <1>1, <1>2

(***************************************************************************)
(* Consistency looks at the priorities of READY threads only, so that of a *)
(* thread that getcurrent() took out may change.                           *)
(***************************************************************************)
LEMMA PriorityOfUnready ==
  ASSUME NEW Q \in Ready,
         NEW prio \in [Thread -> Priority], NEW new \in [Thread -> Priority],
         \A t \in Q.ready : new[t] = prio[t],
         Consistent(Q, prio)
  PROVE  Consistent(Q, new)
<1>1. QueuedAreReady(Q, new)
  BY DEF Consistent, QueuedAreReady
<1>2. ReadyAreQueued(Q, new)
  BY DEF Consistent, ReadyAreQueued
<1>3. QED
  BY <1>1, <1>2 DEF Consistent

(* memset() of a TCB that is not READY leaves the queues as they are.      *)
LEMMA ClearedUnready ==
  ASSUME NEW Q \in Ready, NEW t \in Thread \ Q.ready
  PROVE  Cleared(Q, t) = Q
BY DEF Cleared, Ready

-------------------------------------------------------------------------------
(***************************************************************************)
(* The inductive invariant.  The parts need one another: getcurrent() is   *)
(* right because the caller runs first, thread_run() and dispatch because  *)
(* no dead TCB is queued, and recvmsg() queues the receiver, so that it    *)
(* must be alive.                                                          *)
(***************************************************************************)
QueueInv == ReadyQueueConsistent /\ RunsFirst
WaitInv  == ReadyAreLive /\ ReceiverWaits /\ NoMissedMessage /\ WaitingIsKnown
IInv     == TypeOK /\ QueueInv /\ WaitInv

LEMMA InitIInv == Init => IInv
<1> SUFFICES ASSUME Init PROVE IInv
  OBVIOUS
<1> USE DEF Init
<1>0. 0 \in Thread /\ 0 \in Priority /\ NULL \notin Thread
  BY TableAssumption DEF Thread, Priority
<1>1. /\ <<0>> \in Seq(Thread) /\ <<>> \in Seq(Thread) /\ Len(<<0>>) = 1
      /\ Len(<<>>) = 0 /\ <<0>>[1] = 0 /\ Head(<<0>>) = 0 /\ <<0>> # <<>>
  BY <1>0
<1>2. rq \in Ready
  BY <1>0, <1>1 DEF Ready
<1>3. \A p \in Priority : rq.que[p] = IF p = 0 THEN <<0>> ELSE <<>>
  BY <1>0
<1>4. TypeOK
  <2>1. <<>> \in Seq(Message)
    OBVIOUS
  <2>2. 1 \in Nat /\ NULL \in Received
    BY DEF Received
  <2>3. QED
    BY <1>0, <1>2, <2>1, <2>2, KozosAssumption DEF TypeOK, CallType
<1>5. ReadyQueueConsistent
  <2>1. QueuedAreReady(rq, priority)
    BY <1>0, <1>1, <1>3 DEF QueuedAreReady
  <2>2. QueuedOnce(rq)
    BY <1>0, <1>1, <1>3 DEF QueuedOnce
  <2>3. ReadyAreQueued(rq, priority)
    BY <1>0, <1>1, <1>3 DEF ReadyAreQueued
  <2>4. QED
    BY <2>1, <2>2, <2>3 DEF ReadyQueueConsistent, Consistent
<1>6. RunsFirst
  BY <1>0, <1>1, <1>3 DEF RunsFirst, IsFirst, Priority
<1>7. WaitInv
  BY <1>0 DEF WaitInv, ReadyAreLive, ReceiverWaits, NoMissedMessage,
              WaitingIsKnown
<1>8. QED
  BY <1>4, <1>5, <1>6, <1>7 DEF IInv, QueueInv

-------------------------------------------------------------------------------
(***************************************************************************)
(* The ready queues while a call runs.                                     *)
(***************************************************************************)
(* The caller is taken out of the queues and put back.                     *)
LEMMA CallerQueues ==
  ASSUME TypeOK, QueueInv, mode = "user"
  PROVE  /\ current \in Thread /\ current \in rq.ready
         /\ Taken \in Ready /\ Consistent(Taken, priority)
         /\ Taken.ready = rq.ready \ {current}
         /\ Requeued \in Ready /\ Consistent(Requeued, priority)
         /\ Requeued.ready = rq.ready
<1>1. /\ rq \in Ready /\ priority \in [Thread -> Priority]
      /\ rq.ready \in SUBSET Thread
  BY DEF TypeOK, Ready
<1>2. /\ current \in Thread /\ current \in rq.ready
      /\ rq.que[priority[current]] # <<>>
      /\ Head(rq.que[priority[current]]) = current
  BY <1>1 DEF QueueInv, RunsFirst, IsFirst
<1>3. /\ Taken \in Ready /\ Consistent(Taken, priority)
      /\ Taken.ready = rq.ready \ {current}
  BY <1>1, <1>2, GetcurrentConsistent
     DEF Taken, QueueInv, ReadyQueueConsistent
<1>4. /\ Requeued \in Ready /\ Consistent(Requeued, priority)
      /\ Requeued.ready = Taken.ready \cup ({current} \ {NULL})
  BY <1>1, <1>2, <1>3, PutcurrentConsistent DEF Requeued
<1>5. QED
  BY <1>2, <1>3, <1>4, NullIsNoThread

(* schedule() on consistent queues ends with the right thread running.     *)
LEMMA ScheduleRunsFirst ==
  ASSUME current \in Thread \cup {NULL},
         rq' \in Ready, priority' \in [Thread -> Priority],
         Consistent(rq', priority'), schedule
  PROVE  /\ current' \in Thread \cup {NULL}
         /\ mode' \in {"user", "intr", "down"}
         /\ QueueInv'
<1>1. CASE kz_sysdown
  BY <1>1 DEF kz_sysdown, QueueInv, ReadyQueueConsistent, RunsFirst
<1>2. ASSUME NEW p \in Priority,
             /\ rq'.que[p] # <<>>
             /\ \A i \in 0 .. p - 1 : rq'.que[i] = <<>>
             /\ current' = Head(rq'.que[p])
             /\ mode' = "user"
      PROVE  /\ current' \in Thread \cup {NULL}
             /\ mode' \in {"user", "intr", "down"}
             /\ QueueInv'
  <2>1. rq'.que[p] \in Seq(Thread) /\ Len(rq'.que[p]) \in Nat
    BY DEF Ready
  <2>2. /\ current' = rq'.que[p][1] /\ 1 \in 1 .. Len(rq'.que[p])
        /\ current' \in Thread
    BY <1>2, <2>1
  <2>3. current' \in rq'.ready /\ priority'[current'] = p
    BY <2>2 DEF Consistent, QueuedAreReady
  <2>4. \A i \in Priority : i < p => rq'.que[i] = <<>>
    BY <1>2 DEF Priority
  <2>5. RunsFirst'
    BY <1>2, <2>3, <2>4 DEF RunsFirst, IsFirst
  <2>6. QED
    BY <1>2, <2>2, <2>5 DEF QueueInv, ReadyQueueConsistent
<1>3. QED
  BY <1>1, <1>2 DEF schedule

(***************************************************************************)
(* thread_send(): the receiver, if there is one, becomes ready and is no   *)
(* longer registered; nobody waits at a box with a message afterwards.     *)
(***************************************************************************)
LEMMA SendEffect ==
  ASSUME TypeOK, NoMissedMessage, HasBlock(MsgPool),
         NEW Q \in Ready, Consistent(Q, priority),
         NEW P \in [Thread -> Received], NEW m \in Message, NEW b \in MsgBox,
         thread_send(Q, P, m, b)
  PROVE  /\ rq' \in Ready /\ Consistent(rq', priority)
         /\ rq'.ready = Q.ready \cup ({receiver[b]} \ {NULL})
         /\ receiver' = [receiver EXCEPT ![b] = NULL]
         /\ msgs' \in [MsgBox -> Seq(Message)]
         /\ param' \in [Thread -> Received]
         /\ free' \in [Pool -> Nat]
         /\ NoMissedMessage'
<1> DEFINE queued == Append(msgs[b], m)
<1>0. /\ msgs \in [MsgBox -> Seq(Message)] /\ priority \in [Thread -> Priority]
      /\ receiver \in [MsgBox -> Thread \cup {NULL}] /\ free \in [Pool -> Nat]
  BY DEF TypeOK
<1>1. /\ queued \in Seq(Message) /\ queued # <<>>
      /\ Head(queued) \in Message /\ Tail(queued) \in Seq(Message)
  BY <1>0, AppendProperties
<1>2. CASE receiver[b] = NULL
  <2> SUFFICES ASSUME rq' = Q, param' = P, receiver' = receiver,
                      msgs' = [msgs EXCEPT ![b] = queued],
                      free' = [free EXCEPT ![MsgPool] = @ - 1]
               PROVE  /\ rq' \in Ready /\ Consistent(rq', priority)
                      /\ rq'.ready = Q.ready \cup ({receiver[b]} \ {NULL})
                      /\ receiver' = [receiver EXCEPT ![b] = NULL]
                      /\ msgs' \in [MsgBox -> Seq(Message)]
                      /\ param' \in [Thread -> Received]
                      /\ free' \in [Pool -> Nat]
                      /\ NoMissedMessage'
    BY <1>2 DEF thread_send
  <2>1. free' \in [Pool -> Nat]
    BY <1>0 DEF HasBlock
  <2>2. receiver' = [receiver EXCEPT ![b] = NULL]
    BY <1>0, <1>2
  <2>3. NoMissedMessage'
    BY <1>0, <1>2 DEF NoMissedMessage
  <2> HIDE DEF queued
  <2>4. QED
    BY <1>0, <1>1, <1>2, <2>1, <2>2, <2>3
<1>3. CASE receiver[b] # NULL
  <2>1. /\ param' = [P EXCEPT ![receiver[b]] = Head(queued)]
        /\ msgs' = [msgs EXCEPT ![b] = Tail(queued)]
        /\ receiver' = [receiver EXCEPT ![b] = NULL]
        /\ rq' = putcurrent(Q, priority, receiver[b])
        /\ free' = free
    BY <1>3 DEF thread_send, recvmsg
  <2>2. /\ rq' \in Ready /\ Consistent(rq', priority)
        /\ rq'.ready = Q.ready \cup ({receiver[b]} \ {NULL})
    BY <1>0, <2>1, PutcurrentConsistent
  <2> HIDE DEF queued
  <2>3. NoMissedMessage'
    BY <1>0, <2>1 DEF NoMissedMessage
  <2>4. param' \in [Thread -> Received]
    BY <1>0, <1>1, <1>3, <2>1 DEF Received
  <2>5. QED
    BY <1>0, <1>1, <2>1, <2>2, <2>3, <2>4
<1>4. QED
  BY <1>2, <1>3

-------------------------------------------------------------------------------
(***************************************************************************)
(* Steps that take nobody out of the ready queues and touch no message box *)
(* keep WaitInv, when they queue live threads only and no receiver.        *)
(***************************************************************************)
LEMMA NobodyWaits ==
  ASSUME TypeOK, WaitInv, mode # "down",
         live' = live, receiver' = receiver, msgs' = msgs,
         rq.ready \subseteq rq'.ready, rq'.ready \subseteq live,
         \A b \in MsgBox : receiver[b] # NULL => receiver[b] \notin rq'.ready,
         \A t \in Thread \ rq'.ready : call'[t] = call[t]
  PROVE  WaitInv'
<1>1. ReadyAreLive' /\ NoMissedMessage'
  BY DEF WaitInv, ReadyAreLive, NoMissedMessage
<1>2. ReceiverWaits'
  BY DEF WaitInv, ReceiverWaits, TypeOK
<1>3. WaitingIsKnown'
  BY DEF WaitInv, WaitingIsKnown, TypeOK
<1>4. QED
  BY <1>1, <1>2, <1>3 DEF WaitInv

(* The caller of a system call is a live thread and not a receiver.        *)
LEMMA CallerIsLive ==
  ASSUME IInv, mode = "user"
  PROVE  /\ current \in live
         /\ \A b \in MsgBox : receiver[b] # current
         /\ \A b \in MsgBox : receiver[b] # NULL => receiver[b] \notin rq.ready
<1>1. current \in rq.ready /\ current \in Thread
  BY CallerQueues DEF IInv
<1>2. QED
  BY <1>1, NullIsNoThread DEF IInv, WaitInv, ReadyAreLive, ReceiverWaits

(* Calls that requeue the caller and do nothing else to threads and boxes. *)
LEMMA RequeueStep ==
  ASSUME IInv, kz_syscall("OTHER"), rq' = Requeued, param' = NewParam,
         UNCHANGED <<tcbVars, boxVars>>,
         free' \in [Pool -> Nat], held' \in [Pool -> Nat], handler' \in BOOLEAN,
         schedule \/ kz_sysdown
  PROVE  IInv'
<1>1. mode = "user"
  BY DEF kz_syscall
<1>2. /\ current \in Thread /\ current \in rq.ready
      /\ rq' \in Ready /\ Consistent(rq', priority') /\ rq'.ready = rq.ready
  BY <1>1, CallerQueues DEF IInv, tcbVars
<1>3. priority' \in [Thread -> Priority]
  BY DEF IInv, TypeOK, tcbVars
<1>4. /\ current' \in Thread \cup {NULL}
      /\ mode' \in {"user", "intr", "down"}
      /\ QueueInv'
  <2>1. CASE schedule
    BY <1>2, <1>3, <2>1, ScheduleRunsFirst
  <2>2. CASE kz_sysdown
    BY <1>2, <2>2 DEF kz_sysdown, QueueInv, RunsFirst, ReadyQueueConsistent
  <2>3. QED
    BY <2>1, <2>2
<1>5. TypeOK'
  BY <1>2, <1>3, <1>4
     DEF IInv, TypeOK, tcbVars, boxVars, kz_syscall, NewParam, CallType, Received
<1>6. WaitInv'
  <2>1. \A t \in Thread \ rq'.ready : call'[t] = call[t]
    BY <1>2 DEF kz_syscall, IInv, TypeOK
  <2>2. rq'.ready \subseteq live
    BY <1>2 DEF IInv, WaitInv, ReadyAreLive
  <2>3. QED
    BY <1>1, <1>2, <2>1, <2>2, CallerIsLive, NobodyWaits DEF IInv, tcbVars, boxVars
<1>7. QED
  BY <1>4, <1>5, <1>6 DEF IInv

-------------------------------------------------------------------------------
(***************************************************************************)
(* The system calls on threads.                                            *)
(***************************************************************************)
LEMMA RunStep ==
  ASSUME IInv, NEW p \in Priority, thread_run(p)
  PROVE  IInv'
<1>1. mode = "user" /\ kz_syscall("RUN") /\ schedule
  BY DEF thread_run, kz_syscall
<1>2. /\ current \in Thread /\ current \in rq.ready
      /\ Taken \in Ready /\ Consistent(Taken, priority)
      /\ Taken.ready = rq.ready \ {current}
  BY <1>1, CallerQueues DEF IInv
<1>3. current \in live /\ \A b \in MsgBox : receiver[b] # current
  BY <1>1, CallerIsLive
<1>4. UNCHANGED <<boxVars, memVars, handler>>
  BY DEF thread_run
<1>5. CASE /\ live = Thread
           /\ rq' = Taken
           /\ param' = NewParam
           /\ UNCHANGED tcbVars
  <2>1. /\ current' \in Thread \cup {NULL}
        /\ mode' \in {"user", "intr", "down"}
        /\ QueueInv'
    BY <1>1, <1>2, <1>5, ScheduleRunsFirst DEF IInv, TypeOK, tcbVars
  <2>2. TypeOK'
    BY <1>1, <1>2, <1>4, <1>5, <2>1
       DEF IInv, TypeOK, tcbVars, boxVars, memVars, kz_syscall, NewParam, CallType,
           Received
  <2>3. ReadyAreLive' /\ ReceiverWaits' /\ NoMissedMessage'
    BY <1>1, <1>2, <1>3, <1>4, <1>5
       DEF IInv, WaitInv, ReadyAreLive, ReceiverWaits, NoMissedMessage, TypeOK,
           tcbVars, boxVars, kz_syscall
  <2>4. WaitingIsKnown'
    BY <1>1, <1>2, <1>4, <1>5
       DEF IInv, WaitInv, WaitingIsKnown, TypeOK, tcbVars, boxVars, kz_syscall
  <2>5. QED
    BY <2>1, <2>2, <2>3, <2>4 DEF IInv, WaitInv
<1>6. ASSUME NEW t \in Thread \ live,
             live' = live \cup {t},
             priority' = [priority EXCEPT ![t] = p],
             masked' = IF p = 0 THEN masked \cup {t} ELSE masked \ {t},
             stacks' = stacks + 1,
             param' = [NewParam EXCEPT ![t] = NULL],
             rq' = putcurrent(putcurrent(Cleared(Taken, t), priority, current),
                              priority', t)
      PROVE  IInv'
  <2>0. /\ priority' \in [Thread -> Priority] /\ priority \in [Thread -> Priority]
        /\ \A u \in Thread \ {t} : priority'[u] = priority[u]
    BY <1>6 DEF IInv, TypeOK
  <2>1. t \notin rq.ready /\ t # NULL
    BY NullIsNoThread DEF IInv, WaitInv, ReadyAreLive
  <2>2. Cleared(Taken, t) = Taken
    BY <1>2, <2>1, ClearedUnready
  <2>3. Cleared(Taken, t) \in Ready
    BY <1>2, <2>2
  <2>4. /\ Requeued \in Ready /\ Consistent(Requeued, priority)
        /\ Requeued.ready = rq.ready
        /\ Requeued = putcurrent(Cleared(Taken, t), priority, current)
    BY <1>1, <2>2, CallerQueues DEF IInv, Requeued
  <2>5. Consistent(Requeued, priority')
    <3>1. \A u \in Requeued.ready : priority'[u] = priority[u]
      BY <2>0, <2>1, <2>4 DEF Ready
    <3>2. QED
      BY <2>0, <2>4, <3>1, PriorityOfUnready
  <2>6. /\ rq' \in Ready /\ Consistent(rq', priority')
        /\ rq'.ready = rq.ready \cup {t}
    <3>1. rq' = putcurrent(Requeued, priority', t)
      BY <1>6, <2>4
    <3>2. t \in Thread \cup {NULL} /\ {t} \ {NULL} = {t}
      BY <2>1
    <3>3. QED
      <4> DEFINE P == putcurrent(Requeued, priority', t)
      <4>1. P \in Ready /\ Consistent(P, priority') /\ P.ready = Requeued.ready \cup {t}
        <5>1. priority' \in [Thread -> Priority] /\ Requeued \in Ready
          BY <2>0, <2>4
        <5>2. QED
          BY <5>1, <2>5, <3>2, PutcurrentConsistent, Zenon
      <4>2. QED
        BY <2>4, <3>1, <4>1
  <2>7. /\ current' \in Thread \cup {NULL}
        /\ mode' \in {"user", "intr", "down"}
        /\ QueueInv'
    BY <1>1, <1>2, <2>0, <2>6, ScheduleRunsFirst
  <2>8. TypeOK'
    <3>1. param' \in [Thread -> Received] /\ call' \in [Thread -> CallType]
      BY <1>1, <1>6 DEF IInv, TypeOK, kz_syscall, NewParam, CallType, Received
    <3>2. /\ live' \in SUBSET Thread /\ masked' \in SUBSET Thread
          /\ stacks' \in Nat
      BY <1>6 DEF IInv, TypeOK
    <3>3. QED
      BY <1>4, <2>0, <2>6, <2>7, <3>1, <3>2 DEF IInv, TypeOK, boxVars, memVars
  <2>9. ReadyAreLive' /\ ReceiverWaits' /\ NoMissedMessage'
    BY <1>1, <1>2, <1>3, <1>4, <1>6, <2>6
       DEF IInv, WaitInv, ReadyAreLive, ReceiverWaits, NoMissedMessage, TypeOK,
           boxVars, kz_syscall
  <2>10. WaitingIsKnown'
    BY <1>1, <1>2, <1>4, <1>6, <2>6
       DEF IInv, WaitInv, WaitingIsKnown, TypeOK, boxVars, kz_syscall
  <2>11. QED
    BY <2>7, <2>8, <2>9, <2>10 DEF IInv, WaitInv
<1>7. QED
  BY <1>5, <1>6 DEF thread_run

LEMMA ExitStep ==
  ASSUME IInv, ClearCurrent
  PROVE  IInv'
<1>1. mode = "user" /\ schedule
  BY DEF ClearCurrent
<1>2. /\ current \in Thread /\ current \in rq.ready
      /\ Taken \in Ready /\ Consistent(Taken, priority)
      /\ Taken.ready = rq.ready \ {current}
  BY <1>1, CallerQueues DEF IInv
<1>3. current \in live /\ \A b \in MsgBox : receiver[b] # current
  BY <1>1, CallerIsLive
<1>4. rq' = Taken
  BY <1>2, ClearedUnready DEF ClearCurrent
<1>5. /\ priority' \in [Thread -> Priority] /\ priority \in [Thread -> Priority]
      /\ \A t \in rq'.ready : priority'[t] = priority[t]
  <2>1. 0 \in Priority
    BY TableAssumption DEF Priority
  <2>2. QED
    BY <1>2, <1>4, <2>1 DEF ClearCurrent, IInv, TypeOK, Ready
<1>6. rq' \in Ready /\ Consistent(rq', priority')
  BY <1>2, <1>4, <1>5, PriorityOfUnready
<1>7. /\ current' \in Thread \cup {NULL}
      /\ mode' \in {"user", "intr", "down"}
      /\ QueueInv'
  BY <1>1, <1>2, <1>5, <1>6, ScheduleRunsFirst
<1>8. TypeOK'
  BY <1>2, <1>5, <1>6, <1>7
     DEF ClearCurrent, IInv, TypeOK, boxVars, memVars, NewParam, CallType, Received
<1>9. ReadyAreLive' /\ ReceiverWaits' /\ NoMissedMessage'
  BY <1>2, <1>3, <1>4
     DEF ClearCurrent, IInv, WaitInv, ReadyAreLive, ReceiverWaits, NoMissedMessage,
         TypeOK, boxVars
<1>10. WaitingIsKnown'
  BY <1>1, <1>2, <1>4
     DEF ClearCurrent, IInv, WaitInv, WaitingIsKnown, TypeOK, boxVars
<1>11. QED
  BY <1>7, <1>8, <1>9, <1>10 DEF IInv, WaitInv

LEMMA SleepStep ==
  ASSUME IInv, thread_sleep
  PROVE  IInv'
<1>1. mode = "user" /\ schedule /\ kz_syscall("SLEEP") /\ rq' = Taken
  BY DEF thread_sleep, kz_syscall
<1>2. /\ current \in Thread /\ current \in rq.ready
      /\ rq' \in Ready /\ Consistent(rq', priority)
      /\ rq'.ready = rq.ready \ {current}
  BY <1>1, CallerQueues DEF IInv
<1>3. current \in live /\ \A b \in MsgBox : receiver[b] # current
  BY <1>1, CallerIsLive
<1>4. /\ current' \in Thread \cup {NULL}
      /\ mode' \in {"user", "intr", "down"}
      /\ QueueInv'
  BY <1>1, <1>2, ScheduleRunsFirst DEF thread_sleep, tcbVars, IInv, TypeOK
<1>5. TypeOK'
  BY <1>1, <1>2, <1>4
     DEF thread_sleep, kz_syscall, IInv, TypeOK, tcbVars, boxVars, memVars, NewParam,
         CallType, Received
<1>6. ReadyAreLive' /\ ReceiverWaits' /\ NoMissedMessage'
  BY <1>2, <1>3
     DEF thread_sleep, kz_syscall, IInv, WaitInv, ReadyAreLive, ReceiverWaits,
         NoMissedMessage, TypeOK, tcbVars, boxVars
<1>7. WaitingIsKnown'
  BY <1>1, <1>2
     DEF thread_sleep, kz_syscall, IInv, WaitInv, WaitingIsKnown, TypeOK, tcbVars,
         boxVars
<1>8. QED
  BY <1>4, <1>5, <1>6, <1>7 DEF IInv, WaitInv

(* A thread that may be woken up, under ~WakeReceivers, is no receiver.    *)
LEMMA WakeupStep ==
  ASSUME ~WakeReceivers, IInv, NEW t \in Thread, thread_wakeup(t)
  PROVE  IInv'
<1>1. mode = "user" /\ schedule /\ kz_syscall("OTHER")
  BY DEF thread_wakeup, kz_syscall
<1>2. t \in live /\ \A b \in MsgBox : receiver[b] # t
  BY DEF thread_wakeup, Wakeable
<1>3. /\ current \in Thread /\ current \in rq.ready
      /\ Requeued \in Ready /\ Consistent(Requeued, priority)
      /\ Requeued.ready = rq.ready
  BY <1>1, CallerQueues DEF IInv
<1>4. /\ rq' \in Ready /\ Consistent(rq', priority)
      /\ rq'.ready = rq.ready \cup {t}
  BY <1>3, PutcurrentConsistent, NullIsNoThread DEF thread_wakeup, IInv, TypeOK
<1>5. /\ current' \in Thread \cup {NULL}
      /\ mode' \in {"user", "intr", "down"}
      /\ QueueInv'
  BY <1>1, <1>3, <1>4, ScheduleRunsFirst DEF thread_wakeup, tcbVars, IInv, TypeOK
<1>6. TypeOK'
  BY <1>1, <1>3, <1>4, <1>5
     DEF thread_wakeup, kz_syscall, IInv, TypeOK, tcbVars, boxVars, memVars, NewParam,
         CallType, Received
<1>7. WaitInv'
  <2>1. \A u \in Thread \ rq'.ready : call'[u] = call[u]
    BY <1>3, <1>4 DEF thread_wakeup, kz_syscall, IInv, TypeOK
  <2>2. rq'.ready \subseteq live
    BY <1>2, <1>4 DEF IInv, WaitInv, ReadyAreLive
  <2>3. \A b \in MsgBox : receiver[b] # NULL => receiver[b] \notin rq'.ready
    BY <1>1, <1>2, <1>4, CallerIsLive
  <2>4. QED
    BY <1>1, <1>4, <2>1, <2>2, <2>3, NobodyWaits
       DEF thread_wakeup, IInv, tcbVars, boxVars
<1>8. QED
  BY <1>5, <1>6, <1>7 DEF IInv

LEMMA ChpriStep ==
  ASSUME IInv, NEW p \in Priority \cup {-1}, thread_chpri(p)
  PROVE  IInv'
<1>1. mode = "user" /\ schedule /\ kz_syscall("OTHER")
  BY DEF thread_chpri, kz_syscall
<1>2. /\ current \in Thread /\ current \in rq.ready
      /\ Taken \in Ready /\ Consistent(Taken, priority)
      /\ Taken.ready = rq.ready \ {current}
  BY <1>1, CallerQueues DEF IInv
<1>3. /\ priority' \in [Thread -> Priority] /\ priority \in [Thread -> Priority]
      /\ \A t \in Taken.ready : priority'[t] = priority[t]
  <2>1. p >= 0 => p \in Priority
    BY DEF Priority
  <2>2. p < 0 \/ p >= 0
    BY DEF Priority
  <2>3. QED
    BY <1>2, <2>1, <2>2 DEF thread_chpri, IInv, TypeOK, Ready
<1>4. Consistent(Taken, priority')
  BY <1>2, <1>3, PriorityOfUnready
<1>5. /\ rq' \in Ready /\ Consistent(rq', priority')
      /\ rq'.ready = rq.ready
  <2>1. rq' = putcurrent(Taken, priority', current)
    BY DEF thread_chpri
  <2>2. current \in Thread \cup {NULL} /\ {current} \ {NULL} = {current}
    BY <1>2, NullIsNoThread
  <2> DEFINE P == putcurrent(Taken, priority', current)
  <2>3. P \in Ready /\ Consistent(P, priority') /\ P.ready = Taken.ready \cup {current}
    <3>1. priority' \in [Thread -> Priority] /\ Taken \in Ready
      BY <1>2, <1>3
    <3>2. QED
      BY <3>1, <1>4, <2>2, PutcurrentConsistent, Zenon
  <2>4. QED
    BY <1>2, <2>1, <2>3
<1>6. /\ current' \in Thread \cup {NULL}
      /\ mode' \in {"user", "intr", "down"}
      /\ QueueInv'
  BY <1>1, <1>2, <1>3, <1>5, ScheduleRunsFirst
<1>7. TypeOK'
  BY <1>1, <1>2, <1>3, <1>5, <1>6
     DEF thread_chpri, kz_syscall, IInv, TypeOK, boxVars, memVars, NewParam,
         CallType, Received
<1>8. WaitInv'
  <2>1. \A u \in Thread \ rq'.ready : call'[u] = call[u]
    BY <1>2, <1>5 DEF thread_chpri, kz_syscall, IInv, TypeOK
  <2>2. rq'.ready \subseteq live
    BY <1>5 DEF IInv, WaitInv, ReadyAreLive
  <2>3. QED
    BY <1>1, <1>5, <2>1, <2>2, CallerIsLive, NobodyWaits
       DEF thread_chpri, IInv, boxVars
<1>9. QED
  BY <1>6, <1>7, <1>8 DEF IInv

-------------------------------------------------------------------------------
(***************************************************************************)
(* The pools.                                                              *)
(***************************************************************************)
LEMMA PoolsKeepTypes ==
  ASSUME TypeOK, NEW k \in Pool \cup {NULL},
         (k \in Pool /\ FreeHeld(k)) \/ (HasBlock(k) /\ AllocateHeld(k)) \/ UNCHANGED memVars
  PROVE  free' \in [Pool -> Nat] /\ held' \in [Pool -> Nat]
<1>1. CASE k \in Pool /\ FreeHeld(k)
  BY <1>1 DEF FreeHeld, TypeOK
<1>2. CASE HasBlock(k) /\ AllocateHeld(k)
  BY <1>2 DEF HasBlock, AllocateHeld, TypeOK
<1>3. CASE UNCHANGED memVars
  BY <1>3 DEF memVars, TypeOK
<1>4. QED
  BY <1>1, <1>2, <1>3

LEMMA MallocStep ==
  ASSUME IInv, NEW k \in Pool \cup {NULL}, thread_kzmalloc(k)
  PROVE  IInv'
<1>1. free' \in [Pool -> Nat] /\ held' \in [Pool -> Nat]
  BY PoolsKeepTypes DEF thread_kzmalloc, IInv
<1>2. QED
  BY <1>1, RequeueStep DEF thread_kzmalloc, IInv, TypeOK

LEMMA KmfreeStep ==
  ASSUME IInv, NEW k \in Pool, thread_kmfree(k)
  PROVE  IInv'
<1>1. free' \in [Pool -> Nat] /\ held' \in [Pool -> Nat]
  BY PoolsKeepTypes DEF thread_kmfree, IInv
<1>2. QED
  BY <1>1, RequeueStep DEF thread_kmfree, IInv, TypeOK

-------------------------------------------------------------------------------
(***************************************************************************)
(* Messages.                                                               *)
(***************************************************************************)
(* A receiver that is handed a message: it is live, it stops waiting, and  *)
(* nobody else waits differently.                                          *)
LEMMA DeliveryKeepsWaiting ==
  ASSUME TypeOK, WaitInv, NEW b \in MsgBox, mode # "down", live' = live,
         receiver' = [receiver EXCEPT ![b] = NULL],
         rq'.ready = rq.ready \cup ({receiver[b]} \ {NULL}),
         \A t \in Thread \ rq'.ready : call'[t] = call[t]
  PROVE  ReadyAreLive' /\ ReceiverWaits' /\ WaitingIsKnown'
<1>1. ReadyAreLive'
  BY DEF WaitInv, ReadyAreLive, ReceiverWaits
<1>2. \A c \in MsgBox : receiver'[c] = IF c = b THEN NULL ELSE receiver[c]
  BY DEF TypeOK
<1>3. ReceiverWaits'
  BY <1>2 DEF WaitInv, ReceiverWaits, TypeOK
<1>4. WaitingIsKnown'
  BY <1>2 DEF WaitInv, WaitingIsKnown, TypeOK
<1>5. QED
  BY <1>1, <1>3, <1>4

LEMMA SendStep ==
  ASSUME IInv, NEW b \in MsgBox, NEW x \in Payload, kz_send(b, x)
  PROVE  IInv'
<1>1. /\ mode = "user" /\ kz_syscall("OTHER")
      /\ UNCHANGED <<tcbVars, held, handler>>
  BY DEF kz_send, kz_syscall
<1>2. /\ current \in Thread /\ current \in rq.ready
      /\ Requeued \in Ready /\ Consistent(Requeued, priority)
      /\ Requeued.ready = rq.ready
  BY <1>1, CallerQueues DEF IInv
<1>3. ASSUME HasBlock(MsgPool),
             thread_send(Requeued, NewParam, [sender |-> current, p |-> x], b),
             schedule
      PROVE  IInv'
  <2>1. /\ NewParam \in [Thread -> Received]
        /\ [sender |-> current, p |-> x] \in Message
    BY <1>2 DEF NewParam, Message, Received, IInv, TypeOK
  <2>2. /\ rq' \in Ready /\ Consistent(rq', priority)
        /\ rq'.ready = rq.ready \cup ({receiver[b]} \ {NULL})
        /\ receiver' = [receiver EXCEPT ![b] = NULL]
        /\ msgs' \in [MsgBox -> Seq(Message)]
        /\ param' \in [Thread -> Received]
        /\ free' \in [Pool -> Nat]
        /\ NoMissedMessage'
    BY <1>2, <1>3, <2>1, SendEffect DEF IInv, WaitInv
  <2>3. /\ current' \in Thread \cup {NULL}
        /\ mode' \in {"user", "intr", "down"}
        /\ QueueInv'
    BY <1>1, <1>2, <1>3, <2>2, ScheduleRunsFirst DEF tcbVars, IInv, TypeOK
  <2>4. TypeOK'
    BY <1>1, <1>2, <2>2, <2>3 DEF kz_syscall, IInv, TypeOK, tcbVars, CallType
  <2>5. \A t \in Thread \ rq'.ready : call'[t] = call[t]
    BY <1>1, <1>2, <2>2 DEF kz_syscall, IInv, TypeOK
  <2>6. ReadyAreLive' /\ ReceiverWaits' /\ WaitingIsKnown'
    BY <1>1, <2>2, <2>5, DeliveryKeepsWaiting DEF IInv, tcbVars
  <2>7. QED
    BY <2>2, <2>3, <2>4, <2>6 DEF IInv, WaitInv
<1>4. ASSUME rq' = Requeued, param' = NewParam, kz_sysdown,
             UNCHANGED <<boxVars, free>>
      PROVE  IInv'
  BY <1>1, <1>4, RequeueStep DEF kz_send, IInv, TypeOK
<1>5. QED
  BY <1>3, <1>4 DEF kz_send

LEMMA RecvStep ==
  ASSUME IInv, NEW b \in MsgBox, thread_recv(b)
  PROVE  IInv'
<1>1. /\ mode = "user" /\ kz_syscall("RECV")
      /\ UNCHANGED <<tcbVars, held, handler>>
  BY DEF thread_recv, kz_syscall
<1>2. /\ current \in Thread /\ current \in rq.ready
      /\ Taken \in Ready /\ Consistent(Taken, priority)
      /\ Taken.ready = rq.ready \ {current}
      /\ Requeued \in Ready /\ Consistent(Requeued, priority)
      /\ Requeued.ready = rq.ready
  BY <1>1, CallerQueues DEF IInv
<1>3. current \in live /\ \A c \in MsgBox : receiver[c] # current
  BY <1>1, CallerIsLive
<1>4. /\ priority' = priority /\ priority \in [Thread -> Priority]
      /\ NewParam \in [Thread -> Received]
  BY <1>1 DEF tcbVars, IInv, TypeOK, NewParam, Received
<1>5. ASSUME rq' = Taken, param' = NewParam, kz_sysdown,
             UNCHANGED <<boxVars, free>>
      PROVE  IInv'
  <2>1. TypeOK' /\ QueueInv'
    BY <1>1, <1>2, <1>4, <1>5
       DEF kz_syscall, IInv, TypeOK, tcbVars, boxVars, CallType, kz_sysdown,
           QueueInv, RunsFirst, ReadyQueueConsistent
  <2>2. WaitInv'
    BY <1>1, <1>2, <1>3, <1>5
       DEF kz_syscall, kz_sysdown, IInv, TypeOK, tcbVars, boxVars, WaitInv,
           ReadyAreLive, ReceiverWaits, NoMissedMessage, WaitingIsKnown
  <2>3. QED
    BY <2>1, <2>2 DEF IInv
<1>6. ASSUME receiver[b] = NULL, msgs[b] = <<>>,
             receiver' = [receiver EXCEPT ![b] = current],
             rq' = Taken, param' = NewParam, schedule,
             UNCHANGED <<msgs, free>>
      PROVE  IInv'
  <2>1. /\ current' \in Thread \cup {NULL}
        /\ mode' \in {"user", "intr", "down"}
        /\ QueueInv'
    BY <1>2, <1>4, <1>6, ScheduleRunsFirst
  <2>2. TypeOK'
    BY <1>1, <1>2, <1>4, <1>6, <2>1 DEF kz_syscall, IInv, TypeOK, tcbVars, CallType
  <2>3. ReadyAreLive' /\ NoMissedMessage'
    BY <1>1, <1>2, <1>6
       DEF IInv, TypeOK, WaitInv, ReadyAreLive, NoMissedMessage, tcbVars
  <2>4. \A c \in MsgBox : receiver'[c] = IF c = b THEN current ELSE receiver[c]
    BY <1>6 DEF IInv, TypeOK
  <2>5. ReceiverWaits'
    BY <1>1, <1>2, <1>3, <1>6, <2>4
       DEF kz_syscall, IInv, TypeOK, WaitInv, ReceiverWaits, tcbVars
  <2>6. WaitingIsKnown'
    BY <1>1, <1>2, <1>6, <2>4, NullIsNoThread
       DEF kz_syscall, IInv, TypeOK, WaitInv, WaitingIsKnown, tcbVars
  <2>7. QED
    BY <2>1, <2>2, <2>3, <2>5, <2>6 DEF IInv, WaitInv
<1>7. ASSUME receiver[b] = NULL, msgs[b] # <<>>,
             recvmsg(b, current, msgs[b], NewParam),
             free' = [free EXCEPT ![MsgPool] = @ + 1],
             rq' = Requeued, schedule
      PROVE  IInv'
  <2>1. /\ current' \in Thread \cup {NULL}
        /\ mode' \in {"user", "intr", "down"}
        /\ QueueInv'
    BY <1>2, <1>4, <1>7, ScheduleRunsFirst
  <2>2. /\ param' \in [Thread -> Received] /\ msgs' \in [MsgBox -> Seq(Message)]
        /\ receiver' = receiver
    <3>1. Head(msgs[b]) \in Message /\ Tail(msgs[b]) \in Seq(Message)
      BY <1>7 DEF IInv, TypeOK
    <3>2. QED
      BY <1>2, <1>4, <1>7, <3>1 DEF recvmsg, IInv, TypeOK, Received
  <2>3. TypeOK'
    <3>1. free' \in [Pool -> Nat]
      BY <1>7, KozosAssumption DEF IInv, TypeOK
    <3>2. call' \in [Thread -> CallType]
      BY <1>1 DEF kz_syscall, IInv, TypeOK, CallType
    <3>3. QED
      BY <1>1, <1>2, <1>7, <2>1, <2>2, <3>1, <3>2 DEF IInv, TypeOK, tcbVars
  <2>4. NoMissedMessage'
    BY <1>7, <2>2 DEF recvmsg, IInv, TypeOK, WaitInv, NoMissedMessage
  <2>5. ReadyAreLive' /\ ReceiverWaits' /\ WaitingIsKnown'
    BY <1>1, <1>2, <1>7, <2>2
       DEF kz_syscall, IInv, TypeOK, WaitInv, ReadyAreLive, ReceiverWaits,
           WaitingIsKnown, tcbVars
  <2>6. QED
    BY <2>1, <2>3, <2>4, <2>5 DEF IInv, WaitInv
<1>8. QED
  BY <1>5, <1>6, <1>7 DEF thread_recv

-------------------------------------------------------------------------------
(***************************************************************************)
(* Interrupts.  QueueInv asks nothing of current while the handler runs.   *)
(***************************************************************************)
LEMMA HandlerRuns ==
  ASSUME IInv, mode # "down", mode' # "user", UNCHANGED <<call, live, boxVars>>,
         rq' \in Ready, Consistent(rq', priority'),
         rq.ready \subseteq rq'.ready, rq'.ready \subseteq live,
         \A b \in MsgBox : receiver[b] # NULL => receiver[b] \notin rq'.ready
  PROVE  QueueInv' /\ WaitInv'
<1>1. QueueInv'
  BY DEF QueueInv, ReadyQueueConsistent, RunsFirst
<1>2. WaitInv'
  BY NobodyWaits DEF IInv, boxVars
<1>3. QED
  BY <1>1, <1>2

(* The queues as they are, between two steps. *)
LEMMA QueuesNow ==
  ASSUME IInv
  PROVE  /\ rq \in Ready /\ Consistent(rq, priority)
         /\ priority \in [Thread -> Priority] /\ rq.ready \subseteq live
         /\ \A b \in MsgBox : receiver[b] # NULL => receiver[b] \notin rq.ready
BY DEF IInv, QueueInv, ReadyQueueConsistent, WaitInv, ReadyAreLive, ReceiverWaits,
       TypeOK

LEMMA IntrEnterStep ==
  ASSUME IInv, thread_intr
  PROVE  IInv'
<1>1. TypeOK'
  BY DEF thread_intr, IInv, TypeOK, tcbVars, userVars, boxVars, memVars
<1>2. QueueInv' /\ WaitInv'
  BY QueuesNow, HandlerRuns DEF thread_intr, tcbVars, userVars
<1>3. QED
  BY <1>1, <1>2 DEF IInv

LEMMA IntrEndStep ==
  ASSUME IInv, intr_end
  PROVE  IInv'
<1>1. /\ current' \in Thread \cup {NULL}
      /\ mode' \in {"user", "intr", "down"}
      /\ QueueInv'
  <2>1. /\ rq' \in Ready /\ priority' \in [Thread -> Priority]
        /\ Consistent(rq', priority') /\ schedule
        /\ current \in Thread \cup {NULL}
    BY QueuesNow DEF intr_end, tcbVars, IInv, TypeOK
  <2>2. QED
    BY <2>1, ScheduleRunsFirst
<1>2. TypeOK'
  BY <1>1, QueuesNow
     DEF intr_end, IInv, TypeOK, tcbVars, userVars, boxVars, memVars
<1>3. WaitInv'
  BY QueuesNow, NobodyWaits DEF intr_end, IInv, tcbVars, userVars, boxVars
<1>4. QED
  BY <1>1, <1>2, <1>3 DEF IInv

LEMMA KxWakeupStep ==
  ASSUME ~WakeReceivers, IInv, NEW t \in Thread, kx_wakeup(t)
  PROVE  IInv'
<1>1. t \in live /\ t # NULL /\ \A b \in MsgBox : receiver[b] # t
  BY NullIsNoThread DEF kx_wakeup, Wakeable
<1>2. /\ rq' \in Ready /\ Consistent(rq', priority)
      /\ rq'.ready = rq.ready \cup {t}
  BY <1>1, QueuesNow, PutcurrentConsistent DEF kx_wakeup
<1>3. TypeOK'
  BY <1>2 DEF kx_wakeup, IInv, TypeOK, tcbVars, userVars, boxVars, memVars
<1>4. QueueInv' /\ WaitInv'
  <2>1. rq'.ready \subseteq live
    BY <1>1, <1>2, QueuesNow
  <2>2. \A b \in MsgBox : receiver[b] # NULL => receiver[b] \notin rq'.ready
    BY <1>1, <1>2, QueuesNow
  <2>3. Consistent(rq', priority') /\ mode # "down" /\ mode' # "user"
    BY <1>2 DEF kx_wakeup, tcbVars
  <2>4. QED
    BY <1>2, <2>1, <2>2, <2>3, HandlerRuns DEF kx_wakeup, tcbVars, userVars
<1>5. QED
  BY <1>3, <1>4 DEF IInv

LEMMA KxMemoryStep ==
  ASSUME IInv, NEW k \in Pool \cup {NULL},
         kx_kmalloc(k) \/ (k \in Pool /\ kx_kmfree(k))
  PROVE  IInv'
<1>1. /\ mode = "intr" /\ mode' \in {"intr", "down"} /\ current' = NULL
      /\ UNCHANGED <<rq, tcbVars, userVars, boxVars, handler>>
  BY DEF kx_kmalloc, kx_kmfree
<1>2. free' \in [Pool -> Nat] /\ held' \in [Pool -> Nat]
  BY PoolsKeepTypes DEF kx_kmalloc, kx_kmfree, IInv
<1>3. TypeOK'
  BY <1>1, <1>2 DEF IInv, TypeOK, tcbVars, userVars, boxVars
<1>4. QueueInv' /\ WaitInv'
  BY <1>1, QueuesNow, HandlerRuns DEF tcbVars, userVars
<1>5. QED
  BY <1>3, <1>4 DEF IInv

LEMMA KxSendStep ==
  ASSUME IInv, NEW b \in MsgBox, NEW x \in Payload, kx_send(b, x)
  PROVE  IInv'
<1>1. mode = "intr" /\ UNCHANGED <<call, tcbVars, held, handler>>
  BY DEF kx_send
<1>2. ASSUME HasBlock(MsgPool),
             thread_send(rq, param, [sender |-> NULL, p |-> x], b),
             current' = receiver[b], mode' = mode
      PROVE  IInv'
  <2>1. /\ param \in [Thread -> Received]
        /\ [sender |-> NULL, p |-> x] \in Message
    BY DEF Message, IInv, TypeOK
  <2>2. /\ rq' \in Ready /\ Consistent(rq', priority)
        /\ rq'.ready = rq.ready \cup ({receiver[b]} \ {NULL})
        /\ receiver' = [receiver EXCEPT ![b] = NULL]
        /\ msgs' \in [MsgBox -> Seq(Message)]
        /\ param' \in [Thread -> Received]
        /\ free' \in [Pool -> Nat]
        /\ NoMissedMessage'
    BY <1>2, <2>1, QueuesNow, SendEffect DEF IInv, WaitInv
  <2>3. TypeOK'
    BY <1>1, <1>2, <2>2 DEF IInv, TypeOK, tcbVars
  <2>4. QueueInv'
    BY <1>1, <1>2, <2>2 DEF QueueInv, ReadyQueueConsistent, RunsFirst, tcbVars
  <2>5. ReadyAreLive' /\ ReceiverWaits' /\ WaitingIsKnown'
    BY <1>1, <2>2, DeliveryKeepsWaiting DEF IInv, tcbVars
  <2>6. QED
    BY <2>2, <2>3, <2>4, <2>5 DEF IInv, WaitInv
<1>3. ASSUME current' = NULL, mode' = "down", UNCHANGED <<rq, param, boxVars, free>>
      PROVE  IInv'
  <2>1. TypeOK'
    BY <1>1, <1>3 DEF IInv, TypeOK, tcbVars, boxVars
  <2>2. QueueInv' /\ WaitInv'
    BY <1>1, <1>3, QueuesNow, HandlerRuns DEF tcbVars
  <2>3. QED
    BY <2>1, <2>2 DEF IInv
<1>4. QED
  BY <1>2, <1>3 DEF kx_send

(* Enabling or disabling interrupts touches the CCR of the caller only.    *)
LEMMA MaskStep ==
  ASSUME IInv, INTR_ENABLE \/ INTR_DISABLE
  PROVE  IInv'
<1>1. /\ mode = "user"
      /\ UNCHANGED <<current, rq, live, priority, stacks, userVars, boxVars,
                     memVars, handler, mode>>
      /\ masked' \in SUBSET Thread
  BY DEF INTR_ENABLE, INTR_DISABLE, IInv, TypeOK
<1>2. TypeOK'
  BY <1>1 DEF IInv, TypeOK, userVars, boxVars, memVars
<1>3. QueueInv'
  BY <1>1 DEF IInv, QueueInv, ReadyQueueConsistent, RunsFirst
<1>4. WaitInv'
  BY <1>1, QueuesNow, NobodyWaits DEF IInv, userVars, boxVars
<1>5. QED
  BY <1>2, <1>3, <1>4 DEF IInv

-------------------------------------------------------------------------------
LEMMA NextIInv ==
  ASSUME ~WakeReceivers, IInv, [Next]_vars
  PROVE  IInv'
<1>1. ASSUME NEW p \in Priority, thread_run(p) PROVE IInv'
  BY <1>1, RunStep
<1>2. CASE thread_exit \/ softerr_intr
  BY <1>2, ExitStep DEF thread_exit, softerr_intr
<1>3. CASE thread_wait \/ thread_getid \/ thread_setintr
  BY <1>3, RequeueStep
     DEF thread_wait, thread_getid, thread_setintr, memVars, IInv, TypeOK
<1>4. CASE thread_sleep
  BY <1>4, SleepStep
<1>5. ASSUME NEW t \in Thread, thread_wakeup(t) PROVE IInv'
  BY <1>5, WakeupStep
<1>6. ASSUME NEW p \in Priority \cup {-1}, thread_chpri(p) PROVE IInv'
  BY <1>6, ChpriStep
<1>7. ASSUME NEW k \in Pool \cup {NULL}, thread_kzmalloc(k) PROVE IInv'
  BY <1>7, MallocStep
<1>8. ASSUME NEW k \in Pool, thread_kmfree(k) PROVE IInv'
  BY <1>8, KmfreeStep
<1>9. ASSUME NEW b \in MsgBox, NEW x \in Payload, kz_send(b, x) PROVE IInv'
  BY <1>9, SendStep
<1>10. ASSUME NEW b \in MsgBox, thread_recv(b) PROVE IInv'
  BY <1>10, RecvStep
<1>11. CASE INTR_ENABLE \/ INTR_DISABLE
  BY <1>11, MaskStep
<1>12. CASE thread_intr
  BY <1>12, IntrEnterStep
<1>13. ASSUME NEW t \in Thread, kx_wakeup(t) PROVE IInv'
  BY <1>13, KxWakeupStep
<1>14. ASSUME NEW k \in Pool \cup {NULL}, kx_kmalloc(k) PROVE IInv'
  BY <1>14, KxMemoryStep
<1>15. ASSUME NEW k \in Pool, kx_kmfree(k) PROVE IInv'
  BY <1>15, KxMemoryStep
<1>16. ASSUME NEW b \in MsgBox, NEW x \in Payload, kx_send(b, x) PROVE IInv'
  BY <1>16, KxSendStep
<1>17. CASE intr_end
  BY <1>17, IntrEndStep
<1>18. CASE UNCHANGED vars
  BY <1>18
     DEF vars, tcbVars, userVars, boxVars, memVars, IInv, TypeOK, QueueInv,
         ReadyQueueConsistent, RunsFirst, WaitInv, ReadyAreLive, ReceiverWaits,
         NoMissedMessage, WaitingIsKnown
<1>19. CASE ThreadStep
  BY <1>19, <1>1, <1>2, <1>3, <1>4, <1>5, <1>6, <1>7, <1>8, <1>9, <1>10, <1>11
     DEF ThreadStep
<1>20. CASE HandlerStep
  BY <1>20, <1>12, <1>13, <1>14, <1>15, <1>16, <1>17 DEF HandlerStep
<1>21. QED
  BY <1>18, <1>19, <1>20 DEF Next

-------------------------------------------------------------------------------
(***************************************************************************)
(* The blocks of the pools: what a step takes from one account it adds to  *)
(* another one.                                                            *)
(***************************************************************************)
Waiting(q) == Total(q, MsgBox)

(* f free blocks, h held ones, and the messages of q make up every pool.   *)
Balanced(f, h, q) ==
  \A k \in Pool :
    f[k] + h[k] + (IF k = MsgPool THEN Waiting(q) ELSE 0) = BlockNum[k]

LEMMA ConservedIsBalanced == BlocksConserved <=> Balanced(free, held, msgs)
BY DEF BlocksConserved, Balanced, Waiting, Total

LEMMA NextIsBalanced == BlocksConserved' <=> Balanced(free', held', msgs')
<1>1. BlocksConserved' <=> Balanced(free, held, msgs)'
  BY ConservedIsBalanced, PTL
<1>2. QED
  BY <1>1 DEF Balanced, Waiting

(* One box of q is longer by d in r, and f has d more free blocks for      *)
(* messages than g.                                                        *)
Passes(f, g, q, r, b, d) ==
  /\ f \in [Pool -> Nat]
  /\ g = [f EXCEPT ![MsgPool] = @ - d]
  /\ q \in [MsgBox -> Seq(Message)]
  /\ r \in [MsgBox -> Seq(Message)]
  /\ Len(r[b]) = Len(q[b]) + d
  /\ \A x \in MsgBox \ {b} : r[x] = q[x]

LEMMA WaitingChanges ==
  ASSUME NEW f, NEW g, NEW q, NEW r, NEW b \in MsgBox, NEW d \in Int,
         Passes(f, g, q, r, b, d)
  PROVE  Waiting(q) \in Nat /\ Waiting(r) = Waiting(q) + d
<1>1. Lens(q, MsgBox) \in [MsgBox -> Nat] /\ Lens(r, MsgBox) \in [MsgBox -> Nat]
  BY LenProperties DEF Lens, Passes
<1>2. Differ(Lens(r, MsgBox), Lens(q, MsgBox), MsgBox, b, d)
  BY <1>1 DEF Lens, Passes, Differ
<1>3. Total(r, MsgBox) = Total(q, MsgBox) + d
  BY <1>2, TotalChanges, KozosAssumption
<1>4. Total(q, MsgBox) \in Nat
  BY <1>1, TotalType, KozosAssumption
<1>5. QED
  BY <1>3, <1>4 DEF Waiting

(* A block that goes from the free ones to the messages, or back.          *)
LEMMA MessageTakesBlock ==
  ASSUME NEW f, NEW g, NEW q, NEW r, NEW b \in MsgBox, NEW d \in Int,
         Passes(f, g, q, r, b, d),
         NEW h \in [Pool -> Nat], Balanced(f, h, q)
  PROVE  Balanced(g, h, r)
<1>1. Waiting(q) \in Nat /\ Waiting(r) = Waiting(q) + d
  BY WaitingChanges
<1> DEFINE n == Waiting(q)
           m == Waiting(r)
<1>2. n \in Nat /\ m = n + d
  BY <1>1
<1>3. \A k \in Pool : f[k] + h[k] + (IF k = MsgPool THEN n ELSE 0) = BlockNum[k]
  BY DEF Balanced
<1> HIDE DEF n, m
<1>4. ASSUME NEW k \in Pool
      PROVE  g[k] + h[k] + (IF k = MsgPool THEN m ELSE 0) = BlockNum[k]
  <2>1. f[k] \in Nat /\ h[k] \in Nat /\ f[MsgPool] \in Nat
    BY KozosAssumption DEF Passes
  <2>2. CASE k = MsgPool
    BY <1>2, <1>3, <2>1, <2>2 DEF Passes
  <2>3. CASE k # MsgPool
    BY <1>3, <2>1, <2>3 DEF Passes
  <2>4. QED
    BY <2>2, <2>3
<1>5. QED
  BY <1>4 DEF Balanced, m

(* thread_send() keeps the message, with the block, or hands it on.        *)
LEMMA SendBalances ==
  ASSUME TypeOK, Balanced(free, held, msgs), NEW Q, NEW P, NEW m \in Message,
         NEW b \in MsgBox, thread_send(Q, P, m, b)
  PROVE  Balanced(free', held, msgs')
<1> DEFINE queued == Append(msgs[b], m)
<1>1. /\ msgs \in [MsgBox -> Seq(Message)] /\ free \in [Pool -> Nat]
      /\ held \in [Pool -> Nat] /\ msgs[b] \in Seq(Message)
  BY DEF TypeOK
<1>2. /\ queued \in Seq(Message) /\ Len(queued) = Len(msgs[b]) + 1
      /\ Tail(queued) \in Seq(Message) /\ Len(Tail(queued)) = Len(msgs[b])
  BY <1>1, AppendProperties, HeadTailProperties, LenProperties
<1>3. \/ msgs' = [msgs EXCEPT ![b] = queued] /\ free' = [free EXCEPT ![MsgPool] = @ - 1]
      \/ msgs' = [msgs EXCEPT ![b] = Tail(queued)] /\ free' = free
  BY DEF thread_send, recvmsg
<1> HIDE DEF queued
<1>4. CASE /\ msgs' = [msgs EXCEPT ![b] = queued]
           /\ free' = [free EXCEPT ![MsgPool] = @ - 1]
  <2>1. Passes(free, free', msgs, msgs', b, 1)
    BY <1>1, <1>2, <1>4 DEF Passes
  <2>2. QED
    BY <1>1, <2>1, MessageTakesBlock
<1>5. CASE msgs' = [msgs EXCEPT ![b] = Tail(queued)] /\ free' = free
  <2>1. \A x \in Nat : x - 0 = x /\ x + 0 = x
    OBVIOUS
  <2>2. free' = [free EXCEPT ![MsgPool] = @ - 0]
    BY <1>1, <1>5, <2>1, KozosAssumption
  <2>3. Len(Tail(queued)) = Len(msgs[b]) + 0
    BY <1>1, <1>2, <2>1, LenProperties
  <2>4. Passes(free, free', msgs, msgs', b, 0)
    BY <1>1, <1>2, <1>5, <2>2, <2>3 DEF Passes
  <2>5. QED
    BY <1>1, <2>4, MessageTakesBlock
<1>6. QED
  BY <1>3, <1>4, <1>5

(* thread_recv() gives the block of the message it takes back.             *)
LEMMA RecvBalances ==
  ASSUME TypeOK, Balanced(free, held, msgs), NEW b \in MsgBox, thread_recv(b)
  PROVE  Balanced(free', held', msgs')
<1>1. /\ msgs \in [MsgBox -> Seq(Message)] /\ free \in [Pool -> Nat]
      /\ held \in [Pool -> Nat] /\ msgs[b] \in Seq(Message)
  BY DEF TypeOK
<1>2. held' = held
  BY DEF thread_recv
<1>3. CASE UNCHANGED <<msgs, free>>
  BY <1>2, <1>3
<1>4. CASE /\ msgs[b] # <<>> /\ msgs' = [msgs EXCEPT ![b] = Tail(msgs[b])]
           /\ free' = [free EXCEPT ![MsgPool] = @ + 1]
  <2> DEFINE d == -1
  <2>1. d \in Int /\ \A x \in Nat : x - d = x + 1 /\ x + d = x - 1
    OBVIOUS
  <2> HIDE DEF d
  <2>2. Tail(msgs[b]) \in Seq(Message) /\ Len(Tail(msgs[b])) = Len(msgs[b]) + d
    BY <1>1, <1>4, <2>1, HeadTailProperties, LenProperties
  <2>3. free' = [free EXCEPT ![MsgPool] = @ - d]
    BY <1>1, <1>4, <2>1, KozosAssumption
  <2>4. Passes(free, free', msgs, msgs', b, d)
    BY <1>1, <1>4, <2>2, <2>3 DEF Passes
  <2>5. Balanced(free', held, msgs')
    BY <1>1, <2>1, <2>4, MessageTakesBlock
  <2>6. QED
    BY <1>2, <2>5
<1>5. QED
  BY <1>3, <1>4 DEF thread_recv, recvmsg, boxVars

(* kz_kmalloc() and kz_kmfree() move a block between free and held.        *)
LEMMA PoolsBalance ==
  ASSUME TypeOK, Balanced(free, held, msgs), NEW k \in Pool,
         (HasBlock(k) /\ AllocateHeld(k)) \/ FreeHeld(k)
  PROVE  Balanced(free', held', msgs)
<1>1. free \in [Pool -> Nat] /\ held \in [Pool -> Nat]
  BY DEF TypeOK
<1> DEFINE n == Waiting(msgs)
<1>2. n \in Nat
  <2>1. Lens(msgs, MsgBox) \in [MsgBox -> Nat]
    BY LenProperties DEF Lens, TypeOK
  <2>2. QED
    BY <2>1, TotalType, KozosAssumption DEF Waiting
<1>3. \A j \in Pool : free[j] + held[j] + (IF j = MsgPool THEN n ELSE 0) = BlockNum[j]
  BY DEF Balanced
<1> HIDE DEF n
<1>4. ASSUME NEW j \in Pool
      PROVE  free'[j] + held'[j] = free[j] + held[j]
  <2>1. free[j] \in Nat /\ held[j] \in Nat /\ free[k] \in Nat /\ held[k] \in Nat
    BY <1>1
  <2>2. QED
    BY <1>1, <2>1 DEF AllocateHeld, FreeHeld
<1>5. ASSUME NEW j \in Pool
      PROVE  free'[j] + held'[j] + (IF j = MsgPool THEN n ELSE 0) = BlockNum[j]
  BY <1>3, <1>4
<1>6. QED
  BY <1>5 DEF Balanced, n

LEMMA InitBalanced == Init => BlocksConserved
<1> SUFFICES ASSUME Init PROVE Balanced(free, held, msgs)
  BY ConservedIsBalanced
<1>1. \A b \in MsgBox : Len(msgs[b]) = 0
  BY DEF Init
<1>2. Total(msgs, MsgBox) = 0
  BY <1>1, TotalOfNone, KozosAssumption
<1>3. free = BlockNum /\ held = [k \in Pool |-> 0]
  BY DEF Init
<1>4. \A k \in Pool : free[k] + held[k] + 0 = BlockNum[k]
  BY <1>3, KozosAssumption
<1>5. QED
  BY <1>2, <1>4 DEF Balanced, Waiting

LEMMA NextBalanced ==
  ASSUME IInv, BlocksConserved, [Next]_vars
  PROVE  BlocksConserved'
<1>1. TypeOK /\ Balanced(free, held, msgs)
  BY ConservedIsBalanced DEF IInv
<1> SUFFICES Balanced(free', held', msgs')
  BY NextIsBalanced
<1>2. CASE UNCHANGED <<free, held, msgs>>
  BY <1>1, <1>2
<1>3. ASSUME NEW k \in Pool, (HasBlock(k) /\ AllocateHeld(k)) \/ FreeHeld(k),
             msgs' = msgs
      PROVE  Balanced(free', held', msgs')
  BY <1>1, <1>3, PoolsBalance
<1>4. ASSUME NEW b \in MsgBox, NEW x \in Payload, kz_send(b, x) \/ kx_send(b, x)
      PROVE  Balanced(free', held', msgs')
  <2>1. held' = held
    BY <1>4 DEF kz_send, kx_send
  <2>2. CASE UNCHANGED <<free, msgs>>
    BY <1>1, <2>1, <2>2
  <2>3. ASSUME NEW Q, NEW P, NEW m \in Message, thread_send(Q, P, m, b)
        PROVE  Balanced(free', held', msgs')
    <3>1. Balanced(free', held, msgs')
      BY <1>1, <2>3, SendBalances
    <3>2. QED
      BY <2>1, <3>1
  <2>4. /\ [sender |-> current, p |-> x] \in Message
        /\ [sender |-> NULL, p |-> x] \in Message
    BY <1>1 DEF TypeOK, Message
  <2>5. \/ UNCHANGED <<free, msgs>>
        \/ thread_send(Requeued, NewParam, [sender |-> current, p |-> x], b)
        \/ thread_send(rq, param, [sender |-> NULL, p |-> x], b)
    BY <1>4 DEF kz_send, kx_send, boxVars
  <2>6. QED
    BY <2>2, <2>3, <2>4, <2>5
<1>5. ASSUME NEW b \in MsgBox, thread_recv(b) PROVE Balanced(free', held', msgs')
  BY <1>1, <1>5, RecvBalances
<1>6. ASSUME NEW k \in Pool \cup {NULL}, thread_kzmalloc(k) \/ kx_kmalloc(k)
      PROVE  Balanced(free', held', msgs')
  <2>1. CASE HasBlock(k) /\ AllocateHeld(k)
    BY <1>3, <1>6, <2>1 DEF thread_kzmalloc, kx_kmalloc, boxVars, HasBlock
  <2>2. CASE UNCHANGED memVars
    BY <1>2, <1>6, <2>2 DEF thread_kzmalloc, kx_kmalloc, boxVars, memVars
  <2>3. QED
    BY <1>6, <2>1, <2>2 DEF thread_kzmalloc, kx_kmalloc
<1>7. ASSUME NEW k \in Pool, thread_kmfree(k) \/ kx_kmfree(k)
      PROVE  Balanced(free', held', msgs')
  BY <1>3, <1>7 DEF thread_kmfree, kx_kmfree, boxVars
<1>8. CASE UNCHANGED vars
  BY <1>2, <1>8 DEF vars, memVars, boxVars
<1>9. CASE ThreadStep
  BY <1>2, <1>4, <1>5, <1>6, <1>7, <1>9
     DEF ThreadStep, thread_run, thread_exit, softerr_intr, ClearCurrent,
         thread_wait, thread_getid, thread_sleep, thread_wakeup, thread_chpri,
         thread_setintr, INTR_ENABLE, INTR_DISABLE, boxVars, memVars
<1>10. CASE HandlerStep
  BY <1>2, <1>4, <1>6, <1>7, <1>10
     DEF HandlerStep, thread_intr, intr_end, kx_wakeup, boxVars, memVars
<1>11. QED
  BY <1>8, <1>9, <1>10 DEF Next

THEOREM Inductive ==
  ASSUME ~WakeReceivers
  PROVE  Spec => []IInv
<1>1. Init => IInv
  BY InitIInv
<1>2. IInv /\ [Next]_vars => IInv'
  BY NextIInv
<1>3. QED
  BY <1>1, <1>2, PTL DEF Spec

(***************************************************************************)
(* In every reachable state, if no receiver is woken up by kz_wakeup():    *)
(* the variables have the types of kozos.c.                                *)
(***************************************************************************)
THEOREM Typing ==
  ASSUME ~WakeReceivers
  PROVE  Spec => []TypeOK
BY Inductive, PTL DEF IInv

(* No call and no handler ever loses, duplicates or misplaces a READY TCB  *)
(* in the lists that getcurrent() and putcurrent() keep.                   *)
THEOREM QueuesStayConsistent ==
  ASSUME ~WakeReceivers
  PROVE  Spec => []ReadyQueueConsistent
BY Inductive, PTL DEF IInv, QueueInv

(* Whenever a thread runs it is the first of the highest priority that has *)
(* a ready thread: priorities are strict, with no inversion by a handler.  *)
THEOREM StrictPriorities ==
  ASSUME ~WakeReceivers
  PROVE  Spec => []RunsFirst
BY Inductive, PTL DEF IInv, QueueInv

(* dispatch() never gets a TCB that thread_exit() has cleared.             *)
THEOREM OnlyLiveAreReady ==
  ASSUME ~WakeReceivers
  PROVE  Spec => []ReadyAreLive
BY Inductive, PTL DEF IInv, WaitInv

(* A registered receiver sleeps inside the kz_recv() of that one box.      *)
THEOREM ReceiversWait ==
  ASSUME ~WakeReceivers
  PROVE  Spec => []ReceiverWaits
BY Inductive, PTL DEF IInv, WaitInv

(* Nobody waits at a box that holds a message. *)
THEOREM NoLostWakeup ==
  ASSUME ~WakeReceivers
  PROVE  Spec => []NoMissedMessage
BY Inductive, PTL DEF IInv, WaitInv

(* No thread drops out of scheduling but by kz_sleep(), by kz_recv() or by *)
(* the kz_run() that finds no TCB.                                         *)
THEOREM NobodyForgotten ==
  ASSUME ~WakeReceivers
  PROVE  Spec => []WaitingIsKnown
BY Inductive, PTL DEF IInv, WaitInv

(* No system call and no service call loses a block or frees one twice:    *)
(* free blocks, held blocks and queued messages always make up the pools.  *)
THEOREM BlocksStay ==
  ASSUME ~WakeReceivers
  PROVE  Spec => []BlocksConserved
<1>1. Init => IInv /\ BlocksConserved
  BY InitIInv, InitBalanced
<1>2. (IInv /\ BlocksConserved) /\ [Next]_vars => (IInv /\ BlocksConserved)'
  BY NextIInv, NextBalanced
<1>3. QED
  BY <1>1, <1>2, PTL DEF Spec
===============================================================================
