---------------------------- MODULE KozosStepProofs ----------------------------
(***************************************************************************)
(* What the steps of the kernel may do, for any number of threads,         *)
(* priorities, boxes, messages and blocks.                                 *)
(*                                                                         *)
(* The boxes: every step is a send, a receive or a wait of module Mailbox, *)
(* or changes nothing but what a thread that does not wait has got before. *)
(*                                                                         *)
(* The queues: no step lets a ready thread fall behind, but its own calls. *)
(***************************************************************************)
EXTENDS KozosProofs

(* With parameter blocks P nobody who waits has lost his. *)
Forgetful(P) ==
  \A t \in Thread : P[t] = param[t] \/ (P[t] = NULL /\ ~MB!IsWaiting(t))

LEMMA InitIsInit == Init => MB!Init
BY DEF Init, MB!Init

(* The block of the caller is a new one; the caller does not wait. *)
LEMMA CallerForgets ==
  ASSUME IInv, mode = "user"
  PROVE  NewParam \in [Thread -> Received] /\ Forgetful(NewParam)
<1>1. \A b \in MsgBox : receiver[b] # current
  BY CallerIsLive
<1>2. ~MB!IsWaiting(current)
  BY <1>1 DEF MB!IsWaiting
<1>3. param \in [Thread -> Received]
  BY DEF IInv, TypeOK
<1>4. QED
  BY <1>2, <1>3 DEF NewParam, Forgetful, Received

(* What leaves the boxes alone is a stutter, or somebody forgets.          *)
LEMMA BoxesAlone ==
  ASSUME UNCHANGED boxVars, Forgetful(param')
  PROVE  MB!Next
BY DEF boxVars, Forgetful, MB!Next, MB!Forget, MB!OnlyGets

LEMMA RunForgets ==
  ASSUME IInv, NEW p \in Priority, thread_run(p)
  PROVE  MB!Next
<1>1. mode = "user" /\ UNCHANGED boxVars
  BY DEF thread_run, kz_syscall
<1>2. NewParam \in [Thread -> Received] /\ Forgetful(NewParam)
  BY <1>1, CallerForgets
<1>3. CASE param' = NewParam
  BY <1>1, <1>2, <1>3, BoxesAlone
<1>4. ASSUME NEW t \in Thread \ live, param' = [NewParam EXCEPT ![t] = NULL]
      PROVE  MB!Next
  <2>1. ~MB!IsWaiting(t)
    BY NullIsNoThread DEF MB!IsWaiting, IInv, WaitInv, ReceiverWaits
  <2>2. Forgetful(param')
    BY <1>2, <1>4, <2>1 DEF Forgetful
  <2>3. QED
    BY <1>1, <2>2, BoxesAlone
<1>5. QED
  BY <1>3, <1>4 DEF thread_run

(* A message is kept, or handed over to the thread that waits: then the    *)
(* box was empty, so it is the oldest.                                     *)
LEMMA SendIsSend ==
  ASSUME TypeOK, NoMissedMessage, NEW Q, NEW P \in [Thread -> Received], Forgetful(P),
         NEW m \in Message, NEW b \in MsgBox, thread_send(Q, P, m, b)
  PROVE  MB!Next
<1>1. /\ msgs \in [MsgBox -> Seq(Message)]
      /\ receiver \in [MsgBox -> Thread \cup {NULL}]
  BY DEF TypeOK
<1>2. CASE receiver[b] = NULL
  <2>1. /\ msgs' = [msgs EXCEPT ![b] = Append(@, m)]
        /\ param' = P /\ receiver' = receiver
    BY <1>2 DEF thread_send
  <2>2. MB!Keep(b, m)
    BY <1>2, <2>1, Zenon DEF MB!Keep, MB!OnlyGets, Forgetful
  <2>3. QED
    BY <2>2 DEF MB!Next, MB!Send
<1>3. CASE receiver[b] # NULL
  <2>1. msgs[b] = <<>> /\ receiver[b] \in Thread
    BY <1>1, <1>3 DEF NoMissedMessage
  <2>2. Head(Append(msgs[b], m)) = m /\ Tail(Append(msgs[b], m)) = <<>>
    BY <2>1
  <2>3. /\ param' = [P EXCEPT ![receiver[b]] = m]
        /\ msgs' = [msgs EXCEPT ![b] = <<>>]
        /\ receiver' = [receiver EXCEPT ![b] = NULL]
    BY <1>3, <2>2, Zenon DEF thread_send, recvmsg
  <2>4. msgs' = msgs
    BY <1>1, <2>1, <2>3
  <2>5. param'[receiver[b]] = m
    BY <2>1, <2>3
  <2>6. \A t \in Thread \ {receiver[b]} : param'[t] = P[t]
    BY <2>3
  <2>7. MB!HandOver(b, m)
    BY <1>3, <2>1, <2>3, <2>4, <2>5, <2>6, Zenon
       DEF MB!HandOver, MB!OnlyGets, Forgetful
  <2>8. QED
    BY <2>7 DEF MB!Next, MB!Send
<1>4. QED
  BY <1>2, <1>3

LEMMA KzSendIsSend ==
  ASSUME IInv, NEW b \in MsgBox, NEW x \in Payload, kz_send(b, x)
  PROVE  MB!Next
<1>1. mode = "user"
  BY DEF kz_send, kz_syscall
<1>2. NewParam \in [Thread -> Received] /\ Forgetful(NewParam)
  BY <1>1, CallerForgets
<1>3. [sender |-> current, p |-> x] \in Message
  BY DEF Message, IInv, TypeOK
<1>4. CASE thread_send(Requeued, NewParam, [sender |-> current, p |-> x], b)
  BY <1>2, <1>3, <1>4, SendIsSend DEF IInv, WaitInv
<1>5. CASE param' = NewParam /\ UNCHANGED boxVars
  BY <1>2, <1>5, BoxesAlone
<1>6. QED
  BY <1>4, <1>5 DEF kz_send

LEMMA KxSendIsSend ==
  ASSUME IInv, NEW b \in MsgBox, NEW x \in Payload, kx_send(b, x)
  PROVE  MB!Next
<1>1. param \in [Thread -> Received] /\ Forgetful(param)
  BY DEF IInv, TypeOK, Forgetful
<1>2. [sender |-> NULL, p |-> x] \in Message
  BY DEF Message
<1>3. CASE thread_send(rq, param, [sender |-> NULL, p |-> x], b)
  BY <1>1, <1>2, <1>3, SendIsSend DEF IInv, WaitInv
<1>4. CASE param' = param /\ UNCHANGED boxVars
  BY <1>1, <1>4, BoxesAlone
<1>5. QED
  BY <1>3, <1>4 DEF kx_send

(* A receiver gets the oldest message, or waits, or the system is down.    *)
LEMMA RecvIsReceive ==
  ASSUME IInv, NEW b \in MsgBox, thread_recv(b)
  PROVE  MB!Next
<1>1. mode = "user"
  BY DEF thread_recv, kz_syscall
<1>2. NewParam \in [Thread -> Received] /\ Forgetful(NewParam)
  BY <1>1, CallerForgets
<1>3. current \in Thread
  BY <1>1, CallerQueues DEF IInv
<1>4. ~MB!IsWaiting(current)
  BY <1>1, CallerIsLive DEF MB!IsWaiting
<1>5. CASE param' = NewParam /\ UNCHANGED boxVars
  BY <1>2, <1>5, BoxesAlone
<1>6. CASE /\ receiver[b] = NULL /\ msgs[b] = <<>>
           /\ receiver' = [receiver EXCEPT ![b] = current]
           /\ param' = NewParam /\ msgs' = msgs
  <2>1. param'[current] = NULL
    BY <1>3, <1>6 DEF NewParam, IInv, TypeOK
  <2>2. MB!Wait(b, current)
    BY <1>2, <1>4, <1>6, <2>1, Zenon DEF MB!Wait, MB!OnlyGets, Forgetful
  <2>3. QED
    BY <1>3, <2>2 DEF MB!Next
<1>7. CASE /\ receiver[b] = NULL /\ msgs[b] # <<>>
           /\ recvmsg(b, current, msgs[b], NewParam)
  <2>1. /\ param' = [NewParam EXCEPT ![current] = Head(msgs[b])]
        /\ msgs' = [msgs EXCEPT ![b] = Tail(@)]
        /\ receiver' = receiver
    BY <1>7 DEF recvmsg, IInv, TypeOK
  <2>2. /\ param'[current] = Head(msgs[b])
        /\ \A t \in Thread \ {current} : param'[t] = NewParam[t]
    BY <1>2, <1>3, <2>1
  <2>3. MB!Receive(b, current)
    BY <1>2, <1>4, <1>7, <2>1, <2>2, Zenon DEF MB!Receive, MB!OnlyGets, Forgetful
  <2>4. QED
    BY <1>3, <2>3 DEF MB!Next
<1>8. QED
  BY <1>5, <1>6, <1>7 DEF thread_recv, boxVars

-------------------------------------------------------------------------------
LEMMA StepIsStep ==
  ASSUME IInv, [Next]_vars
  PROVE  [MB!Next]_(MB!vars)
<1>1. ASSUME NEW p \in Priority, thread_run(p) PROVE MB!Next
  BY <1>1, RunForgets
<1>2. CASE \/ thread_exit \/ softerr_intr \/ thread_wait \/ thread_getid
           \/ thread_sleep \/ thread_setintr
           \/ \E t \in Thread : thread_wakeup(t)
           \/ \E p \in Priority \cup {-1} : thread_chpri(p)
           \/ \E k \in Pool \cup {NULL} : thread_kzmalloc(k)
           \/ \E k \in Pool : thread_kmfree(k)
  <2>1. mode = "user" /\ param' = NewParam /\ UNCHANGED boxVars
    BY <1>2
       DEF thread_exit, softerr_intr, ClearCurrent, thread_wait, thread_getid,
           thread_sleep, thread_setintr, thread_wakeup, thread_chpri,
           thread_kzmalloc, thread_kmfree, kz_syscall
  <2>2. QED
    BY <2>1, CallerForgets, BoxesAlone
<1>3. ASSUME NEW b \in MsgBox, NEW x \in Payload, kz_send(b, x) PROVE MB!Next
  BY <1>3, KzSendIsSend
<1>4. ASSUME NEW b \in MsgBox, thread_recv(b) PROVE MB!Next
  BY <1>4, RecvIsReceive
<1>5. ASSUME NEW b \in MsgBox, NEW x \in Payload, kx_send(b, x) PROVE MB!Next
  BY <1>5, KxSendIsSend
<1>6. CASE \/ INTR_ENABLE \/ INTR_DISABLE \/ thread_intr \/ intr_end
           \/ \E t \in Thread : kx_wakeup(t)
           \/ \E k \in Pool \cup {NULL} : kx_kmalloc(k)
           \/ \E k \in Pool : kx_kmfree(k)
           \/ UNCHANGED vars
  <2>1. UNCHANGED <<msgs, receiver, param>>
    BY <1>6
       DEF INTR_ENABLE, INTR_DISABLE, thread_intr, intr_end, kx_wakeup, kx_kmalloc,
           kx_kmfree, vars, userVars, boxVars
  <2>2. QED
    BY <2>1 DEF MB!vars
<1>7. QED
  BY <1>1, <1>2, <1>3, <1>4, <1>5, <1>6 DEF Next, ThreadStep, HandlerStep

(* Whatever threads and handlers call, and however they are scheduled,     *)
(* every message box is a first-in first-out channel, and what waits at it *)
(* gets the very next message.                                             *)
THEOREM BoxesAreChannels ==
  ASSUME ~WakeReceivers
  PROVE  Spec => ImplementsMailbox
<1>1. Init => MB!Init
  BY InitIsInit
<1>2. IInv /\ [Next]_vars => [MB!Next]_(MB!vars)
  BY StepIsStep
<1>3. Spec => []IInv
  BY Inductive
<1>4. QED
  BY <1>1, <1>2, <1>3, PTL DEF Spec, ImplementsMailbox, MB!Spec

-------------------------------------------------------------------------------
(***************************************************************************)
(* Places in the queues.                                                   *)
(***************************************************************************)
(* In consistent queues the place of a ready thread is where it is, and    *)
(* nowhere else.                                                           *)
LEMMA PlaceIsThePlace ==
  ASSUME NEW Q \in Ready, NEW prio \in [Thread -> Priority],
         Consistent(Q, prio), NEW u \in Q.ready
  PROVE  /\ Place(Q, prio, u) \in 1 .. Len(Q.que[prio[u]])
         /\ Q.que[prio[u]][Place(Q, prio, u)] = u
         /\ \A i \in 1 .. Len(Q.que[prio[u]]) :
              Q.que[prio[u]][i] = u => i = Place(Q, prio, u)
<1>1. u \in Thread /\ prio[u] \in Priority
  BY DEF Ready
<1>2. \E i \in 1 .. Len(Q.que[prio[u]]) : Q.que[prio[u]][i] = u
  BY DEF Consistent, ReadyAreQueued
<1>3. /\ Place(Q, prio, u) \in 1 .. Len(Q.que[prio[u]])
      /\ Q.que[prio[u]][Place(Q, prio, u)] = u
  BY <1>2 DEF Place
<1>4. QED
  BY <1>1, <1>3 DEF Consistent, QueuedOnce

(* getcurrent() of the head: everybody behind it moves up by one.          *)
LEMMA GetcurrentPlace ==
  ASSUME NEW Q \in Ready, NEW prio \in [Thread -> Priority],
         NEW t \in Thread, Consistent(Q, prio), t \in Q.ready,
         Q.que[prio[t]] # <<>>, Head(Q.que[prio[t]]) = t,
         NEW u \in Q.ready, u # t
  PROVE  Place(getcurrent(Q, prio, t), prio, u) <= Place(Q, prio, u)
<1> DEFINE G == getcurrent(Q, prio, t)
           i == Place(Q, prio, u)
           q == Q.que[prio[t]]
<1>1. G \in Ready /\ Consistent(G, prio) /\ G.ready = Q.ready \ {t}
  BY GetcurrentConsistent
<1>2. u \in G.ready /\ u \in Thread /\ prio[u] \in Priority /\ prio[t] \in Priority
  BY <1>1 DEF Ready
<1>3. /\ i \in 1 .. Len(Q.que[prio[u]]) /\ Q.que[prio[u]][i] = u
  BY PlaceIsThePlace
<1>4. q \in Seq(Thread)
  BY <1>2 DEF Ready
<1>5. G.que = [Q.que EXCEPT ![prio[t]] = Tail(q)]
  <2>1. \A j, k \in 1 .. Len(q) : q[j] = q[k] => j = k
    BY <1>2 DEF Consistent, QueuedOnce
  <2>2. Behind(q, t) = Tail(q)
    BY <1>4, <2>1, BehindHead
  <2>3. QED
    BY <2>2 DEF getcurrent
<1>6. CASE prio[u] # prio[t]
  <2>1. G.que[prio[u]] = Q.que[prio[u]]
    BY <1>2, <1>5, <1>6 DEF Ready
  <2>2. Place(G, prio, u) = Place(Q, prio, u)
    BY <2>1 DEF Place
  <2>3. Place(Q, prio, u) \in Int
    BY <1>3
  <2> HIDE DEF G, i
  <2>4. Place(G, prio, u) <= Place(Q, prio, u)
    BY <2>2, <2>3
  <2>5. QED
    BY <2>4, Zenon DEF G
<1>7. CASE prio[u] = prio[t]
  <2>1. G.que[prio[u]] = Tail(q)
    BY <1>2, <1>5, <1>7 DEF Ready
  <2>2. i # 1 /\ i \in 1 .. Len(q) /\ q[i] = u
    BY <1>3, <1>4, <1>7
  <2>3. i - 1 \in 1 .. Len(Tail(q)) /\ Tail(q)[i - 1] = u
    BY <1>4, <2>2
  <2> HIDE DEF G, i
  <2>4. i - 1 = Place(G, prio, u)
    <3>1. \A k \in 1 .. Len(G.que[prio[u]]) :
            G.que[prio[u]][k] = u => k = Place(G, prio, u)
      BY <1>1, <1>2, PlaceIsThePlace
    <3>2. QED
      BY <2>1, <2>3, <3>1
  <2>5. Place(G, prio, u) <= i
    BY <1>4, <2>2, <2>4
  <2>6. QED
    BY <2>5, Zenon DEF i, G
<1>8. QED
  BY <1>6, <1>7

(* putcurrent() appends: everybody else keeps the place.                   *)
LEMMA PutcurrentPlace ==
  ASSUME NEW Q \in Ready, NEW prio \in [Thread -> Priority],
         NEW t \in Thread \cup {NULL}, Consistent(Q, prio), NEW u \in Q.ready
  PROVE  /\ Place(putcurrent(Q, prio, t), prio, u) = Place(Q, prio, u)
         /\ u \in putcurrent(Q, prio, t).ready
<1> DEFINE P == putcurrent(Q, prio, t)
           i == Place(Q, prio, u)
           q == Q.que[prio[u]]
<1>1. CASE t = NULL \/ t \in Q.ready
  BY <1>1 DEF putcurrent
<1>2. CASE t \in Thread \ Q.ready
  <2>1. P \in Ready /\ Consistent(P, prio) /\ P.ready = Q.ready \cup {t}
    BY <1>2, NullIsNoThread, PutcurrentConsistent
  <2>2. u \in P.ready /\ u \in Thread /\ prio[u] \in Priority /\ prio[t] \in Priority
    BY <1>2, <2>1 DEF Ready
  <2>3. i \in 1 .. Len(q) /\ q[i] = u
    BY PlaceIsThePlace
  <2>4. q \in Seq(Thread)
    BY <2>2 DEF Ready
  <2>5. P.que = [Q.que EXCEPT ![prio[t]] = Append(@, t)]
    BY <1>2, NullIsNoThread DEF putcurrent
  <2>6. P.que[prio[u]] = q \/ P.que[prio[u]] = Append(q, t)
    BY <2>2, <2>5 DEF Ready
  <2>7. i \in 1 .. Len(P.que[prio[u]]) /\ P.que[prio[u]][i] = u
    BY <1>2, <2>3, <2>4, <2>6
  <2> HIDE DEF P, i
  <2>8. i = Place(P, prio, u)
    BY <2>1, <2>2, <2>7, PlaceIsThePlace
  <2>9. QED
    BY <2>2, <2>8 DEF P, i
<1>3. QED
  BY <1>1, <1>2

(***************************************************************************)
(* Places while a call runs.                                               *)
(***************************************************************************)
(* The caller leaves the queues: nobody else falls behind.                 *)
LEMMA CallKeepsPlaces ==
  ASSUME IInv, mode = "user", NEW u \in rq.ready, u # current
  PROVE  /\ u \in Taken.ready /\ Place(Taken, priority, u) <= Place(rq, priority, u)
         /\ u \in Requeued.ready
         /\ Place(Requeued, priority, u) <= Place(rq, priority, u)
<1>1. /\ rq \in Ready /\ priority \in [Thread -> Priority]
      /\ Consistent(rq, priority)
      /\ current \in Thread /\ current \in rq.ready
      /\ rq.que[priority[current]] # <<>>
      /\ Head(rq.que[priority[current]]) = current
  BY CallerQueues
     DEF IInv, TypeOK, QueueInv, ReadyQueueConsistent, RunsFirst, IsFirst
<1>2. /\ Taken \in Ready /\ Consistent(Taken, priority)
      /\ Taken.ready = rq.ready \ {current}
  BY CallerQueues DEF IInv
<1>3. u \in Taken.ready /\ Place(Taken, priority, u) <= Place(rq, priority, u)
  BY <1>1, <1>2, GetcurrentPlace DEF Taken
<1>4. u \in Requeued.ready /\ Place(Requeued, priority, u) = Place(Taken, priority, u)
  BY <1>1, <1>2, <1>3, PutcurrentPlace DEF Requeued
<1>5. QED
  BY <1>3, <1>4

(* Steps that requeue their caller, or not, and then perhaps one other.    *)
LEMMA StepKeepsPlaces ==
  ASSUME IInv, mode = "user", NEW u \in rq.ready, u # current,
         priority' = priority,
         \/ rq' = Taken
         \/ rq' = Requeued
         \/ \E t \in Thread : rq' = putcurrent(Requeued, priority, t)
  PROVE  Place(rq', priority', u) <= Place(rq, priority, u)
<1>1. CASE rq' = Taken
  BY <1>1, CallKeepsPlaces
<1>2. CASE rq' = Requeued
  BY <1>2, CallKeepsPlaces
<1>3. ASSUME NEW t \in Thread, rq' = putcurrent(Requeued, priority, t)
      PROVE  Place(rq', priority', u) <= Place(rq, priority, u)
  <2>1. /\ Requeued \in Ready /\ Consistent(Requeued, priority)
        /\ u \in Requeued.ready /\ priority \in [Thread -> Priority]
    BY CallerQueues, CallKeepsPlaces DEF IInv, TypeOK
  <2>2. Place(rq', priority', u) = Place(Requeued, priority, u)
    BY <1>3, <2>1, PutcurrentPlace
  <2>3. QED
    BY <2>2, CallKeepsPlaces
<1>4. QED
  BY <1>1, <1>2, <1>3

(* A handler only appends.                                                 *)
LEMMA HandlerKeepsPlaces ==
  ASSUME IInv, NEW u \in rq.ready, priority' = priority,
         rq' = rq \/ \E t \in Thread : rq' = putcurrent(rq, priority, t)
  PROVE  Place(rq', priority', u) <= Place(rq, priority, u)
<1>1. /\ rq \in Ready /\ priority \in [Thread -> Priority]
      /\ Consistent(rq, priority)
  BY DEF IInv, TypeOK, QueueInv, ReadyQueueConsistent
<1>2. Place(rq, priority, u) \in Int
  BY <1>1, PlaceIsThePlace
<1>3. CASE rq' = rq
  BY <1>2, <1>3
<1>4. ASSUME NEW t \in Thread, rq' = putcurrent(rq, priority, t)
      PROVE  Place(rq', priority', u) <= Place(rq, priority, u)
  <2>1. Place(rq', priority', u) = Place(rq, priority, u)
    BY <1>1, <1>4, PutcurrentPlace
  <2>2. QED
    BY <1>2, <2>1
<1>5. QED
  BY <1>3, <1>4

(* A new thread is queued behind everybody, and was not ready.             *)
LEMMA RunKeepsPlaces ==
  ASSUME IInv, NEW p \in Priority, thread_run(p), NEW u \in rq.ready, u # current
  PROVE  Place(rq', priority', u) <= Place(rq, priority, u)
<1>1. mode = "user"
  BY DEF thread_run, kz_syscall
<1>2. CASE rq' = Taken /\ UNCHANGED tcbVars
  BY <1>1, <1>2, StepKeepsPlaces DEF tcbVars
<1>3. ASSUME NEW t \in Thread \ live,
             priority' = [priority EXCEPT ![t] = p],
             rq' = putcurrent(putcurrent(Cleared(Taken, t), priority, current),
                              priority', t)
      PROVE  Place(rq', priority', u) <= Place(rq, priority, u)
  <2>1. /\ priority \in [Thread -> Priority] /\ priority' \in [Thread -> Priority]
        /\ t \notin rq.ready
        /\ \A s \in Thread \ {t} : priority'[s] = priority[s]
    BY <1>3 DEF IInv, TypeOK, WaitInv, ReadyAreLive
  <2>2. /\ Taken \in Ready /\ Taken.ready = rq.ready \ {current}
        /\ Requeued \in Ready /\ Requeued.ready = rq.ready
        /\ Consistent(Requeued, priority)
    BY <1>1, CallerQueues DEF IInv
  <2>3. rq' = putcurrent(Requeued, priority', t)
    BY <1>3, <2>1, <2>2, ClearedUnready DEF Requeued
  <2>4. \A s \in Requeued.ready : priority'[s] = priority[s]
    BY <2>1, <2>2 DEF Ready
  <2>5. Consistent(Requeued, priority')
    BY <2>1, <2>2, <2>4, PriorityOfUnready
  <2>6. u \in Requeued.ready
    BY <2>2
  <2>7. Place(rq', priority', u) = Place(Requeued, priority', u)
    BY <2>1, <2>2, <2>3, <2>5, <2>6, PutcurrentPlace
  <2>8. Place(Requeued, priority', u) = Place(Requeued, priority, u)
    BY <2>4, <2>6 DEF Place
  <2>9. QED
    BY <1>1, <2>7, <2>8, CallKeepsPlaces
<1>4. QED
  BY <1>2, <1>3 DEF thread_run

(* The priority of the caller changes, of nobody else.                     *)
LEMMA ChpriKeepsPlaces ==
  ASSUME IInv, NEW p \in Priority \cup {-1}, thread_chpri(p),
         NEW u \in rq.ready, u # current
  PROVE  Place(rq', priority', u) <= Place(rq, priority, u)
<1>1. mode = "user" /\ rq' = putcurrent(Taken, priority', current)
  BY DEF thread_chpri, kz_syscall
<1>2. /\ current \in Thread /\ Taken \in Ready /\ Consistent(Taken, priority)
      /\ Taken.ready = rq.ready \ {current} /\ u \in Taken.ready
      /\ rq.ready \in SUBSET Thread
  BY <1>1, CallerQueues DEF IInv, TypeOK, Ready
<1>3. /\ priority \in [Thread -> Priority] /\ priority' \in [Thread -> Priority]
      /\ \A s \in Taken.ready : priority'[s] = priority[s]
  BY <1>2 DEF IInv, TypeOK, thread_chpri, Priority
<1>4. Consistent(Taken, priority')
  BY <1>2, <1>3, PriorityOfUnready
<1>5. Place(rq', priority', u) = Place(Taken, priority', u)
  BY <1>1, <1>2, <1>3, <1>4, PutcurrentPlace
<1>6. Place(Taken, priority', u) = Place(Taken, priority, u)
  BY <1>2, <1>3 DEF Place
<1>7. QED
  BY <1>1, <1>5, <1>6, CallKeepsPlaces

(* The ending thread takes itself out.                                     *)
LEMMA ExitKeepsPlaces ==
  ASSUME IInv, ClearCurrent, NEW u \in rq.ready, u # current
  PROVE  Place(rq', priority', u) <= Place(rq, priority, u)
<1>1. mode = "user" /\ rq' = Cleared(Taken, current)
  BY DEF ClearCurrent
<1>2. /\ current \in Thread /\ Taken \in Ready
      /\ Taken.ready = rq.ready \ {current}
  BY <1>1, CallerQueues DEF IInv
<1>3. rq' = Taken
  BY <1>1, <1>2, ClearedUnready
<1>4. priority'[u] = priority[u]
  BY DEF ClearCurrent, IInv, TypeOK, Ready
<1>5. Place(rq', priority', u) = Place(Taken, priority, u)
  BY <1>3, <1>4 DEF Place
<1>6. QED
  BY <1>1, <1>5, CallKeepsPlaces

-------------------------------------------------------------------------------
(* Everybody keeps the place in every step but the caller in his own.      *)
NobodyOvertakes ==
  \A t \in rq.ready \cap rq'.ready :
    mode = "intr" \/ t # current =>
      Place(rq', priority', t) <= Place(rq, priority, t)

LEMMA NextKeepsPlaces ==
  ASSUME IInv, [Next]_vars
  PROVE  [NobodyOvertakes]_vars
<1> SUFFICES ASSUME NEW u \in rq.ready, mode = "intr" \/ u # current
             PROVE  Place(rq', priority', u) <= Place(rq, priority, u)
  BY DEF NobodyOvertakes
<1>1. ASSUME NEW p \in Priority, thread_run(p)
      PROVE  Place(rq', priority', u) <= Place(rq, priority, u)
  <2>1. mode = "user"
    BY <1>1 DEF thread_run, kz_syscall
  <2>2. QED
    BY <1>1, <2>1, RunKeepsPlaces
<1>2. CASE thread_exit \/ softerr_intr
  <2>1. ClearCurrent /\ mode = "user"
    BY <1>2 DEF thread_exit, softerr_intr, ClearCurrent
  <2>2. QED
    BY <2>1, ExitKeepsPlaces
<1>3. ASSUME NEW p \in Priority \cup {-1}, thread_chpri(p)
      PROVE  Place(rq', priority', u) <= Place(rq, priority, u)
  <2>1. mode = "user"
    BY <1>3 DEF thread_chpri, kz_syscall
  <2>2. QED
    BY <1>3, <2>1, ChpriKeepsPlaces
<1>4. CASE \/ thread_wait \/ thread_getid \/ thread_sleep \/ thread_setintr
           \/ \E t \in Thread : thread_wakeup(t)
           \/ \E k \in Pool \cup {NULL} : thread_kzmalloc(k)
           \/ \E k \in Pool : thread_kmfree(k)
  <2>1. /\ mode = "user" /\ priority' = priority
        /\ \/ rq' = Taken
           \/ rq' = Requeued
           \/ \E t \in Thread : rq' = putcurrent(Requeued, priority, t)
    BY <1>4
       DEF thread_wait, thread_getid, thread_sleep, thread_setintr, thread_wakeup,
           thread_kzmalloc, thread_kmfree, kz_syscall, tcbVars
  <2>2. QED
    BY <2>1, StepKeepsPlaces
<1>5. ASSUME NEW b \in MsgBox, NEW x \in Payload, kz_send(b, x)
      PROVE  Place(rq', priority', u) <= Place(rq, priority, u)
  <2>1. /\ mode = "user" /\ priority' = priority
        /\ rq' = Requeued \/ rq' = putcurrent(Requeued, priority, receiver[b])
    BY <1>5 DEF kz_send, kz_syscall, thread_send, tcbVars
  <2>2. receiver[b] = NULL \/ receiver[b] \in Thread
    BY DEF IInv, TypeOK
  <2>3. receiver[b] = NULL => putcurrent(Requeued, priority, receiver[b]) = Requeued
    BY DEF putcurrent
  <2>4. QED
    BY <2>1, <2>2, <2>3, StepKeepsPlaces
<1>6. ASSUME NEW b \in MsgBox, thread_recv(b)
      PROVE  Place(rq', priority', u) <= Place(rq, priority, u)
  <2>1. mode = "user" /\ priority' = priority /\ (rq' = Taken \/ rq' = Requeued)
    BY <1>6 DEF thread_recv, kz_syscall, tcbVars
  <2>2. QED
    BY <2>1, StepKeepsPlaces
<1>7. ASSUME NEW b \in MsgBox, NEW x \in Payload, kx_send(b, x)
      PROVE  Place(rq', priority', u) <= Place(rq, priority, u)
  <2>1. /\ priority' = priority
        /\ rq' = rq \/ rq' = putcurrent(rq, priority, receiver[b])
    BY <1>7 DEF kx_send, thread_send, tcbVars
  <2>2. receiver[b] = NULL \/ receiver[b] \in Thread
    BY DEF IInv, TypeOK
  <2>3. receiver[b] = NULL => putcurrent(rq, priority, receiver[b]) = rq
    BY DEF putcurrent
  <2>4. QED
    BY <2>1, <2>2, <2>3, HandlerKeepsPlaces
<1>8. CASE \/ INTR_ENABLE \/ INTR_DISABLE \/ thread_intr \/ intr_end
           \/ \E t \in Thread : kx_wakeup(t)
           \/ \E k \in Pool \cup {NULL} : kx_kmalloc(k)
           \/ \E k \in Pool : kx_kmfree(k)
           \/ UNCHANGED vars
  <2>1. /\ priority' = priority
        /\ rq' = rq \/ \E t \in Thread : rq' = putcurrent(rq, priority, t)
    BY <1>8
       DEF INTR_ENABLE, INTR_DISABLE, thread_intr, intr_end, kx_wakeup, kx_kmalloc,
           kx_kmfree, vars, tcbVars
  <2>2. QED
    BY <2>1, HandlerKeepsPlaces
<1>9. QED
  BY <1>1, <1>2, <1>3, <1>4, <1>5, <1>6, <1>7, <1>8 DEF Next, ThreadStep, HandlerStep

(* Round robin: no thread that stays ready ever falls behind in its queue, *)
(* unless by a call of its own, however calls, interrupts and exits        *)
(* interleave.                                                             *)
THEOREM RoundRobin ==
  ASSUME ~WakeReceivers
  PROVE  Spec => NoOvertaking
<1>1. IInv /\ [Next]_vars => [NobodyOvertakes]_vars
  BY NextKeepsPlaces
<1>2. Spec => []IInv
  BY Inductive
<1>3. Spec => [][NobodyOvertakes]_vars
  BY <1>1, <1>2, PTL DEF Spec
<1>4. QED
  BY <1>3 DEF NobodyOvertakes, NoOvertaking
===============================================================================
