------------------------------ MODULE ReadyQueue ------------------------------
(***************************************************************************)
(* The ready queues of kozos.c: one singly linked list of TCBs for every   *)
(* priority, and the READY bit of every TCB.  Both change together, in     *)
(* getcurrent() and putcurrent() only, so a value of the model is a record *)
(*     [que   |-> the list of every priority, head first,                  *)
(*      ready |-> the TCBs whose READY bit is set].                        *)
(* The list is a sequence here; module ReadyList has the pointers.         *)
(***************************************************************************)
EXTENDS Integers, Sequences

CONSTANTS
  THREAD_NUM,    \* number of TCBs in threads[]
  PRIORITY_NUM,  \* number of ready queues
  NULL           \* the null pointer

ASSUME TableAssumption ==
  /\ THREAD_NUM \in Nat \ {0}
  /\ PRIORITY_NUM \in Nat \ {0}
  /\ NULL \notin 0 .. THREAD_NUM - 1

Thread   == 0 .. THREAD_NUM - 1     \* a TCB is named by its index in threads[]
Priority == 0 .. PRIORITY_NUM - 1   \* 0 is the highest

Ready == [que : [Priority -> Seq(Thread)], ready : SUBSET Thread]

(* What t->next leads to: the part of q behind t. *)
Behind(q, t) ==
  LET i == CHOOSE k \in 1 .. Len(q) : q[k] = t
  IN  SubSeq(q, i + 1, Len(q))

(* Take thread t (the caller's "current") out of its queue.  The code does *)
(* not search for t: the head becomes t->next, whatever stood before t.    *)
getcurrent(Q, prio, t) ==
  IF t \notin Q.ready
  THEN Q
  ELSE [que   |-> [Q.que EXCEPT ![prio[t]] = Behind(@, t)],
        ready |-> Q.ready \ {t}]

(* A faulty variant: the READY bit is not looked at, so a thread that is   *)
(* queued already is queued again.                                         *)
putcurrentTwice(Q, prio, t) ==
  IF t = NULL
  THEN Q
  ELSE [que   |-> [Q.que EXCEPT ![prio[t]] = Append(@, t)],
        ready |-> Q.ready \cup {t}]

(* A faulty variant: the thread is put in front of its queue. *)
putcurrentFront(Q, prio, t) ==
  IF t = NULL \/ t \in Q.ready
  THEN Q
  ELSE [que   |-> [Q.que EXCEPT ![prio[t]] = <<t>> \o @],
        ready |-> Q.ready \cup {t}]

(* Put thread t at the tail of the queue of its priority. *)
putcurrent(Q, prio, t) ==
  IF t = NULL \/ t \in Q.ready
  THEN Q
  ELSE [que   |-> [Q.que EXCEPT ![prio[t]] = Append(@, t)],
        ready |-> Q.ready \cup {t}]

(* memset(thp, 0, sizeof *thp) clears the READY bit and nothing else here. *)
Cleared(Q, t) == [Q EXCEPT !.ready = @ \ {t}]

(***************************************************************************)
(* The queues and the READY bits agree: every queued thread is READY, is   *)
(* in the queue of its own priority and only once, and every READY thread  *)
(* is queued.                                                              *)
(***************************************************************************)
QueuedAreReady(Q, prio) ==
  \A p \in Priority : \A i \in 1 .. Len(Q.que[p]) :
    Q.que[p][i] \in Q.ready /\ prio[Q.que[p][i]] = p

QueuedOnce(Q) ==
  \A p \in Priority : \A i, j \in 1 .. Len(Q.que[p]) :
    Q.que[p][i] = Q.que[p][j] => i = j

ReadyAreQueued(Q, prio) ==
  \A t \in Q.ready : \E i \in 1 .. Len(Q.que[prio[t]]) : Q.que[prio[t]][i] = t

Consistent(Q, prio) ==
  QueuedAreReady(Q, prio) /\ QueuedOnce(Q) /\ ReadyAreQueued(Q, prio)

(* t is first in its queue and every queue of a higher priority is empty.  *)
IsFirst(Q, prio, t) ==
  /\ t \in Q.ready
  /\ Q.que[prio[t]] # <<>>
  /\ Head(Q.que[prio[t]]) = t
  /\ \A p \in Priority : p < prio[t] => Q.que[p] = <<>>
===============================================================================
