------------------------------ MODULE ReadyList ------------------------------
(***************************************************************************)
(* The ready queues of kozos.c as they are stored: readyque[] with a head  *)
(* and a tail for every priority, and next and the READY bit in every TCB. *)
(* A value of the model is a record of the four.  putcurrent() writes next *)
(* of the last thread but not of the one it appends: it relies on whoever  *)
(* took that thread out, or cleared its TCB, to have set it to NULL.       *)
(***************************************************************************)
EXTENDS ReadyQueue

Lists == [head  : [Priority -> Thread \cup {NULL}],
          tail  : [Priority -> Thread \cup {NULL}],
          next  : [Thread -> Thread \cup {NULL}],
          ready : SUBSET Thread]

(* A faulty variant: next of the thread that leaves is not reset. *)
unlinkKeepsNext(L, prio, t) ==
  IF t \notin L.ready
  THEN L
  ELSE [L EXCEPT !.head[prio[t]] = L.next[t],
                 !.tail[prio[t]] = IF L.next[t] = NULL THEN NULL ELSE @,
                 !.ready = @ \ {t}]

(* getcurrent() *)
unlink(L, prio, t) ==
  IF t \notin L.ready
  THEN L
  ELSE [L EXCEPT !.head[prio[t]] = L.next[t],
                 !.tail[prio[t]] = IF L.next[t] = NULL THEN NULL ELSE @,
                 !.next[t] = NULL,
                 !.ready = @ \ {t}]

(* putcurrent() *)
link(L, prio, t) ==
  IF t = NULL \/ t \in L.ready
  THEN L
  ELSE LET last == L.tail[prio[t]]
       IN  [L EXCEPT !.head[prio[t]] = IF last = NULL THEN t ELSE @,
                     !.next = IF last = NULL THEN @ ELSE [@ EXCEPT ![last] = t],
                     !.tail[prio[t]] = t,
                     !.ready = @ \cup {t}]

(* memset() of a TCB *)
clear(L, t) == [L EXCEPT !.next[t] = NULL, !.ready = @ \ {t}]

(***************************************************************************)
(* The lists L hold the queues Q.                                          *)
(***************************************************************************)
HeadOf(q) == IF q = <<>> THEN NULL ELSE q[1]
TailOf(q) == IF q = <<>> THEN NULL ELSE q[Len(q)]

Successor(q, i) == IF i = Len(q) THEN NULL ELSE q[i + 1]

Represents(L, Q) ==
  /\ L.ready = Q.ready
  /\ \A p \in Priority :
       /\ L.head[p] = HeadOf(Q.que[p])
       /\ L.tail[p] = TailOf(Q.que[p])
       /\ \A i \in 1 .. Len(Q.que[p]) : L.next[Q.que[p][i]] = Successor(Q.que[p], i)
  /\ \A t \in Thread \ Q.ready : L.next[t] = NULL
===============================================================================
