------------------------------ MODULE KozosLists ------------------------------
(***************************************************************************)
(* The kernel with its ready queues as linked lists.  Every action is one  *)
(* of module Kozos, with the getcurrent(), memset() and putcurrent() of    *)
(* the code carried out, in their order, on the pointers.  schedule()      *)
(* still looks at the sequences; ListsFollow says that it would find the   *)
(* same thread in the lists.                                               *)
(***************************************************************************)
EXTENDS Kozos, ReadyList

VARIABLE lists

lvars == <<vars, lists>>

ListInit ==
  /\ Init
  /\ lists = [head  |-> [p \in Priority |-> IF p = 0 THEN 0 ELSE NULL],
              tail  |-> [p \in Priority |-> IF p = 0 THEN 0 ELSE NULL],
              next  |-> [t \in Thread |-> NULL],
              ready |-> {0}]

(* The lists when the function of a system call starts, and when it has    *)
(* requeued its caller.                                                    *)
Unlinked == unlink(lists, priority, current)
Relinked == link(Unlinked, priority, current)

run(p) ==
  /\ thread_run(p)
  /\ \/ live = Thread /\ lists' = Unlinked
     \/ \E t \in Thread \ live :
          /\ live' = live \cup {t}
          /\ lists' = link(link(clear(Unlinked, t), priority, current), priority', t)

exit == (thread_exit \/ softerr_intr) /\ lists' = clear(Unlinked, current)

(* The calls that requeue their caller and touch the queues no more. *)
requeue ==
  /\ \/ thread_wait
     \/ thread_getid
     \/ \E k \in Pool \cup {NULL} : thread_kzmalloc(k)
     \/ \E k \in Pool : thread_kmfree(k)
     \/ thread_setintr
  /\ lists' = Relinked

sleep == thread_sleep /\ lists' = Unlinked

wakeup(t) == thread_wakeup(t) /\ lists' = link(Relinked, priority, t)

chpri(p) == thread_chpri(p) /\ lists' = link(Unlinked, priority', current)

(* A registered receiver is requeued behind the sender. *)
send(b, x) ==
  /\ kz_send(b, x)
  /\ lists' = IF HasBlock(MsgPool) THEN link(Relinked, priority, receiver[b]) ELSE Relinked

recv(b) ==
  /\ thread_recv(b)
  /\ lists' = IF receiver[b] = NULL /\ msgs[b] # <<>> THEN Relinked ELSE Unlinked

(* A handler has no caller to requeue. *)
handler_call ==
  \/ \E t \in Thread : kx_wakeup(t) /\ lists' = link(lists, priority, t)
  \/ \E b \in MsgBox, x \in Payload :
       /\ kx_send(b, x)
       /\ lists' = IF HasBlock(MsgPool) THEN link(lists, priority, receiver[b]) ELSE lists

(* What leaves the queues alone. *)
elsewhere ==
  /\ \/ INTR_ENABLE
     \/ INTR_DISABLE
     \/ thread_intr
     \/ \E k \in Pool \cup {NULL} : kx_kmalloc(k)
     \/ \E k \in Pool : kx_kmfree(k)
     \/ intr_end
  /\ lists' = lists

ListNext ==
  \/ \E p \in Priority : run(p)
  \/ exit
  \/ requeue
  \/ sleep
  \/ \E t \in Thread : wakeup(t)
  \/ \E p \in Priority \cup {-1} : chpri(p)
  \/ \E b \in MsgBox, x \in Payload : send(b, x)
  \/ \E b \in MsgBox : recv(b)
  \/ handler_call
  \/ elsewhere

ListSpec == ListInit /\ [][ListNext]_lvars
-------------------------------------------------------------------------------
(* The linked lists hold the queues of module Kozos after any sequence of  *)
(* calls: no list ends early or in a ring, every tail is the last thread,  *)
(* a thread outside has a next that is NULL.                               *)
ListsFollow == lists \in Lists /\ Represents(lists, rq)
===============================================================================
