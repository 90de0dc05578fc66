-------------------------------- MODULE Kozos --------------------------------
(***************************************************************************)
(* The KOZOS kernel (kozos.c with the entry points of syscall.c): threads, *)
(* ready queues, message boxes, the block pools as counters, and the       *)
(* interrupt handler a driver registers.                                   *)
(*                                                                         *)
(* A trap or an interrupt masks interrupts and the kernel runs to dispatch *)
(* without being interrupted, so a system call is one action: kz_syscall() *)
(* records the call in the TCB, syscall_proc() takes the caller out of its *)
(* ready queue, the function of the call runs, schedule() picks a thread.  *)
(* A serial interrupt is a run of actions: thread_intr enters the handler, *)
(* the handler makes any service calls, intr_end is the schedule() that    *)
(* follows it.                                                             *)
(*                                                                         *)
(* The threads are arbitrary: whoever runs may make any call, within the   *)
(* limits below, none of which the kernel checks: the priorities and       *)
(* message boxes are in range, kz_wakeup() is given a live thread, only    *)
(* allocated blocks are freed, only SOFTVEC_TYPE_SERINTR is given a new    *)
(* handler, and the stacks of all threads ever started fit the stack area. *)
(***************************************************************************)
EXTENDS ReadyQueue, FiniteSets, FiniteSetsExt

CONSTANTS
  MsgBox,         \* the message boxes
  Payload,        \* what the (size, pointer) pair of a message stands for
  Pool,           \* the block pools of memory.c
  MsgPool,        \* the pool whose blocks hold a kz_msgbuf
  BlockNum,       \* number of blocks of every pool
  STACK_NUM,      \* number of stacks that fit the user stack area (a bound)
  WakeReceivers   \* may a thread that waits in kz_recv() be woken up?

ASSUME KozosAssumption ==
  /\ MsgPool \in Pool
  /\ BlockNum \in [Pool -> Nat]
  /\ NULL \notin Pool
  /\ IsFiniteSet(MsgBox)
  /\ STACK_NUM \in Nat \ {0}
  /\ WakeReceivers \in BOOLEAN

Message  == [sender : Thread \cup {NULL}, p : Payload]
Received == Message \cup {NULL}

(* syscall.type, with the calls that always requeue their caller merged.   *)
(* RUN is 0 in the enumeration: the type of a TCB that memset() cleared.   *)
CallType == {"RUN", "SLEEP", "RECV", "OTHER"}

VARIABLES
  current,    \* the running thread, or what the service calls left there
  rq,         \* the ready queues and the READY bits
  live,       \* the TCBs in use: init.func is set
  priority,   \* priority of every TCB
  call,       \* type of the latest system call of every TCB
  param,      \* what that call received, when it is kz_recv()
  masked,     \* the threads that run with interrupts masked (CCR)
  receiver,   \* the thread registered in every message box
  msgs,       \* the messages queued in every message box
  free,       \* number of free blocks of every pool
  held,       \* number of blocks threads and handlers hold
  handler,    \* is a handler registered for SOFTVEC_TYPE_SERINTR?
  stacks,     \* number of stacks handed out: they are never taken back
  mode        \* "user" a thread, "intr" the handler, "down" kz_sysdown()

tcbVars  == <<live, priority, masked, stacks>>
boxVars  == <<receiver, msgs>>
memVars  == <<free, held>>
userVars == <<call, param>>
vars == <<current, rq, tcbVars, userVars, boxVars, memVars, handler, mode>>

TypeOK ==
  /\ current \in Thread \cup {NULL}
  /\ rq \in Ready
  /\ live \in SUBSET Thread
  /\ priority \in [Thread -> Priority]
  /\ call \in [Thread -> CallType]
  /\ param \in [Thread -> Received]
  /\ masked \in SUBSET Thread
  /\ receiver \in [MsgBox -> Thread \cup {NULL}]
  /\ msgs \in [MsgBox -> Seq(Message)]
  /\ free \in [Pool -> Nat]
  /\ held \in [Pool -> Nat]
  /\ handler \in BOOLEAN
  /\ stacks \in Nat
  /\ mode \in {"user", "intr", "down"}

(* kz_start() has run thread_run() for the initial thread and dispatched it *)
(* with interrupts masked, as for every thread created with priority 0.     *)
Init ==
  /\ current = 0
  /\ rq = [que   |-> [p \in Priority |-> IF p = 0 THEN <<0>> ELSE <<>>],
           ready |-> {0}]
  /\ live = {0}
  /\ priority = [t \in Thread |-> 0]
  /\ call = [t \in Thread |-> "RUN"]
  /\ param = [t \in Thread |-> NULL]
  /\ masked = {0}
  /\ receiver = [b \in MsgBox |-> NULL]
  /\ msgs = [b \in MsgBox |-> <<>>]
  /\ free = BlockNum
  /\ held = [k \in Pool |-> 0]
  /\ handler = FALSE
  /\ stacks = 1
  /\ mode = "user"
-------------------------------------------------------------------------------
(***************************************************************************)
(* Entry to and exit from the kernel.                                      *)
(***************************************************************************)
kz_sysdown == mode' = "down" /\ UNCHANGED current

(* A faulty variant: the search starts behind the first queue. *)
scheduleFromOne ==
  \/ /\ \A p \in Priority \ {0} : rq'.que[p] = <<>>
     /\ kz_sysdown
  \/ \E p \in Priority \ {0} :
       /\ rq'.que[p] # <<>>
       /\ \A i \in 1 .. p - 1 : rq'.que[i] = <<>>
       /\ current' = Head(rq'.que[p])
       /\ mode' = "user"

schedule ==
  \/ /\ \A p \in Priority : rq'.que[p] = <<>>
     /\ kz_sysdown
  \/ \E p \in Priority :
       /\ rq'.que[p] # <<>>
       /\ \A i \in 0 .. p - 1 : rq'.que[i] = <<>>
       /\ current' = Head(rq'.que[p])
       /\ mode' = "user"

(* A thread runs and traps with a system call of type c.  The parameter    *)
(* block is a new one, on its stack.                                       *)
kz_syscall(c) ==
  /\ mode = "user"
  /\ current \in live
  /\ call' = [call EXCEPT ![current] = c]

NewParam == [param EXCEPT ![current] = NULL]

(* The ready queues when the function of a system call starts, and when it *)
(* has requeued its caller.                                                *)
Taken    == getcurrent(rq, priority, current)
Requeued == putcurrent(Taken, priority, current)
-------------------------------------------------------------------------------
(***************************************************************************)
(* System calls on threads.                                                *)
(***************************************************************************)
(* The first free TCB becomes a thread of priority p, behind its creator.  *)
(* With no free TCB the function returns before it requeues the caller.    *)
thread_run(p) ==
  /\ kz_syscall("RUN")
  /\ \/ /\ live = Thread
        /\ rq' = Taken
        /\ param' = NewParam
        /\ UNCHANGED tcbVars
     \/ \E t \in Thread \ live :
          /\ \A s \in 0 .. t - 1 : s \in live
          /\ stacks < STACK_NUM
          /\ live' = live \cup {t}
          /\ priority' = [priority EXCEPT ![t] = p]
          /\ masked' = IF p = 0 THEN masked \cup {t} ELSE masked \ {t}
          /\ stacks' = stacks + 1
          /\ param' = [NewParam EXCEPT ![t] = NULL]
          /\ rq' = putcurrent(putcurrent(Cleared(Taken, t), priority, current),
                              priority', t)
  /\ schedule
  /\ UNCHANGED <<boxVars, memVars, handler>>

(* memset() of the running TCB: thread_exit(), after getcurrent(). *)
ClearCurrent ==
  /\ mode = "user"
  /\ current \in live
  /\ rq' = Cleared(Taken, current)
  /\ live' = live \ {current}
  /\ priority' = [priority EXCEPT ![current] = 0]
  /\ masked' = masked \ {current}
  /\ call' = [call EXCEPT ![current] = "RUN"]
  /\ param' = NewParam
  /\ schedule
  /\ UNCHANGED <<stacks, boxVars, memVars, handler>>

thread_exit == ClearCurrent      \* kz_exit(), or return from the main function
softerr_intr == ClearCurrent     \* trapa #1 to #3

(* kz_wait() and kz_getid() requeue the caller and do nothing else. *)
thread_wait ==
  /\ kz_syscall("OTHER")
  /\ rq' = Requeued
  /\ param' = NewParam
  /\ schedule
  /\ UNCHANGED <<tcbVars, boxVars, memVars, handler>>

thread_getid == thread_wait

thread_sleep ==
  /\ kz_syscall("SLEEP")
  /\ rq' = Taken
  /\ param' = NewParam
  /\ schedule
  /\ UNCHANGED <<tcbVars, boxVars, memVars, handler>>

(* The threads a caller may pass to kz_wakeup() and kx_wakeup(). *)
Wakeable ==
  {t \in live : WakeReceivers \/ \A b \in MsgBox : receiver[b] # t}

thread_wakeup(t) ==
  /\ kz_syscall("OTHER")
  /\ t \in Wakeable
  /\ rq' = putcurrent(Requeued, priority, t)
  /\ param' = NewParam
  /\ schedule
  /\ UNCHANGED <<tcbVars, boxVars, memVars, handler>>

(* A negative priority leaves the priority as it is. *)
thread_chpri(p) ==
  /\ kz_syscall("OTHER")
  /\ priority' = IF p < 0 THEN priority ELSE [priority EXCEPT ![current] = p]
  /\ rq' = putcurrent(Taken, priority', current)
  /\ param' = NewParam
  /\ schedule
  /\ UNCHANGED <<live, masked, stacks, boxVars, memVars, handler>>
-------------------------------------------------------------------------------
(***************************************************************************)
(* Block pools.  A request of pool NULL is one that no pool is large       *)
(* enough for.  kzmem_alloc() takes the system down when it fails.         *)
(***************************************************************************)
(* A faulty variant: an empty free list is not noticed. *)
HasBlockUnchecked(k) == k \in Pool

HasBlock(k) == k \in Pool /\ free[k] > 0

AllocateHeld(k) ==
  /\ free' = [free EXCEPT ![k] = @ - 1]
  /\ held' = [held EXCEPT ![k] = @ + 1]

FreeHeld(k) ==
  /\ held[k] > 0
  /\ free' = [free EXCEPT ![k] = @ + 1]
  /\ held' = [held EXCEPT ![k] = @ - 1]

thread_kzmalloc(k) ==
  /\ kz_syscall("OTHER")
  /\ rq' = Requeued
  /\ param' = NewParam
  /\ \/ HasBlock(k) /\ AllocateHeld(k) /\ schedule
     \/ ~HasBlock(k) /\ kz_sysdown /\ UNCHANGED memVars
  /\ UNCHANGED <<tcbVars, boxVars, handler>>

thread_kmfree(k) ==
  /\ kz_syscall("OTHER")
  /\ FreeHeld(k)
  /\ rq' = Requeued
  /\ param' = NewParam
  /\ schedule
  /\ UNCHANGED <<tcbVars, boxVars, handler>>
-------------------------------------------------------------------------------
(***************************************************************************)
(* Message boxes.                                                          *)
(***************************************************************************)
(* Faulty variants: the receiver stays registered; the newest message goes *)
(* out first.                                                              *)
recvmsgKeepsReceiver(b, t, q, P) ==
  /\ param' = [P EXCEPT ![t] = Head(q)]
  /\ msgs' = [msgs EXCEPT ![b] = Tail(q)]
  /\ UNCHANGED receiver

recvmsgNewest(b, t, q, P) ==
  /\ param' = [P EXCEPT ![t] = q[Len(q)]]
  /\ msgs' = [msgs EXCEPT ![b] = SubSeq(q, 1, Len(q) - 1)]
  /\ receiver' = [receiver EXCEPT ![b] = NULL]

(* The message at the head of box b, with q in the box, goes to thread t.  *)
recvmsg(b, t, q, P) ==
  /\ param' = [P EXCEPT ![t] = Head(q)]
  /\ msgs' = [msgs EXCEPT ![b] = Tail(q)]
  /\ receiver' = [receiver EXCEPT ![b] = NULL]

(* A faulty variant: the receiver gets the message but is not requeued. *)
thread_sendNoRequeue(Q, P, m, b) ==
  LET queued == Append(msgs[b], m)
  IN  \/ /\ receiver[b] = NULL
         /\ msgs' = [msgs EXCEPT ![b] = queued]
         /\ free' = [free EXCEPT ![MsgPool] = @ - 1]
         /\ rq' = Q
         /\ param' = P
         /\ UNCHANGED receiver
      \/ /\ receiver[b] # NULL
         /\ recvmsg(b, receiver[b], queued, P)
         /\ rq' = Q
         /\ UNCHANGED free

(* thread_send() with the caller requeued in Q and parameter blocks P: the *)
(* message is queued, and handed on at once to a registered receiver.  The *)
(* block of the message is freed by recvmsg().                             *)
thread_send(Q, P, m, b) ==
  LET queued == Append(msgs[b], m)
  IN  \/ /\ receiver[b] = NULL
         /\ msgs' = [msgs EXCEPT ![b] = queued]
         /\ free' = [free EXCEPT ![MsgPool] = @ - 1]
         /\ rq' = Q
         /\ param' = P
         /\ UNCHANGED receiver
      \/ /\ receiver[b] # NULL
         /\ recvmsg(b, receiver[b], queued, P)
         /\ rq' = putcurrent(Q, priority, receiver[b])
         /\ UNCHANGED free

kz_send(b, x) ==
  /\ kz_syscall("OTHER")
  /\ \/ /\ HasBlock(MsgPool)
        /\ thread_send(Requeued, NewParam, [sender |-> current, p |-> x], b)
        /\ schedule
     \/ /\ ~HasBlock(MsgPool)
        /\ rq' = Requeued
        /\ param' = NewParam
        /\ kz_sysdown
        /\ UNCHANGED <<boxVars, free>>
  /\ UNCHANGED <<tcbVars, held, handler>>

(* Faulty variants: the caller waits without a look at the messages; the   *)
(* block of a received message is not freed.                               *)
thread_recvBlind(b) ==
  /\ kz_syscall("RECV")
  /\ receiver[b] = NULL
  /\ receiver' = [receiver EXCEPT ![b] = current]
  /\ rq' = Taken
  /\ param' = NewParam
  /\ schedule
  /\ UNCHANGED <<msgs, memVars, tcbVars, handler>>

thread_recvLeaks(b) ==
  /\ kz_syscall("RECV")
  /\ receiver[b] = NULL
  /\ msgs[b] # <<>>
  /\ recvmsg(b, current, msgs[b], NewParam)
  /\ rq' = Requeued
  /\ schedule
  /\ UNCHANGED <<tcbVars, memVars, handler>>

thread_recv(b) ==
  /\ kz_syscall("RECV")
  /\ \/ /\ receiver[b] # NULL             \* somebody else waits already
        /\ rq' = Taken
        /\ param' = NewParam
        /\ kz_sysdown
        /\ UNCHANGED <<boxVars, free>>
     \/ /\ receiver[b] = NULL
        /\ msgs[b] = <<>>
        /\ receiver' = [receiver EXCEPT ![b] = current]
        /\ rq' = Taken
        /\ param' = NewParam
        /\ schedule
        /\ UNCHANGED <<msgs, free>>
     \/ /\ receiver[b] = NULL
        /\ msgs[b] # <<>>
        /\ recvmsg(b, current, msgs[b], NewParam)
        /\ free' = [free EXCEPT ![MsgPool] = @ + 1]
        /\ rq' = Requeued
        /\ schedule
  /\ UNCHANGED <<tcbVars, held, handler>>
-------------------------------------------------------------------------------
(***************************************************************************)
(* Interrupts.                                                             *)
(***************************************************************************)
thread_setintr ==
  /\ kz_syscall("OTHER")
  /\ handler' = TRUE
  /\ rq' = Requeued
  /\ param' = NewParam
  /\ schedule
  /\ UNCHANGED <<tcbVars, boxVars, memVars>>

INTR_ENABLE ==
  /\ mode = "user"
  /\ current \in live
  /\ masked' = masked \ {current}
  /\ UNCHANGED <<current, rq, live, priority, stacks, userVars, boxVars,
                 memVars, handler, mode>>

INTR_DISABLE ==
  /\ mode = "user"
  /\ current \in live
  /\ masked' = masked \cup {current}
  /\ UNCHANGED <<current, rq, live, priority, stacks, userVars, boxVars,
                 memVars, handler, mode>>

(* A serial interrupt stops the running thread and enters the handler.     *)
(* Without a handler interrupt() returns and nothing has happened.         *)
thread_intr ==
  /\ mode = "user"
  /\ current \in live \ masked
  /\ handler
  /\ mode' = "intr"
  /\ UNCHANGED <<current, rq, tcbVars, userVars, boxVars, memVars, handler>>

(* A faulty variant: schedule() is not called. *)
intr_endNoSchedule ==
  /\ mode = "intr"
  /\ mode' = "user"
  /\ UNCHANGED <<current, rq, tcbVars, userVars, boxVars, memVars, handler>>

intr_end ==
  /\ mode = "intr"
  /\ rq' = rq
  /\ schedule
  /\ UNCHANGED <<tcbVars, userVars, boxVars, memVars, handler>>

(* srvcall_proc() sets current to NULL: the functions of the calls then    *)
(* requeue nobody and name nobody as the sender.                           *)
kx_wakeup(t) ==
  /\ mode = "intr"
  /\ t \in Wakeable
  /\ rq' = putcurrent(rq, priority, t)
  /\ current' = t
  /\ UNCHANGED <<tcbVars, userVars, boxVars, memVars, handler, mode>>

kx_kmalloc(k) ==
  /\ mode = "intr"
  /\ current' = NULL
  /\ \/ HasBlock(k) /\ AllocateHeld(k) /\ mode' = mode
     \/ ~HasBlock(k) /\ mode' = "down" /\ UNCHANGED memVars
  /\ UNCHANGED <<rq, tcbVars, userVars, boxVars, handler>>

kx_kmfree(k) ==
  /\ mode = "intr"
  /\ FreeHeld(k)
  /\ current' = NULL
  /\ UNCHANGED <<rq, tcbVars, userVars, boxVars, handler, mode>>

kx_send(b, x) ==
  /\ mode = "intr"
  /\ \/ /\ HasBlock(MsgPool)
        /\ thread_send(rq, param, [sender |-> NULL, p |-> x], b)
        /\ current' = receiver[b]       \* the receiver, or still NULL
        /\ mode' = mode
     \/ /\ ~HasBlock(MsgPool)
        /\ current' = NULL
        /\ mode' = "down"
        /\ UNCHANGED <<rq, param, boxVars, free>>
  /\ UNCHANGED <<call, tcbVars, held, handler>>
-------------------------------------------------------------------------------
ThreadStep ==
  \/ \E p \in Priority : thread_run(p)
  \/ thread_exit
  \/ softerr_intr
  \/ thread_wait
  \/ thread_getid
  \/ thread_sleep
  \/ \E t \in Thread : thread_wakeup(t)
  \/ \E p \in Priority \cup {-1} : thread_chpri(p)
  \/ \E k \in Pool \cup {NULL} : thread_kzmalloc(k)
  \/ \E k \in Pool : thread_kmfree(k)
  \/ \E b \in MsgBox, x \in Payload : kz_send(b, x)
  \/ \E b \in MsgBox : thread_recv(b)
  \/ thread_setintr
  \/ INTR_ENABLE
  \/ INTR_DISABLE

HandlerStep ==
  \/ thread_intr
  \/ \E t \in Thread : kx_wakeup(t)
  \/ \E k \in Pool \cup {NULL} : kx_kmalloc(k)
  \/ \E k \in Pool : kx_kmfree(k)
  \/ \E b \in MsgBox, x \in Payload : kx_send(b, x)
  \/ intr_end

Next == ThreadStep \/ HandlerStep

Spec == Init /\ [][Next]_vars
-------------------------------------------------------------------------------
(***************************************************************************)
(* What makes the kernel correct.                                          *)
(***************************************************************************)
(* The lists and the READY bits agree in every state a thread or a handler *)
(* can see: getcurrent() cuts the list behind "current" without looking    *)
(* who stands in front of it, so one step that leaves current anywhere     *)
(* but at the head would drop threads from the queue for good.             *)
ReadyQueueConsistent == Consistent(rq, priority)

(* While a thread runs it is the first of its queue, and no thread of a    *)
(* higher priority is ready: wake-ups by threads, deliveries and handlers  *)
(* always end in a schedule() that sees them.                              *)
RunsFirst == mode = "user" => IsFirst(rq, priority, current)

(* Only threads in use are ready, so dispatch() never gets a cleared TCB.  *)
ReadyAreLive == rq.ready \subseteq live

(* A registered receiver is a thread that waits for that message and for   *)
(* nothing else: it is off the ready queues, inside kz_recv(), and in one  *)
(* message box only, so param is the block its kz_recv() reads.            *)
ReceiverWaits ==
  \A b \in MsgBox : receiver[b] # NULL =>
    /\ receiver[b] \in live \ rq.ready
    /\ call[receiver[b]] = "RECV"
    /\ \A c \in MsgBox : receiver[c] = receiver[b] => c = b

(* No lost wake-up: nobody waits at a message box that holds a message.    *)
NoMissedMessage ==
  \A b \in MsgBox : receiver[b] # NULL => msgs[b] = <<>>

(* A live thread off the ready queues is asleep by its own wish, waits in  *)
(* kz_recv(), or is the caller of a kz_run() that found no free TCB.       *)
WaitingIsKnown ==
  mode # "down" => \A t \in live \ rq.ready :
    \/ call[t] \in {"SLEEP", "RUN"}
    \/ call[t] = "RECV" /\ \E b \in MsgBox : receiver[b] = t

(* Every block of the pools is free, held by a thread or a handler, or     *)
(* holds a queued message: no path through send and receive, with or       *)
(* without a waiting receiver, loses a block or frees one twice.           *)
BlocksConserved ==
  \A k \in Pool :
    free[k] + held[k] + (IF k = MsgPool
                         THEN MapThenSumSet(LAMBDA b : Len(msgs[b]), MsgBox)
                         ELSE 0) = BlockNum[k]

(* The place of thread t in the ready queue of its priority. *)
Place(Q, prio, t) ==
  CHOOSE i \in 1 .. Len(Q.que[prio[t]]) : Q.que[prio[t]][i] = t

(* Round robin inside a priority: a thread that stays ready never falls    *)
(* behind, whatever other threads and handlers do; only the running        *)
(* thread's own call sends it to the back.  A thread that is interrupted   *)
(* keeps its place, and goes on unless a higher priority became ready.     *)
NoOvertaking ==
  [][\A t \in rq.ready \cap rq'.ready :
       mode = "intr" \/ t # current =>
         Place(rq', priority', t) <= Place(rq, priority, t)]_vars

(* The message boxes keep the promise of module Mailbox. *)
MB == INSTANCE Mailbox WITH box <- msgs, waiting <- receiver, got <- param

ImplementsMailbox == MB!Spec

(* A thread that called kz_run() gets its answer: it is ready again when   *)
(* the call is over, whether a thread could be created or not.             *)
RunReturns ==
  mode # "down" => \A t \in live \ rq.ready : call[t] # "RUN"
===============================================================================
