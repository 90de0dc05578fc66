------------------------------- MODULE Mailbox -------------------------------
(***************************************************************************)
(* What kz_send(), kx_send() and kz_recv() promise to the threads that use *)
(* a message box, without a word on how the kernel schedules them: a box   *)
(* is a first-in first-out channel of messages.  A thread that receives    *)
(* gets the oldest message at once, or waits, alone, and gets the very     *)
(* next message that is sent; until then nothing happens to it.  Every     *)
(* message is got by exactly one receive.                                  *)
(***************************************************************************)
EXTENDS Sequences

CONSTANTS Thread, MsgBox, Message, NULL

VARIABLES
  box,      \* the messages of every box that nobody has received, oldest first
  waiting,  \* the thread that waits at every box, or NULL
  got       \* what the kz_recv() a thread is in, or just left, gave it

vars == <<box, waiting, got>>

Init ==
  /\ box = [b \in MsgBox |-> <<>>]
  /\ waiting = [b \in MsgBox |-> NULL]
  /\ got = [t \in Thread |-> NULL]

IsWaiting(t) == \E b \in MsgBox : waiting[b] = t

(* A thread that does not wait may forget what it got; only r gets a message. *)
OnlyGets(r) ==
  \A t \in Thread \ {r} :
    got'[t] = got[t] \/ (got'[t] = NULL /\ ~IsWaiting(t))

Keep(b, m) ==
  /\ waiting[b] = NULL
  /\ box' = [box EXCEPT ![b] = Append(@, m)]
  /\ OnlyGets(NULL)
  /\ UNCHANGED waiting

HandOver(b, m) ==
  /\ waiting[b] # NULL
  /\ box[b] = <<>>
  /\ got'[waiting[b]] = m
  /\ OnlyGets(waiting[b])
  /\ waiting' = [waiting EXCEPT ![b] = NULL]
  /\ UNCHANGED box

Send(b, m) == Keep(b, m) \/ HandOver(b, m)

Receive(b, t) ==
  /\ waiting[b] = NULL
  /\ ~IsWaiting(t)
  /\ box[b] # <<>>
  /\ got'[t] = Head(box[b])
  /\ OnlyGets(t)
  /\ box' = [box EXCEPT ![b] = Tail(@)]
  /\ UNCHANGED waiting

Wait(b, t) ==
  /\ waiting[b] = NULL
  /\ ~IsWaiting(t)
  /\ box[b] = <<>>
  /\ got'[t] = NULL
  /\ OnlyGets(t)
  /\ waiting' = [waiting EXCEPT ![b] = t]
  /\ UNCHANGED box

Forget == OnlyGets(NULL) /\ UNCHANGED <<box, waiting>>

Next ==
  \/ \E b \in MsgBox, m \in Message : Send(b, m)
  \/ \E b \in MsgBox, t \in Thread : Receive(b, t) \/ Wait(b, t)
  \/ Forget

Spec == Init /\ [][Next]_vars
===============================================================================
