----------------------------- MODULE ConsoleProofs -----------------------------
(***************************************************************************)
(* The console, for any texts, lines and limits: the handler never         *)
(* interrupts its thread inside send_string() or send_char(), the output   *)
(* does not stall, every step is a step of the kernel, the lines arrive    *)
(* whole and in order, and no block leaks.  For a typist who waits until   *)
(* everything is printed: the system never goes down, what he reads is the *)
(* transcript, and the send buffer holds it.                               *)
(***************************************************************************)
EXTENDS Console, KozosProofs, FunctionTheorems

(* The places of consdrv_main() between INTR_DISABLE and INTR_ENABLE. *)
Masked == {"copy", "kick", "unmask"}

(* There the thread has the processor, and interrupts are masked: no call  *)
(* of the kernel can take it away.                                         *)
MaskInv ==
  /\ DOMAIN pc = {Idle, Consdrv, Command}
  /\ pc[Consdrv] \in Masked =>
       mode = "user" /\ current = Consdrv /\ Consdrv \in masked

LEMMA MaskInit == ConsInit => MaskInv
<1> SUFFICES ASSUME ConsInit PROVE MaskInv
  OBVIOUS
<1>1. /\ DOMAIN pc = {Idle, Consdrv, Command}
      /\ pc[Consdrv] = "setintr"
  BY DEF ConsInit, Idle, Consdrv, Command
<1> QED BY <1>1 DEF MaskInv, Masked

(* A step of another thread: it does not have the processor while consdrv  *)
(* is in there, and does not move it.                                      *)
LEMMA OthersStep ==
  ASSUME MaskInv, NEW t \in {Idle, Command}, NEW l, NEW m, Moves(t, l, m)
  PROVE  MaskInv'
<1>1. t # Consdrv /\ current = t
  BY DEF Idle, Command, Consdrv, Moves
<1>2. DOMAIN pc' = DOMAIN pc /\ pc'[Consdrv] = pc[Consdrv]
  BY <1>1 DEF Moves
<1>3. pc[Consdrv] \notin Masked
  BY <1>1 DEF MaskInv
<1> QED BY <1>2, <1>3 DEF MaskInv

(* A step of consdrv to a place outside. *)
LEMMA LeavesStep ==
  ASSUME MaskInv, NEW l, NEW m, m \notin Masked, Moves(Consdrv, l, m)
  PROVE  MaskInv'
<1>1. DOMAIN pc' = DOMAIN pc /\ pc'[Consdrv] = m
  BY DEF MaskInv, Moves
<1> QED BY <1>1 DEF MaskInv

LEMMA ConsdrvStep == MaskInv /\ consdrv_main => MaskInv'
<1> SUFFICES ASSUME MaskInv, consdrv_main PROVE MaskInv'
  OBVIOUS
<1>1. CASE consdrv_init \/ consdrv_recv \/ consdrv_use \/ consdrv_free
  <2>1. \E l, m : m \notin Masked /\ Moves(Consdrv, l, m)
    <3>1. {"recv", "got", "send_buf", "recv_buf", "serial_init", "free"} \cap Masked = {}
      BY DEF Masked
    <3> QED BY <1>1, <3>1 DEF consdrv_init, consdrv_recv, consdrv_use, consdrv_free
  <2> QED BY <2>1, LeavesStep
<1>2. CASE consdrv_mask
  BY <1>2 DEF consdrv_mask, INTR_DISABLE, Moves, MaskInv
<1>3. CASE consdrv_write
  <2>1. CASE \E m \in Masked : Moves(Consdrv, "copy", m) \/ Moves(Consdrv, "kick", m)
    <3>1. Computes
      BY <2>1, <1>3 DEF consdrv_write, Moves
    <3>2. pc[Consdrv] \in Masked /\ DOMAIN pc' = DOMAIN pc
      BY <2>1 DEF Moves, Masked
    <3> QED BY <3>1, <3>2 DEF MaskInv, Computes, vars, tcbVars
  <2>2. CASE Moves(Consdrv, "unmask", "free")
    BY <2>2, LeavesStep DEF Masked
  <2> QED BY <1>3, <2>1, <2>2 DEF consdrv_write, Masked
<1> QED BY <1>1, <1>2, <1>3 DEF consdrv_main

LEMMA CommandStep ==
  ASSUME MaskInv, command_main \/ start_threads \/ idle_sleep
  PROVE  MaskInv'
<1>1. \E t \in {Idle, Command} : \E l, m : Moves(t, l, m)
  BY DEF command_main, send_use, send_write, command_recv, command_got, command_free,
         start_threads, idle_sleep
<1> QED BY <1>1, OthersStep

(* The handler is not running while consdrv is in there, nor can it start, *)
(* and it does not move a thread.                                          *)
LEMMA HandlerStepKeeps ==
  ASSUME MaskInv, serial_intr \/ consdrv_intrproc
  PROVE  MaskInv'
<1>1. pc' = pc
  BY DEF serial_intr, consdrv_intrproc, intr_recv, intr_kick, intr_store, intr_post,
         intr_send, intr_return, threadVars
<1>2. mode = "intr" \/ current \notin masked
  BY DEF serial_intr, thread_intr, consdrv_intrproc, intr_recv, intr_kick, intr_store,
         intr_post, intr_send, intr_return, intr_end, HandlerMoves
<1>3. pc[Consdrv] \notin Masked
  BY <1>2 DEF MaskInv
<1> QED BY <1>1, <1>3 DEF MaskInv

LEMMA MaskNext == MaskInv /\ [ConsNext]_cvars => MaskInv'
<1> SUFFICES ASSUME MaskInv, [ConsNext]_cvars PROVE MaskInv'
  OBVIOUS
<1>1. CASE Processor
  BY <1>1, ConsdrvStep, CommandStep, HandlerStepKeeps DEF Processor
<1>2. CASE Transmit \/ Type
  BY <1>2 DEF Transmit, Type, vars, tcbVars, threadVars, MaskInv
<1>3. CASE UNCHANGED cvars
  BY <1>3 DEF cvars, vars, tcbVars, threadVars, MaskInv
<1> QED BY <1>1, <1>2, <1>3 DEF ConsNext

(* send_string() and send_char() are not reentrant, and are not reentered: *)
(* no interrupt comes between INTR_DISABLE and INTR_ENABLE, whatever the   *)
(* other threads do and however fast somebody types.                       *)
THEOREM SendBufferIsExclusive == ConsSpec => []NotReentered
<1>1. MaskInv => NotReentered
  BY DEF MaskInv, Masked, NotReentered
<1> QED BY MaskInit, MaskNext, <1>1, PTL DEF ConsSpec

-------------------------------------------------------------------------------
(***************************************************************************)
(* The output does not stall.  OutputMoves needs that who is about to send *)
(* the first character has enabled the transmit interrupt, and that nobody *)
(* disables it before he does.                                             *)
(***************************************************************************)
TieInv ==
  /\ send_buf # <<>> => tie
  /\ pc[Consdrv] = "kick" => tie
  /\ hpc = "kick" => tie /\ mode # "user"

LEMMA TieInit == ConsInit => TieInv
<1> SUFFICES ASSUME ConsInit PROVE TieInv
  OBVIOUS
<1>1. pc[Consdrv] = "setintr"
  BY DEF ConsInit, Idle, Consdrv, Command
<1> QED BY <1>1 DEF ConsInit, TieInv

(* send_string() enables the interrupt, if there is something to send.     *)
LEMMA StringEnables ==
  ASSUME NEW str, send_string(str)
  PROVE  /\ send_buf' # <<>> => tie'
         /\ Kicks(str) => tie'
         /\ tie => tie'
BY DEF send_string, Kicks

(* A thread that leaves the buffer and the interrupt alone.                *)
LEMMA TieUntouched ==
  ASSUME MaskInv, TieInv, mode = "user",
         UNCHANGED <<send_buf, tie, hpc>>,
         pc'[Consdrv] = "kick" => pc[Consdrv] = "kick"
  PROVE  TieInv'
BY DEF TieInv

LEMMA CommandKeepsTie ==
  ASSUME MaskInv, TieInv, command_main \/ start_threads \/ idle_sleep
  PROVE  TieInv'
<1>1. UNCHANGED <<send_buf, tie, hpc>>
  BY DEF command_main, send_use, send_write, command_recv, command_got, command_free,
         start_threads, idle_sleep, consVars, devVars, handlerVars
<1>2. mode = "user"
  BY DEF command_main, send_use, send_write, command_recv, command_got, command_free,
         start_threads, idle_sleep, Computes, thread_run, thread_chpri, INTR_ENABLE,
         thread_kzmalloc, kz_send, thread_recv, thread_kmfree, kz_syscall
<1>3. \E t \in {Idle, Command} : \E l, m : Moves(t, l, m)
  BY DEF command_main, send_use, send_write, command_recv, command_got, command_free,
         start_threads, idle_sleep
<1>4. pc'[Consdrv] = pc[Consdrv]
  BY <1>3 DEF Moves, Idle, Command, Consdrv
<1> QED BY <1>1, <1>2, <1>4, TieUntouched

LEMMA ConsdrvKeepsTie ==
  ASSUME MaskInv, TieInv, consdrv_main
  PROVE  TieInv'
<1> DEFINE To(m) == pc'[Consdrv] = m
<1>1. ASSUME NEW l, NEW m, Moves(Consdrv, l, m)
      PROVE  pc[Consdrv] = l /\ To(m)
  BY <1>1 DEF Moves, MaskInv
<1>2. mode = "user" /\ hpc' = hpc
  BY DEF consdrv_main, consdrv_init, consdrv_recv, consdrv_use, consdrv_mask,
         consdrv_write, consdrv_free, Computes, INTR_DISABLE, INTR_ENABLE,
         thread_setintr, thread_recv, thread_kzmalloc, thread_kmfree, kz_syscall,
         handlerVars
<1>3. CASE consdrv_init
  <2>1. Moves(Consdrv, "setintr", "recv") /\ send_buf' = <<>>
    BY <1>3 DEF consdrv_init
  <2> QED BY <1>1, <1>2, <2>1 DEF TieInv
<1>4. CASE consdrv_recv \/ consdrv_mask \/ consdrv_free
  <2>1. UNCHANGED <<send_buf, tie>>
    BY <1>4 DEF consdrv_recv, consdrv_mask, consdrv_free, consVars, devVars
  <2>2. \E l, m : m # "kick" /\ Moves(Consdrv, l, m)
    <3>1. CASE consdrv_recv
      BY <3>1 DEF consdrv_recv
    <3>2. CASE consdrv_mask
      BY <3>2 DEF consdrv_mask
    <3>3. CASE consdrv_free
      BY <3>3 DEF consdrv_free
    <3> QED BY <1>4, <3>1, <3>2, <3>3
  <2> QED BY <1>1, <1>2, <2>1, <2>2, TieUntouched
<1>5. CASE consdrv_use
  <2>1. \E l, m : m # "kick" /\ Moves(Consdrv, l, m)
    BY <1>5 DEF consdrv_use
  <2>2. UNCHANGED <<send_buf, tie>> \/ send_buf' = <<>>
    BY <1>5 DEF consdrv_use, consVars, devVars
  <2> QED BY <1>1, <1>2, <2>1, <2>2 DEF TieInv
<1>6. CASE consdrv_write
  <2>1. CASE /\ Moves(Consdrv, "copy", IF Kicks(req.str) THEN "kick" ELSE "unmask")
             /\ Computes
             /\ send_string(req.str)
    <3>1. hpc' = hpc /\ mode' = mode
      BY <1>2, <2>1 DEF Computes, vars
    <3>2. pc'[Consdrv] = "kick" => Kicks(req.str)
      BY <1>1, <2>1
    <3> QED BY <1>2, <2>1, <3>1, <3>2, StringEnables DEF TieInv
  <2>2. CASE Moves(Consdrv, "kick", "unmask") /\ tie' = tie
    <3>1. tie
      BY <1>1, <2>2 DEF TieInv
    <3> QED BY <1>1, <1>2, <2>2, <3>1 DEF TieInv
  <2>3. CASE Moves(Consdrv, "unmask", "free") /\ UNCHANGED <<send_buf, tie>>
    BY <1>1, <1>2, <2>3, TieUntouched
  <2> QED BY <1>6, <2>1, <2>2, <2>3 DEF consdrv_write
<1> QED BY <1>3, <1>4, <1>5, <1>6 DEF consdrv_main

(* The handler disables the interrupt only when it has seen the buffer     *)
(* empty; consdrv is not about to send then.                               *)
LEMMA HandlerKeepsTie ==
  ASSUME MaskInv, TieInv, serial_intr \/ consdrv_intrproc
  PROVE  TieInv'
<1>1. pc' = pc
  BY DEF serial_intr, consdrv_intrproc, intr_recv, intr_kick, intr_store, intr_post,
         intr_send, intr_return, threadVars
<1>2. CASE serial_intr
  BY <1>1, <1>2 DEF serial_intr, TieInv, consVars, devVars
<1>3. ASSUME mode = "intr" PROVE pc[Consdrv] # "kick"
  BY <1>3 DEF MaskInv, Masked
<1>4. CASE intr_recv
  <2>1. mode = "intr" /\ mode' = mode
    BY <1>4 DEF intr_recv, HandlerMoves, vars
  <2>2. CASE hpc' # "kick" /\ UNCHANGED <<send_buf, tie>>
    BY <1>1, <2>2 DEF TieInv
  <2>3. CASE /\ hpc' = (IF Kicks(<<ch'>>) THEN "kick" ELSE "store")
             /\ send_string(<<ch'>>)
    <3>1. hpc' = "kick" => Kicks(<<ch'>>)
      BY <2>3
    <3> QED BY <1>1, <1>3, <2>1, <2>3, <3>1, StringEnables DEF TieInv
  <2> QED BY <1>4, <2>2, <2>3 DEF intr_recv, HandlerMoves
<1>5. CASE intr_kick
  BY <1>1, <1>5 DEF intr_kick, HandlerMoves, TieInv
<1>6. CASE intr_store \/ intr_post \/ intr_return
  <2>1. hpc' # "kick" /\ UNCHANGED <<send_buf, tie>>
    BY <1>6 DEF intr_store, intr_post, intr_return, HandlerMoves, handlerVars, consVars,
                devVars
  <2> QED BY <1>1, <2>1 DEF TieInv
<1>7. CASE intr_send
  <2>1. mode = "intr" /\ hpc' = "end"
    BY <1>7 DEF intr_send, HandlerMoves
  <2>2. \/ send_buf = <<>> /\ send_buf' = send_buf
        \/ send_buf # <<>> /\ tie' = tie
        \/ UNCHANGED <<send_buf, tie>>
    BY <1>7 DEF intr_send
  <2> QED BY <1>1, <1>3, <2>1, <2>2 DEF TieInv
<1> QED BY <1>2, <1>4, <1>5, <1>6, <1>7 DEF consdrv_intrproc

LEMMA TieStep == MaskInv /\ TieInv /\ [ConsNext]_cvars => TieInv'
<1> SUFFICES ASSUME MaskInv, TieInv, [ConsNext]_cvars PROVE TieInv'
  OBVIOUS
<1>1. CASE Processor
  BY <1>1, ConsdrvKeepsTie, CommandKeepsTie, HandlerKeepsTie DEF Processor
<1>2. CASE Transmit \/ Type \/ UNCHANGED cvars
  BY <1>2 DEF Transmit, Type, cvars, vars, threadVars, consVars, devVars, handlerVars,
              TieInv
<1> QED BY <1>1, <1>2 DEF ConsNext

(* Characters in the send buffer never wait for an interrupt that is       *)
(* disabled, although the handler disables it and the thread enables it at *)
(* any time, whatever is written and however fast somebody types.          *)
THEOREM OutputNeverStalls == ConsSpec => []OutputMoves
<1>1. TieInv => OutputMoves
  BY DEF TieInv, OutputMoves
<1> QED BY MaskInit, MaskNext, TieInit, TieStep, <1>1, PTL DEF ConsSpec

-------------------------------------------------------------------------------
(***************************************************************************)
(* The messages on their way to a thread t that receives from box b: the   *)
(* one it has been given and not yet taken, and those in the box.          *)
(***************************************************************************)
Flow(b, t) ==
  IF pc[t] = "got" /\ param[t] # NULL THEN <<param[t]>> \o msgs[b] ELSE msgs[b]

Running == mode # "down"

(* Thread t alone receives from box b: it waits there, or it has a message *)
(* as soon as its kz_recv() returns.                                       *)
BoxInv(b, t) ==
  /\ receiver[b] \in {NULL, t}
  /\ receiver[b] = t => pc[t] = "got" /\ param[t] = NULL
  /\ Running /\ pc[t] = "got" /\ receiver[b] = NULL => param[t] # NULL

(* A sequence with one more element in front.                              *)
LEMMA HeadTailOfPair ==
  ASSUME NEW S, NEW x \in S, NEW s \in Seq(S)
  PROVE  /\ <<x>> \o s \in Seq(S) /\ <<x>> \o s # <<>>
         /\ Head(<<x>> \o s) = x /\ Tail(<<x>> \o s) = s
<1> DEFINE p == <<x>>
           q == p \o s
<1>1. p \in Seq(S) /\ Len(p) = 1 /\ p[1] = x
  OBVIOUS
<1>2. /\ q \in Seq(S) /\ Len(q) = 1 + Len(s)
      /\ \A i \in 1 .. 1 + Len(s) : q[i] = IF i <= 1 THEN p[i] ELSE s[i - 1]
  <2> HIDE DEF p
  <2>1. /\ q \in Seq(S) /\ Len(q) = Len(p) + Len(s)
        /\ \A i \in 1 .. Len(p) + Len(s) :
             q[i] = IF i <= Len(p) THEN p[i] ELSE s[i - Len(p)]
    BY <1>1, ConcatProperties, Zenon
  <2>2. QED
    BY <1>1, <2>1
<1> HIDE DEF p, q
<1>3. q # <<>> /\ q[1] = x /\ Len(s) \in Nat
  BY <1>1, <1>2, LenProperties
<1>4. Head(q) = x
  BY <1>2, <1>3
<1>5. Tail(q) = s
  <2>1. /\ Tail(q) \in Seq(S) /\ Len(Tail(q)) = Len(s)
        /\ \A i \in 1 .. Len(Tail(q)) : Tail(q)[i] = q[i + 1]
    BY <1>2, <1>3, HeadTailProperties
  <2>2. \A i \in 1 .. Len(s) : q[i + 1] = s[i]
    <3> SUFFICES ASSUME NEW i \in 1 .. Len(s) PROVE q[i + 1] = s[i]
      OBVIOUS
    <3>1. PICK k : k = i + 1
      OBVIOUS
    <3>2. k \in 1 .. 1 + Len(s) /\ ~(k <= 1) /\ k - 1 = i
      BY <1>3, <3>1
    <3>3. QED
      BY <1>2, <3>1, <3>2
  <2>3. QED
    BY <2>1, <2>2, SeqEqual
<1>6. QED
  BY <1>2, <1>3, <1>4, <1>5 DEF p, q

LEMMA PairOfHeadTail ==
  ASSUME NEW S, NEW s \in Seq(S), s # <<>>
  PROVE  s = <<Head(s)>> \o Tail(s)
<1>1. Head(s) \in S /\ Tail(s) \in Seq(S) /\ Len(Tail(s)) = Len(s) - 1
      /\ \A i \in 1 .. Len(Tail(s)) : Tail(s)[i] = s[i + 1]
  BY HeadTailProperties
<1> DEFINE q == <<Head(s)>> \o Tail(s)
<1>2. q \in Seq(S) /\ q # <<>> /\ Head(q) = Head(s) /\ Tail(q) = Tail(s)
  BY <1>1, HeadTailOfPair
<1> HIDE DEF q
<1>3. Len(Tail(q)) = Len(q) - 1 /\ \A i \in 1 .. Len(Tail(q)) : Tail(q)[i] = q[i + 1]
  BY <1>2, HeadTailProperties
<1>4. Len(s) \in Nat /\ Len(q) \in Nat
  BY <1>2, LenProperties
<1>5. Len(q) = Len(s)
  <2>1. Len(q) - 1 = Len(s) - 1
    BY <1>1, <1>2, <1>3, Zenon
  <2>2. QED
    BY <1>4, <2>1
<1>6. \A i \in 1 .. Len(q) : q[i] = s[i]
  <2> SUFFICES ASSUME NEW i \in 1 .. Len(q) PROVE q[i] = s[i]
    OBVIOUS
  <2>1. CASE i = 1
    BY <1>2, <2>1
  <2>2. CASE i # 1
    <3>1. PICK k \in 1 .. Len(Tail(q)) : i = k + 1
      BY <1>3, <1>4, <2>2
    <3>2. QED
      BY <1>1, <1>2, <1>3, <3>1
  <2>3. QED
    BY <2>1, <2>2
<1>7. q = s
  BY <1>2, <1>5, <1>6, SeqEqual
<1>8. QED
  BY <1>7 DEF q

LEMMA AppendToPair ==
  ASSUME NEW S, NEW x \in S, NEW s \in Seq(S), NEW m \in S
  PROVE  <<x>> \o Append(s, m) = Append(<<x>> \o s, m)
<1> DEFINE p == <<x>>
           e == <<m>>
<1>1. p \in Seq(S) /\ e \in Seq(S)
  OBVIOUS
<1>2. p \o s \in Seq(S)
  BY HeadTailOfPair
<1> HIDE DEF p
<1>3. Append(s, m) = s \o e /\ Append(p \o s, m) = (p \o s) \o e
  BY <1>2, AppendIsConcat
<1> HIDE DEF e
<1>4. (p \o s) \o e = p \o (s \o e)
  BY <1>1
<1>5. QED
  BY <1>3, <1>4 DEF p

LEMMA ThreadsOfConsole ==
  /\ {Idle, Consdrv, Command} \subseteq Thread
  /\ Idle # Consdrv /\ Idle # Command /\ Consdrv # Command
  /\ NULL \notin Thread
BY TableAssumption, ConsoleAssumption, NullIsNoThread DEF Thread, Idle, Consdrv, Command

LEMMA FlowType ==
  ASSUME TypeOK, NEW b \in MsgBox, NEW t \in Thread
  PROVE  /\ msgs[b] \in Seq(Message)
         /\ param[t] # NULL => param[t] \in Message
         /\ Flow(b, t) \in Seq(Message)
<1>1. msgs[b] \in Seq(Message) /\ param[t] \in Message \cup {NULL}
  BY DEF TypeOK, Received
<1>2. ASSUME param[t] # NULL PROVE <<param[t]>> \o msgs[b] \in Seq(Message)
  <2>1. <<param[t]>> \in Seq(Message)
    BY <1>1, <1>2
  <2>2. QED
    BY <1>1, <2>1, ConcatProperties, Zenon
<1>3. QED
  BY <1>1, <1>2 DEF Flow

(* A step that leaves the box alone, and t where it is or away from "got". *)
LEMMA FlowStays ==
  ASSUME NEW b \in MsgBox, NEW t \in Thread, BoxInv(b, t),
         receiver'[b] = receiver[b], msgs'[b] = msgs[b], Running' => Running,
         \/ pc'[t] = pc[t] /\ (pc[t] = "got" => param'[t] = param[t])
         \/ pc[t] # "got" /\ pc'[t] # "got"
  PROVE  BoxInv(b, t)' /\ Flow(b, t)' = Flow(b, t)
BY DEF BoxInv, Flow

(* t takes the message it was given. *)
LEMMA FlowIsTaken ==
  ASSUME IInv, NEW b \in MsgBox, NEW t \in Thread, BoxInv(b, t),
         mode = "user", current = t, pc[t] = "got", pc'[t] # "got",
         UNCHANGED <<receiver, msgs>>
  PROVE  /\ BoxInv(b, t)'
         /\ param[t] \in Message
         /\ Flow(b, t) # <<>> /\ Head(Flow(b, t)) = param[t]
         /\ Flow(b, t)' = Tail(Flow(b, t))
<1>1. receiver[b] # t
  BY CallerIsLive
<1>2. receiver[b] = NULL /\ param[t] # NULL
  BY <1>1 DEF BoxInv, Running
<1>3. msgs[b] \in Seq(Message) /\ param[t] \in Message
  BY <1>2, FlowType DEF IInv
<1>4. Flow(b, t) = <<param[t]>> \o msgs[b] /\ Flow(b, t)' = msgs[b]
  BY <1>2 DEF Flow
<1>5. /\ <<param[t]>> \o msgs[b] # <<>>
      /\ Head(<<param[t]>> \o msgs[b]) = param[t]
      /\ Tail(<<param[t]>> \o msgs[b]) = msgs[b]
  BY <1>3, HeadTailOfPair
<1>6. QED
  BY <1>1, <1>2, <1>3, <1>4, <1>5 DEF BoxInv

(* kz_recv(): a message goes from the box to the thread, or the thread     *)
(* waits.                                                                  *)
LEMMA FlowIsReceived ==
  ASSUME IInv, NEW b \in MsgBox, NEW t \in Thread, BoxInv(b, t),
         current = t, pc[t] = "recv", pc'[t] = "got", thread_recv(b)
  PROVE  /\ BoxInv(b, t)' /\ Flow(b, t)' = Flow(b, t)
         /\ \A c \in MsgBox \ {b} : receiver'[c] = receiver[c] /\ msgs'[c] = msgs[c]
         /\ \A u \in Thread \ {t} : param'[u] = param[u]
<1>0. /\ msgs[b] \in Seq(Message) /\ param \in [Thread -> Received]
      /\ receiver \in [MsgBox -> Thread \cup {NULL}]
      /\ msgs \in [MsgBox -> Seq(Message)]
  BY FlowType DEF IInv, TypeOK
<1>1. mode = "user" /\ receiver[b] # t
  BY CallerIsLive DEF thread_recv, kz_syscall
<1>2. receiver[b] = NULL /\ NULL # t
  BY <1>1, ThreadsOfConsole DEF BoxInv
<1>3. \A u \in Thread \ {t} : NewParam[u] = param[u]
  BY <1>0 DEF NewParam
<1>4. CASE /\ msgs[b] = <<>> /\ receiver' = [receiver EXCEPT ![b] = current]
           /\ param' = NewParam /\ msgs' = msgs
  <2>1. receiver'[b] = t /\ param'[t] = NULL /\ msgs'[b] = msgs[b]
    BY <1>0, <1>4 DEF NewParam
  <2>2. Flow(b, t)' = msgs[b] /\ Flow(b, t) = msgs[b]
    BY <2>1 DEF Flow
  <2>3. BoxInv(b, t)'
    BY <1>2, <2>1 DEF BoxInv
  <2>4. QED
    BY <1>0, <1>3, <1>4, <2>2, <2>3
<1>5. CASE msgs[b] # <<>> /\ recvmsg(b, t, msgs[b], NewParam)
  <2>1. Head(msgs[b]) \in Message /\ msgs[b] = <<Head(msgs[b])>> \o Tail(msgs[b])
    BY <1>0, <1>5, HeadTailProperties, PairOfHeadTail
  <2>2. /\ receiver'[b] = NULL /\ param'[t] = Head(msgs[b])
        /\ msgs'[b] = Tail(msgs[b]) /\ param'[t] # NULL
    BY <1>0, <1>5, <2>1, ConsoleAssumption DEF NewParam, recvmsg
  <2>3. Flow(b, t)' = <<Head(msgs[b])>> \o Tail(msgs[b]) /\ Flow(b, t) = msgs[b]
    BY <2>2 DEF Flow
  <2>4. BoxInv(b, t)'
    BY <1>2, <2>2 DEF BoxInv
  <2>5. \A u \in Thread \ {t} : param'[u] = param[u]
    BY <1>0, <1>3, <1>5 DEF recvmsg, NewParam
  <2>6. \A c \in MsgBox \ {b} : receiver'[c] = receiver[c] /\ msgs'[c] = msgs[c]
    BY <1>0, <1>5 DEF recvmsg
  <2>7. QED
    BY <2>1, <2>3, <2>4, <2>5, <2>6
<1>6. QED
  BY <1>2, <1>4, <1>5 DEF thread_recv

(* A message that is sent goes to the end of the flow.                     *)
LEMMA FlowGrows ==
  ASSUME IInv, NEW b \in MsgBox, NEW t \in Thread, BoxInv(b, t),
         NEW Q, NEW P \in [Thread -> Received], NEW m \in Message,
         P[t] = param[t] \/ pc[t] # "got", pc'[t] = pc[t], thread_send(Q, P, m, b),
         Running' => Running
  PROVE  /\ BoxInv(b, t)' /\ Flow(b, t)' = Append(Flow(b, t), m)
         /\ \A c \in MsgBox \ {b} : receiver'[c] = receiver[c] /\ msgs'[c] = msgs[c]
         /\ \A u \in Thread \ {t} : param'[u] = P[u]
<1>0. /\ msgs[b] \in Seq(Message) /\ param \in [Thread -> Received]
      /\ receiver \in [MsgBox -> Thread \cup {NULL}]
      /\ msgs \in [MsgBox -> Seq(Message)]
      /\ param[t] # NULL => param[t] \in Message
  BY FlowType DEF IInv, TypeOK
<1>1. CASE receiver[b] = NULL
  <2>1. /\ msgs' = [msgs EXCEPT ![b] = Append(msgs[b], m)] /\ receiver' = receiver
        /\ param' = P
    BY <1>1 DEF thread_send
  <2>2. msgs'[b] = Append(msgs[b], m)
    BY <1>0, <2>1
  <2>3. CASE pc[t] = "got" /\ param[t] # NULL
    <3>1. Flow(b, t) = <<param[t]>> \o msgs[b] /\ Flow(b, t)' = <<param[t]>> \o Append(msgs[b], m)
      BY <2>1, <2>2, <2>3 DEF Flow
    <3>2. QED
      BY <1>0, <1>1, <2>1, <2>3, <3>1, AppendToPair DEF BoxInv
  <2>4. CASE ~(pc[t] = "got" /\ param[t] # NULL)
    <3>1. Flow(b, t) = msgs[b] /\ Flow(b, t)' = Append(msgs[b], m)
      BY <2>1, <2>2, <2>4 DEF Flow
    <3>2. BoxInv(b, t)'
      BY <1>1, <2>1, <2>4, ThreadsOfConsole DEF BoxInv
    <3>3. QED
      BY <1>0, <2>1, <3>1, <3>2
  <2>5. QED
    BY <2>3, <2>4
<1>2. CASE receiver[b] # NULL
  <2>1. receiver[b] = t /\ pc[t] = "got" /\ param[t] = NULL /\ msgs[b] = <<>>
    BY <1>2 DEF BoxInv, IInv, WaitInv, NoMissedMessage
  <2>2. recvmsg(b, t, Append(msgs[b], m), P)
    BY <1>2, <2>1 DEF thread_send
  <2>3. Append(msgs[b], m) = <<m>> /\ Head(<<m>>) = m /\ Tail(<<m>>) = <<>>
    BY <2>1
  <2>4. receiver'[b] = NULL /\ param'[t] = m /\ msgs'[b] = <<>> /\ m # NULL
    BY <1>0, <2>2, <2>3, ConsoleAssumption DEF recvmsg
  <2>5. Flow(b, t) = <<>> /\ Flow(b, t)' = <<m>> \o <<>>
    BY <2>1, <2>4 DEF Flow
  <2>6. <<m>> \o <<>> = <<m>> /\ Append(<<>>, m) = <<m>>
    OBVIOUS
  <2>7. BoxInv(b, t)'
    BY <2>1, <2>4, ThreadsOfConsole DEF BoxInv
  <2>8. /\ \A c \in MsgBox \ {b} : receiver'[c] = receiver[c] /\ msgs'[c] = msgs[c]
        /\ \A u \in Thread \ {t} : param'[u] = P[u]
    BY <1>0, <2>2 DEF recvmsg
  <2>9. QED
    BY <2>5, <2>6, <2>7, <2>8
<1>3. QED
  BY <1>1, <1>2

-------------------------------------------------------------------------------
(***************************************************************************)
(* The threads: where they are, when they come to life, and what their     *)
(* steps do to the messages on their way.                                  *)
(***************************************************************************)
In  == Flow("input", Command)
Out == Flow("output", Consdrv)

PcInv ==
  /\ DOMAIN pc = {Idle, Consdrv, Command}
  /\ pc[Idle] \in {"run_consdrv", "run_command", "chpri", "enable", "sleep"}
  /\ pc[Consdrv] \in {"setintr", "recv", "got", "send_buf", "recv_buf", "serial_init",
                      "copy", "kick", "unmask", "free"}
  /\ pc[Command] \in {"use_alloc", "use_send", "alloc", "send", "recv", "got", "free"}

StartInv ==
  /\ pc[Idle] = "run_consdrv" => live = {Idle}
  /\ pc[Idle] = "run_command" => live = {Idle, Consdrv}
  /\ Consdrv \notin live => pc[Consdrv] = "setintr"
  /\ Command \notin live => pc[Command] = "use_alloc"

ThreadInv ==
  PcInv /\ StartInv /\ BoxInv("input", Command) /\ BoxInv("output", Consdrv)

FlowsStay == In' = In /\ Out' = Out

LEMMA Boxes == {"input", "output"} = MsgBox
BY ConsoleAssumption

(* What a thread t does with one system call, or none, that is neither a   *)
(* send, a receive nor kz_run().                                           *)
Quiet1(t) ==
  /\ mode = "user" /\ current = t
  /\ UNCHANGED <<receiver, msgs, live>>
  /\ \A u \in Thread \ {t} : param'[u] = param[u]

LEMMA QuietCalls ==
  ASSUME IInv, NEW t, current = t,
         \/ Computes \/ INTR_ENABLE \/ INTR_DISABLE \/ thread_setintr
         \/ \E p : thread_chpri(p)
         \/ \E k : thread_kzmalloc(k) \/ thread_kmfree(k)
  PROVE  Quiet1(t)
<1>1. \A u \in Thread \ {t} : NewParam[u] = param[u]
  BY DEF IInv, TypeOK, NewParam
<1>2. CASE Computes
  BY <1>2 DEF Computes, vars, tcbVars, boxVars, userVars, Quiet1
<1>3. CASE INTR_ENABLE \/ INTR_DISABLE
  BY <1>3 DEF INTR_ENABLE, INTR_DISABLE, boxVars, userVars, Quiet1
<1>4. CASE thread_setintr
  BY <1>1, <1>4 DEF thread_setintr, kz_syscall, tcbVars, boxVars, Quiet1
<1>5. ASSUME NEW p, thread_chpri(p) PROVE Quiet1(t)
  BY <1>1, <1>5 DEF thread_chpri, kz_syscall, boxVars, Quiet1
<1>6. ASSUME NEW k, thread_kzmalloc(k) \/ thread_kmfree(k) PROVE Quiet1(t)
  BY <1>1, <1>6 DEF thread_kzmalloc, thread_kmfree, kz_syscall, tcbVars, boxVars, Quiet1
<1>7. QED
  BY <1>2, <1>3, <1>4, <1>5, <1>6

Moved(t, l, m) ==
  /\ pc[t] = l /\ pc'[t] = m
  /\ DOMAIN pc' = DOMAIN pc
  /\ \A u \in {Idle, Consdrv, Command} \ {t} : pc'[u] = pc[u]

LEMMA MovesMoves ==
  ASSUME PcInv, NEW t \in {Idle, Consdrv, Command}, NEW l, NEW m, Moves(t, l, m)
  PROVE  Moved(t, l, m) /\ current = t
BY DEF Moves, Moved, PcInv

(* The place a thread moves to is one of its places.                       *)
Places(t) ==
  CASE t = Consdrv -> {"setintr", "recv", "got", "send_buf", "recv_buf", "serial_init",
                       "copy", "kick", "unmask", "free"}
    [] t = Command -> {"use_alloc", "use_send", "alloc", "send", "recv", "got", "free"}

LEMMA ThreadMoves ==
  ASSUME IInv, ThreadInv, mode = "user", current \in {Consdrv, Command},
         NEW l, NEW m \in Places(current), Moved(current, l, m), live' = live
  PROVE  PcInv' /\ StartInv'
<1>1. current \in live
  BY CallerIsLive
<1>2. PcInv'
  BY ThreadsOfConsole DEF ThreadInv, PcInv, Moved, Places
<1>3. StartInv'
  BY <1>1, ThreadsOfConsole DEF ThreadInv, StartInv, Moved
<1>4. QED
  BY <1>2, <1>3

LEMMA QuietKeepsFlows ==
  ASSUME IInv, ThreadInv, NEW t \in {Consdrv, Command}, Quiet1(t),
         NEW l, NEW m \in Places(t) \ {"got"}, Moved(t, l, m), l # "got"
  PROVE  ThreadInv' /\ FlowsStay
<1>1. PcInv' /\ StartInv'
  BY ThreadMoves DEF Quiet1
<1>2. /\ BoxInv("input", Command)' /\ In' = In
      /\ BoxInv("output", Consdrv)' /\ Out' = Out
  <2>1. ASSUME NEW b \in MsgBox, NEW u \in {Consdrv, Command}, BoxInv(b, u)
        PROVE  BoxInv(b, u)' /\ Flow(b, u)' = Flow(b, u)
    <3>1. u \in Thread /\ Running
      BY ThreadsOfConsole DEF Quiet1, Running
    <3>2. CASE u = t
      BY <2>1, <3>1, <3>2, FlowStays DEF Moved, Quiet1
    <3>3. CASE u # t
      <4>1. pc'[u] = pc[u] /\ param'[u] = param[u]
        BY <3>1, <3>3 DEF Moved, Quiet1
      <4>2. QED
        BY <2>1, <3>1, <4>1, FlowStays DEF Quiet1
    <3>4. QED
      BY <3>2, <3>3
  <2>2. QED
    BY <2>1, Boxes DEF ThreadInv, In, Out
<1>3. QED
  BY <1>1, <1>2 DEF ThreadInv, FlowsStay

(* A thread takes the message it was given. *)
BoxOf(t) == IF t = Command THEN "input" ELSE "output"

LEMMA OtherFlowStays ==
  ASSUME ThreadInv, mode = "user", NEW t \in {Consdrv, Command},
         NEW u \in {Consdrv, Command}, u # t, NEW l, NEW m, Moved(t, l, m),
         receiver'[BoxOf(u)] = receiver[BoxOf(u)],
         msgs'[BoxOf(u)] = msgs[BoxOf(u)], param'[u] = param[u]
  PROVE  /\ BoxInv(BoxOf(u), u)'
         /\ Flow(BoxOf(u), u)' = Flow(BoxOf(u), u)
<1>1. BoxInv(BoxOf(u), u) /\ BoxOf(u) \in MsgBox /\ u \in Thread
  BY Boxes, ThreadsOfConsole DEF ThreadInv, BoxOf
<1>2. pc'[u] = pc[u]
  BY DEF Moved
<1> DEFINE b == BoxOf(u)
<1>3. b \in MsgBox /\ BoxInv(b, u) /\ receiver'[b] = receiver[b] /\ msgs'[b] = msgs[b]
  BY <1>1
<1> HIDE DEF b
<1>4. BoxInv(b, u)' /\ Flow(b, u)' = Flow(b, u)
  BY <1>1, <1>2, <1>3, FlowStays DEF Running
<1>5. QED
  BY <1>4 DEF b, BoxOf

LEMMA TakeStep ==
  ASSUME IInv, ThreadInv, NEW t \in {Consdrv, Command}, Quiet1(t), param' = param,
         NEW m \in Places(t) \ {"got"}, Moved(t, "got", m)
  PROVE  /\ ThreadInv' /\ param[t] \in Message
         /\ t = Command => /\ In # <<>> /\ Head(In) = param[t]
                           /\ In' = Tail(In) /\ Out' = Out
         /\ t = Consdrv => /\ Out # <<>> /\ Head(Out) = param[t]
                           /\ Out' = Tail(Out) /\ In' = In
<1>1. PcInv' /\ StartInv'
  BY ThreadMoves DEF Quiet1
<1>2. CASE t = Command
  <2>1. /\ BoxInv("input", Command)' /\ param[t] \in Message
        /\ In # <<>> /\ Head(In) = param[t] /\ In' = Tail(In)
    BY <1>2, FlowIsTaken, Boxes, ThreadsOfConsole DEF ThreadInv, Quiet1, Moved, In
  <2>2. BoxInv("output", Consdrv)' /\ Out' = Out
    BY <1>2, OtherFlowStays, ThreadsOfConsole DEF BoxOf, Quiet1, Out
  <2>3. QED
    BY <1>1, <1>2, <2>1, <2>2, ThreadsOfConsole DEF ThreadInv
<1>3. CASE t = Consdrv
  <2>1. /\ BoxInv("output", Consdrv)' /\ param[t] \in Message
        /\ Out # <<>> /\ Head(Out) = param[t] /\ Out' = Tail(Out)
    BY <1>3, FlowIsTaken, Boxes, ThreadsOfConsole DEF ThreadInv, Quiet1, Moved, Out
  <2>2. BoxInv("input", Command)' /\ In' = In
    BY <1>3, OtherFlowStays, ThreadsOfConsole DEF BoxOf, Quiet1, In
  <2>3. QED
    BY <1>1, <1>3, <2>1, <2>2, ThreadsOfConsole DEF ThreadInv
<1>4. QED
  BY <1>2, <1>3

LEMMA ReceiveStep ==
  ASSUME IInv, ThreadInv, NEW t \in {Consdrv, Command}, current = t,
         Moved(t, "recv", "got"), thread_recv(BoxOf(t))
  PROVE  ThreadInv' /\ FlowsStay
<1> DEFINE b == BoxOf(t)
<1>0. b \in MsgBox /\ BoxInv(b, t) /\ t \in Thread /\ mode = "user" /\ live' = live
  BY Boxes, ThreadsOfConsole DEF BoxOf, ThreadInv, thread_recv, kz_syscall, tcbVars
<1>1. PcInv' /\ StartInv'
  BY <1>0, ThreadMoves, ThreadsOfConsole DEF Places
<1>2. thread_recv(b)
  OBVIOUS
<1> HIDE DEF b
<1>3. /\ BoxInv(b, t)' /\ Flow(b, t)' = Flow(b, t)
      /\ \A c \in MsgBox \ {b} : receiver'[c] = receiver[c] /\ msgs'[c] = msgs[c]
      /\ \A u \in Thread \ {t} : param'[u] = param[u]
  BY <1>0, <1>2, FlowIsReceived DEF Moved
<1>4. PICK u \in {Consdrv, Command} : u # t
  BY ThreadsOfConsole
<1>5. BoxOf(u) \in MsgBox \ {b} /\ u \in Thread
  BY <1>4, Boxes, ThreadsOfConsole DEF BoxOf, b
<1>6. BoxInv(BoxOf(u), u)' /\ Flow(BoxOf(u), u)' = Flow(BoxOf(u), u)
  BY <1>0, <1>3, <1>4, <1>5, OtherFlowStays
<1>7. BoxInv(BoxOf(t), t)' /\ Flow(BoxOf(t), t)' = Flow(BoxOf(t), t)
  BY <1>3 DEF b
<1>8. {u, t} = {Consdrv, Command} /\ BoxOf(Command) = "input" /\ BoxOf(Consdrv) = "output"
  BY <1>4, ThreadsOfConsole DEF BoxOf
<1>9. /\ BoxInv("input", Command)' /\ In' = In
      /\ BoxInv("output", Consdrv)' /\ Out' = Out
  BY <1>6, <1>7, <1>8, ThreadsOfConsole DEF In, Out
<1>10. QED
  BY <1>1, <1>9 DEF ThreadInv, FlowsStay

(* command_main() sends a request, or finds no block for its message.      *)
LEMMA RequestStep ==
  ASSUME IInv, ThreadInv, current = Command, NEW l, l # "got",
         NEW m \in Places(Command) \ {"got"}, Moved(Command, l, m),
         NEW x \in Payload, kz_send("output", x)
  PROVE  /\ ThreadInv' /\ In' = In
         /\ Running' => Out' = Append(Out, [sender |-> Command, p |-> x])
<1>0. /\ mode = "user" /\ live' = live /\ "output" \in MsgBox /\ "input" \in MsgBox
      /\ BoxInv("output", Consdrv) /\ BoxInv("input", Command)
      /\ {Consdrv, Command} \subseteq Thread /\ Consdrv # Command
      /\ Running
  BY Boxes, ThreadsOfConsole DEF ThreadInv, kz_send, kz_syscall, tcbVars, Running
<1>1. PcInv' /\ StartInv'
  BY <1>0, ThreadMoves
<1>2. NewParam \in [Thread -> Received] /\ NewParam[Consdrv] = param[Consdrv]
  BY <1>0 DEF IInv, TypeOK, NewParam, Received
<1> DEFINE msg == [sender |-> Command, p |-> x]
<1>3. msg \in Message
  BY <1>0 DEF Message
<1>4. pc'[Consdrv] = pc[Consdrv]
  BY <1>0 DEF Moved
<1> HIDE DEF msg
<1>5. CASE thread_send(Requeued, NewParam, msg, "output")
  <2>1. /\ BoxInv("output", Consdrv)' /\ Out' = Append(Out, msg)
        /\ \A c \in MsgBox \ {"output"} : receiver'[c] = receiver[c] /\ msgs'[c] = msgs[c]
    BY <1>0, <1>2, <1>3, <1>4, <1>5, FlowGrows DEF Out
  <2>2. receiver'["input"] = receiver["input"] /\ msgs'["input"] = msgs["input"]
    BY <1>0, <2>1
  <2>3. BoxInv("input", Command)' /\ In' = In
    BY <1>0, <2>2, FlowStays DEF Moved, In
  <2>4. QED
    BY <1>1, <2>1, <2>3 DEF ThreadInv, msg
<1>6. CASE mode' = "down" /\ param' = NewParam /\ UNCHANGED boxVars
  <2>1. BoxInv("input", Command)' /\ In' = In
    BY <1>0, <1>6, FlowStays DEF Moved, In, boxVars
  <2>2. BoxInv("output", Consdrv)'
    BY <1>0, <1>2, <1>4, <1>6, FlowStays DEF boxVars
  <2>3. QED
    BY <1>1, <1>6, <2>1, <2>2 DEF ThreadInv, Running
<1>7. QED
  BY <1>5, <1>6 DEF kz_send, kz_sysdown, msg

(* The handler, the controller and the typist. *)
LEMMA OutsideKeepsThreads ==
  ASSUME ThreadInv, Running' => Running, pc' = pc,
         UNCHANGED <<receiver, msgs, live, param>>
  PROVE  ThreadInv' /\ FlowsStay
<1>1. /\ BoxInv("input", Command)' /\ In' = In
      /\ BoxInv("output", Consdrv)' /\ Out' = Out
  BY FlowStays, Boxes, ThreadsOfConsole DEF ThreadInv, In, Out
<1>2. QED
  BY <1>1 DEF ThreadInv, PcInv, StartInv, FlowsStay

(* The handler sends a line, or finds no block for its message.            *)
LEMMA LineStep ==
  ASSUME IInv, ThreadInv, pc' = pc, NEW x \in Payload, kx_send("input", x)
  PROVE  /\ ThreadInv' /\ Out' = Out
         /\ Running' => In' = Append(In, [sender |-> NULL, p |-> x])
<1>0. /\ mode = "intr" /\ live' = live /\ "output" \in MsgBox /\ "input" \in MsgBox
      /\ BoxInv("output", Consdrv) /\ BoxInv("input", Command)
      /\ {Consdrv, Command} \subseteq Thread /\ Consdrv # Command
      /\ Running /\ param \in [Thread -> Received]
  BY Boxes, ThreadsOfConsole DEF ThreadInv, kx_send, tcbVars, Running, IInv, TypeOK
<1>1. PcInv' /\ StartInv'
  BY <1>0 DEF ThreadInv, PcInv, StartInv
<1> DEFINE msg == [sender |-> NULL, p |-> x]
<1>2. msg \in Message
  BY DEF Message
<1> HIDE DEF msg
<1>3. CASE thread_send(rq, param, msg, "input")
  <2>1. /\ BoxInv("input", Command)' /\ In' = Append(In, msg)
        /\ \A c \in MsgBox \ {"input"} : receiver'[c] = receiver[c] /\ msgs'[c] = msgs[c]
        /\ \A u \in Thread \ {Command} : param'[u] = param[u]
    BY <1>0, <1>2, <1>3, FlowGrows DEF In
  <2>2. BoxInv("output", Consdrv)' /\ Out' = Out
    BY <1>0, <2>1, FlowStays DEF Out
  <2>3. QED
    BY <1>1, <2>1, <2>2 DEF ThreadInv, msg
<1>4. CASE mode' = "down" /\ UNCHANGED <<param, boxVars>>
  BY <1>0, <1>4, OutsideKeepsThreads DEF FlowsStay, boxVars, Running
<1>5. QED
  BY <1>3, <1>4 DEF kx_send, msg

(* main.c starts the two threads, in their order, and becomes idle.        *)
LEMMA RunKeepsFlows ==
  ASSUME IInv, ThreadInv, NEW p, thread_run(p), current = Idle,
         NEW l \in {"run_consdrv", "run_command"},
         NEW m \in {"run_command", "chpri"},
         l = "run_consdrv" <=> m = "run_command", Moved(Idle, l, m)
  PROVE  ThreadInv' /\ FlowsStay
<1>0. /\ mode = "user" /\ UNCHANGED <<receiver, msgs>> /\ param \in [Thread -> Received]
      /\ Running
  BY DEF thread_run, kz_syscall, boxVars, IInv, TypeOK, Running
<1>1. live = IF l = "run_consdrv" THEN {Idle} ELSE {Idle, Consdrv}
  BY DEF ThreadInv, StartInv, Moved
<1>2. live # Thread
  BY <1>1, ThreadsOfConsole
<1>3. PICK t \in Thread \ live :
        /\ \A s \in 0 .. t - 1 : s \in live
        /\ live' = live \cup {t}
        /\ param' = [NewParam EXCEPT ![t] = NULL]
  BY <1>2 DEF thread_run
<1>4. t = IF l = "run_consdrv" THEN Consdrv ELSE Command
  <2>1. t \in Nat /\ t # 0
    BY <1>1 DEF Thread, Idle
  <2>2. CASE l = "run_consdrv"
    <3>1. ~(1 \in 0 .. t - 1)
      BY <1>1, <1>3, <2>2 DEF Idle
    <3>2. QED
      BY <2>1, <2>2, <3>1 DEF Consdrv
  <2>3. CASE l # "run_consdrv"
    <3>1. ~(2 \in 0 .. t - 1) /\ t # 1
      BY <1>1, <1>3, <2>3 DEF Idle, Consdrv
    <3>2. QED
      BY <2>1, <2>3, <3>1 DEF Command
  <2>4. QED
    BY <2>2, <2>3
<1>5. PcInv'
  BY ThreadsOfConsole DEF ThreadInv, PcInv, Moved
<1>6. StartInv'
  BY <1>1, <1>3, <1>4, ThreadsOfConsole DEF ThreadInv, StartInv, Moved
<1>7. ASSUME NEW u \in {Consdrv, Command}
      PROVE  pc'[u] = pc[u] /\ (pc[u] = "got" => param'[u] = param[u])
  <2>1. u \in Thread /\ u # current /\ pc'[u] = pc[u]
    BY ThreadsOfConsole DEF Moved
  <2>2. u = t => pc[u] # "got"
    BY DEF ThreadInv, StartInv
  <2>3. u # t => param'[u] = param[u]
    BY <1>0, <1>3, <2>1 DEF NewParam
  <2>4. QED
    BY <2>1, <2>2, <2>3
<1>8. /\ BoxInv("input", Command)' /\ In' = In
      /\ BoxInv("output", Consdrv)' /\ Out' = Out
  BY <1>0, <1>7, FlowStays, Boxes, ThreadsOfConsole DEF ThreadInv, In, Out
<1>9. QED
  BY <1>5, <1>6, <1>8 DEF ThreadInv, FlowsStay

LEMMA StartStep ==
  ASSUME IInv, ThreadInv, start_threads \/ idle_sleep
  PROVE  /\ ThreadInv' /\ FlowsStay /\ mode = "user"
         /\ pc'[Consdrv] = pc[Consdrv] /\ pc'[Command] = pc[Command]
<1>1. \E l, m : Moves(Idle, l, m)
  BY DEF start_threads, idle_sleep
<1>2. pc'[Consdrv] = pc[Consdrv] /\ pc'[Command] = pc[Command]
  BY <1>1, MovesMoves, ThreadsOfConsole DEF ThreadInv, Moved
<1>3. ASSUME NEW l \in {"run_consdrv", "run_command"},
             NEW m \in {"run_command", "chpri"},
             l = "run_consdrv" <=> m = "run_command",
             Moves(Idle, l, m), NEW p, thread_run(p)
      PROVE  ThreadInv' /\ FlowsStay /\ mode = "user"
  <2>1. Moved(Idle, l, m) /\ current = Idle
    BY <1>3, MovesMoves DEF ThreadInv
  <2>2. QED
    BY <1>3, <2>1, RunKeepsFlows DEF thread_run, kz_syscall
<1>4. ASSUME NEW l \in {"chpri", "enable", "sleep"}, NEW m \in {"enable", "sleep"},
             Moves(Idle, l, m), \/ \E p : thread_chpri(p)
                                \/ INTR_ENABLE \/ Computes
      PROVE  ThreadInv' /\ FlowsStay /\ mode = "user"
  <2>1. Moved(Idle, l, m) /\ current = Idle
    BY <1>4, MovesMoves DEF ThreadInv
  <2>2. Quiet1(Idle)
    BY <1>4, <2>1, QuietCalls
  <2>3. PcInv' /\ StartInv'
    BY <2>1, <2>2, ThreadsOfConsole
       DEF ThreadInv, PcInv, StartInv, Moved, Quiet1
  <2>4. /\ BoxInv("input", Command)' /\ In' = In
        /\ BoxInv("output", Consdrv)' /\ Out' = Out
    BY <2>1, <2>2, FlowStays, Boxes, ThreadsOfConsole
       DEF ThreadInv, In, Out, Moved, Quiet1, Running
  <2>5. QED
    BY <2>2, <2>3, <2>4 DEF ThreadInv, FlowsStay, Quiet1
<1>5. QED
  BY <1>2, <1>3, <1>4 DEF start_threads, idle_sleep

-------------------------------------------------------------------------------
(***************************************************************************)
(* What the threads and the handler work on.  C is the set of characters   *)
(* that may be written or typed.                                           *)
(***************************************************************************)
Alphabet(C) ==
  /\ "\n" \in C
  /\ Prompt \in Seq(C) /\ Unknown \in Seq(C) /\ Echo \in Seq(C)
  /\ Lines \subseteq Seq(C)
  /\ \A str \in Seq(C) : {Use, Write(str), Line(str)} \subseteq Payload

HasCh == hpc \in {"kick", "store"}

Texts(C) == {m \in Message : m.p.str \in Seq(C)}

TextInv(C) ==
  /\ todo \in Seq(Seq(C))
  /\ recv_buf \in Seq(C \ {"\r", "\n"})
  /\ typing \in Seq(C \cup {"\r"})
  /\ rdrf => rdr \in C \cup {"\r"}
  /\ HasCh => ch \in C \ {"\r"}
  /\ typed \in Seq(Lines) /\ Len(typed) <= MaxLines
  /\ received \in Seq(Seq(C)) /\ Len(received) <= Len(typed)
  /\ Running => In \in Seq(Texts(C))

RegsInv ==
  /\ consid \in Thread \cup {NULL}
  /\ {tie, rie, tdre, rdrf} \subseteq BOOLEAN
  /\ hpc \in {"enter", "kick", "store", "post", "send", "end"}
  /\ mode = "user" => hpc = "end"

(* What command_main() and consdrv_main() hold at their places.            *)
WorkInv ==
  /\ pc[Command] \in {"use_alloc", "use_send", "alloc", "send"} => todo # <<>>
  /\ line \in Payload \cup {NULL}
  /\ line # NULL => pc[Command] \in {"alloc", "send", "free"}
  /\ pc[Command] = "free" => line # NULL
  /\ req \in Payload \cup {NULL}
  /\ req # NULL => req.cmd \in {"use", "write"}
  /\ req # NULL <=> pc[Consdrv] \in {"send_buf", "recv_buf", "serial_init",
                                     "copy", "kick", "unmask", "free"}

(* The pool of the block of a request, and of that of a line.              *)
Block(p) == PoolOf(IF p.cmd = "use" THEN 3 ELSE Len(p.str) + 2)
LineBlock == PoolOf(CONS_BUFFER_SIZE)

Fitting   == {m \in Message : Block(m.p) \in Pool}

(* Every block that will be freed has come from a pool.                    *)
FitsInv ==
  Running =>
    /\ Out \in Seq(Fitting)
    /\ In # <<>> \/ line # NULL \/ hpc = "post" => LineBlock \in Pool
    /\ req # NULL => Block(req) \in Pool
    /\ pc[Command] = "use_send" => PoolOf(3) \in Pool
    /\ pc[Command] = "send" => PoolOf(Len(Head(todo)) + 2) \in Pool

LEMMA PoolOfType == \A n \in Nat : PoolOf(n) \in Pool \cup {NULL}
<1> SUFFICES ASSUME NEW n \in Nat PROVE PoolOf(n) \in Pool \cup {NULL}
  OBVIOUS
<1> DEFINE S == {k \in Pool : n <= k - 8}
<1>1. S \subseteq Nat
  BY ConsoleAssumption
<1>2. CASE S = {}
  BY <1>2 DEF PoolOf
<1>3. CASE S # {}
  <2> HIDE DEF S
  <2>1. PICK x \in S : \A y \in S : x <= y
    BY <1>1, <1>3, HasLeast
  <2>2. Min(S) \in S
    BY <2>1 DEF Min
  <2>3. Min(S) \in Pool
    BY <2>2 DEF S
  <2>4. PoolOf(n) = Min(S)
    BY <1>3 DEF PoolOf, S
  <2>5. QED
    BY <2>3, <2>4
<1>4. QED
  BY <1>2, <1>3

(***************************************************************************)
(* The threads and the handler of the console use the kernel as module     *)
(* Kozos lets them: every step is a step of the kernel, or leaves it alone.*)
(***************************************************************************)
LEMMA CommandIsUser ==
  ASSUME NEW C, Alphabet(C), TextInv(C), WorkInv, FitsInv, ThreadInv, command_main
  PROVE  [Next]_vars
<1>1. CASE send_use
  <2>1. CASE thread_kzmalloc(PoolOf(3))
    BY <2>1, PoolOfType DEF Next, ThreadStep
  <2>2. CASE kz_send("output", Use)
    <3>1. Use \in Payload /\ "output" \in MsgBox
      BY Boxes DEF Alphabet
    <3>2. QED
      BY <2>2, <3>1 DEF Next, ThreadStep
  <2>3. QED
    BY <1>1, <2>1, <2>2 DEF send_use
<1>2. CASE send_write
  <2>1. pc[Command] \in {"alloc", "send"}
    BY <1>2 DEF send_write, Moves
  <2>2. Head(todo) \in Seq(C)
    BY <2>1, HeadTailProperties DEF TextInv, WorkInv
  <2>3. CASE thread_kzmalloc(PoolOf(Len(Head(todo)) + 2))
    <3>1. Len(Head(todo)) + 2 \in Nat
      BY <2>2, LenProperties
    <3>2. QED
      BY <2>3, <3>1, PoolOfType DEF Next, ThreadStep
  <2>4. CASE kz_send("output", Write(Head(todo)))
    <3>1. Write(Head(todo)) \in Payload /\ "output" \in MsgBox
      BY <2>2, Boxes DEF Alphabet
    <3>2. QED
      BY <2>4, <3>1 DEF Next, ThreadStep
  <2>5. QED
    BY <1>2, <2>3, <2>4 DEF send_write
<1>3. CASE command_recv
  BY <1>3, Boxes DEF command_recv, Next, ThreadStep
<1>4. CASE command_got
  BY <1>4 DEF command_got, Computes
<1>5. CASE command_free
  <2>1. thread_kmfree(LineBlock) /\ pc[Command] = "free" /\ Running
    BY <1>5 DEF command_free, LineBlock, Moves, thread_kmfree, kz_syscall, Running
  <2>2. LineBlock \in Pool
    BY <2>1 DEF FitsInv, WorkInv
  <2>3. QED
    BY <2>1, <2>2 DEF Next, ThreadStep
<1>6. QED
  BY <1>1, <1>2, <1>3, <1>4, <1>5 DEF command_main

LEMMA ConsdrvIsUser ==
  ASSUME WorkInv, FitsInv, ThreadInv, consdrv_main
  PROVE  [Next]_vars
<1>1. CASE consdrv_init
  BY <1>1 DEF consdrv_init, Next, ThreadStep
<1>2. CASE consdrv_recv
  BY <1>2, Boxes DEF consdrv_recv, Next, ThreadStep
<1>3. CASE consdrv_use
  <2>1. CASE Computes
    BY <2>1 DEF Computes
  <2>2. CASE thread_kzmalloc(LineBlock)
    BY <2>2, PoolOfType, ConsoleAssumption DEF LineBlock, Next, ThreadStep
  <2>3. QED
    BY <1>3, <2>1, <2>2 DEF consdrv_use, LineBlock
<1>4. CASE consdrv_mask
  BY <1>4 DEF consdrv_mask, Next, ThreadStep
<1>5. CASE consdrv_write
  BY <1>5 DEF consdrv_write, Computes, Next, ThreadStep
<1>6. CASE consdrv_free
  <2>1. thread_kmfree(Block(req)) /\ pc[Consdrv] = "free" /\ Running
    BY <1>6 DEF consdrv_free, Block, Moves, thread_kmfree, kz_syscall, Running
  <2>2. Block(req) \in Pool
    BY <2>1 DEF FitsInv, WorkInv
  <2>3. QED
    BY <2>1, <2>2 DEF Next, ThreadStep
<1>7. QED
  BY <1>1, <1>2, <1>3, <1>4, <1>5, <1>6 DEF consdrv_main

LEMMA HandlerIsUser ==
  ASSUME NEW C, Alphabet(C), TextInv(C), serial_intr \/ consdrv_intrproc
  PROVE  [Next]_vars
<1>1. CASE serial_intr
  BY <1>1 DEF serial_intr, Next, HandlerStep
<1>2. CASE intr_recv \/ intr_kick \/ intr_send
  BY <1>2 DEF intr_recv, intr_kick, intr_send
<1>3. CASE intr_store
  <2>1. CASE UNCHANGED vars
    BY <2>1
  <2>2. CASE kx_kmalloc(LineBlock)
    BY <2>2, PoolOfType, ConsoleAssumption DEF LineBlock, Next, HandlerStep
  <2>3. QED
    BY <1>3, <2>1, <2>2 DEF intr_store, LineBlock
<1>4. CASE intr_post
  <2>1. recv_buf \in Seq(C)
    BY SeqMonotonic DEF TextInv
  <2>2. Line(recv_buf) \in Payload
    BY <2>1 DEF Alphabet
  <2>3. QED
    BY <1>4, <2>2, Boxes DEF intr_post, Next, HandlerStep
<1>5. CASE intr_return
  BY <1>5 DEF intr_return, Next, HandlerStep
<1>6. QED
  BY <1>1, <1>2, <1>3, <1>4, <1>5 DEF consdrv_intrproc

LEMMA ConsoleIsUser ==
  ASSUME NEW C, Alphabet(C), TextInv(C), WorkInv, FitsInv, ThreadInv, [ConsNext]_cvars
  PROVE  [Next]_vars
<1>1. CASE start_threads \/ idle_sleep
  <2>1. {1, 2, 3} \subseteq Priority
    BY TableAssumption, ConsoleAssumption DEF Priority
  <2>2. QED
    BY <1>1, <2>1 DEF start_threads, idle_sleep, Computes, Next, ThreadStep
<1>2. CASE Transmit \/ Type \/ UNCHANGED cvars
  BY <1>2 DEF Transmit, Type, cvars
<1>3. QED
  BY <1>1, <1>2, CommandIsUser, ConsdrvIsUser, HandlerIsUser DEF ConsNext, Processor

-------------------------------------------------------------------------------
(***************************************************************************)
(* What every step does to what the invariants speak of.                   *)
(***************************************************************************)
Holds     == held' = held
Allocs(k) == Running' => k \in Pool /\ held' = [held EXCEPT ![k] = @ + 1]
Frees(k)  == held' = [held EXCEPT ![k] = @ - 1]

(* Thread t takes the message at the head of flow s. *)
Takes(t, s) == s # <<>> /\ Head(s) = param[t] /\ param[t] \in Message

Requests(x) ==
  /\ In' = In
  /\ Running' => Out' = Append(Out, [sender |-> Command, p |-> x])

Goes(t, l, m) == mode = "user" /\ Moved(t, l, m)

CommandDoes ==
  /\ UNCHANGED <<req, consid, recv_buf, devVars, handlerVars, typistVars>>
  /\ \/ /\ Goes(Command, "use_alloc", "use_send")
        /\ FlowsStay /\ Allocs(PoolOf(3)) /\ UNCHANGED <<line, todo, received>>
     \/ /\ Goes(Command, "use_send", "alloc")
        /\ Requests(Use) /\ Holds /\ UNCHANGED <<line, todo, received>>
     \/ /\ Goes(Command, "alloc", "send")
        /\ FlowsStay /\ Allocs(PoolOf(Len(Head(todo)) + 2))
        /\ UNCHANGED <<line, todo, received>>
     \/ /\ Goes(Command, "send", IF Tail(todo) # <<>> THEN "alloc"
                                 ELSE IF line = NULL THEN "recv" ELSE "free")
        /\ Requests(Write(Head(todo))) /\ Holds
        /\ todo' = Tail(todo) /\ UNCHANGED <<line, received>>
     \/ /\ Goes(Command, "recv", "got")
        /\ FlowsStay /\ Holds /\ UNCHANGED <<line, todo, received>>
     \/ /\ Goes(Command, "got", "alloc")
        /\ Takes(Command, In) /\ In' = Tail(In) /\ Out' = Out /\ Holds
        /\ line' = Head(In).p /\ todo' = Answer(line'.str)
        /\ received' = Append(received, line'.str)
        /\ mode' = mode
     \/ /\ Goes(Command, "free", "alloc")
        /\ FlowsStay /\ Frees(LineBlock)
        /\ line' = NULL /\ todo' = <<Prompt>> /\ UNCHANGED received

ConsdrvDoes ==
  /\ UNCHANGED <<line, todo, handlerVars, typistVars, received>>
  /\ \/ /\ Goes(Consdrv, "setintr", "recv")
        /\ FlowsStay /\ Holds /\ consid' = NULL /\ recv_buf' = <<>>
        /\ UNCHANGED <<req, devVars>>
     \/ /\ Goes(Consdrv, "recv", "got")
        /\ FlowsStay /\ Holds /\ UNCHANGED <<req, consid, recv_buf, devVars>>
     \/ /\ Goes(Consdrv, "got", "send_buf")
        /\ Takes(Consdrv, Out) /\ Out' = Tail(Out) /\ In' = In /\ Holds
        /\ req' = Head(Out).p /\ req'.cmd = "use" /\ consid' = Head(Out).sender
        /\ UNCHANGED <<recv_buf, devVars, mode>>
     \/ /\ Goes(Consdrv, "send_buf", "recv_buf")
        /\ FlowsStay /\ Allocs(LineBlock) /\ UNCHANGED <<req, consid, recv_buf, devVars>>
     \/ /\ Goes(Consdrv, "recv_buf", "serial_init")
        /\ FlowsStay /\ Allocs(LineBlock) /\ UNCHANGED <<req, consid, recv_buf, devVars>>
     \/ /\ Goes(Consdrv, "serial_init", "free")
        /\ FlowsStay /\ Holds /\ recv_buf' = <<>>
        /\ tie' = FALSE /\ rie' = TRUE /\ tdre' = FALSE /\ rdrf' = FALSE
        /\ UNCHANGED <<req, consid, rdr>>
     \/ /\ Goes(Consdrv, "got", "copy")
        /\ Takes(Consdrv, Out) /\ Out' = Tail(Out) /\ In' = In /\ Holds
        /\ req' = Head(Out).p /\ req'.cmd = "write"
        /\ UNCHANGED <<consid, recv_buf, devVars, mode>>
     \/ /\ \/ \E m \in {"kick", "unmask"} : Goes(Consdrv, "copy", m)
           \/ Goes(Consdrv, "kick", "unmask")
           \/ Goes(Consdrv, "unmask", "free")
        /\ FlowsStay /\ Holds
        /\ tie \in BOOLEAN => tie' \in BOOLEAN
        /\ tdre \in BOOLEAN => tdre' \in BOOLEAN
        /\ UNCHANGED <<req, consid, recv_buf, rie, rdrf, rdr>>
     \/ /\ Goes(Consdrv, "free", "recv")
        /\ FlowsStay /\ Frees(Block(req)) /\ req' = NULL
        /\ UNCHANGED <<consid, recv_buf, devVars>>

(* The handler goes from place l to place m. *)
Serves(l, m) == mode = "intr" /\ hpc = l /\ hpc' = m

HandlerDoes ==
  /\ pc' = pc
  /\ UNCHANGED <<req, line, todo, consid, rie, rdr, typistVars, received>>
  /\ tie \in BOOLEAN => tie' \in BOOLEAN
  /\ tdre \in BOOLEAN => tdre' \in BOOLEAN
  /\ \/ /\ mode = "user" /\ hpc' = "enter" /\ mode' = "intr"
        /\ (rie /\ rdrf) \/ (tie /\ tdre)
        /\ FlowsStay /\ Holds /\ UNCHANGED <<ch, rdrf, recv_buf>>
     \/ /\ \E m \in {"kick", "store"} : Serves("enter", m)
        /\ rdrf /\ ch' = Newline(rdr) /\ rdrf' = FALSE
        /\ FlowsStay /\ Holds /\ UNCHANGED <<recv_buf, mode>>
     \/ /\ \/ \E m \in {"send", "end"} : Serves("enter", m)
           \/ Serves("kick", "store")
           \/ Serves("send", "end")
           \/ Serves("end", "end")
        /\ FlowsStay /\ Holds /\ UNCHANGED <<ch, rdrf, recv_buf>>
        /\ IF hpc = "end" THEN tie' = tie ELSE mode' = mode
     \/ /\ Serves("store", "send") /\ ch # "\n"
        /\ recv_buf' = Append(recv_buf, ch)
        /\ FlowsStay /\ Holds /\ UNCHANGED <<ch, rdrf, mode>>
     \/ /\ Serves("store", "post") /\ ch = "\n" /\ mode' # "user"
        /\ FlowsStay /\ Allocs(LineBlock) /\ UNCHANGED <<ch, rdrf, recv_buf>>
     \/ /\ Serves("post", "send") /\ mode' # "user"
        /\ Out' = Out /\ Holds
        /\ Running' => In' = Append(In, [sender |-> NULL, p |-> Line(recv_buf)])
        /\ recv_buf' = <<>> /\ UNCHANGED <<ch, rdrf>>

(* The initial thread, the controller and the typist. *)
OthersDo ==
  /\ FlowsStay /\ Holds
  /\ pc'[Consdrv] = pc[Consdrv] /\ pc'[Command] = pc[Command]
  /\ UNCHANGED <<req, line, todo, consid, recv_buf, rie, tie, handlerVars, received>>
  /\ mode' # mode => mode = "user" /\ mode' # "intr"
  /\ tdre \in BOOLEAN => tdre' \in BOOLEAN
  /\ \/ UNCHANGED <<rdrf, rdr, typistVars>>
     \/ /\ rie /\ ~rdrf /\ rdrf' = TRUE
        /\ \/ /\ typing # <<>> /\ UNCHANGED typed
              /\ rdr' = Head(typing) /\ typing' = Tail(typing)
           \/ /\ typing = <<>> /\ Len(typed) < MaxLines
              /\ \E l \in Lines : /\ typed' = Append(typed, l)
                                  /\ rdr' = Head(Append(l, "\r"))
                                  /\ typing' = Tail(Append(l, "\r"))

LEMMA MallocAllocs ==
  ASSUME NEW k, thread_kzmalloc(k) \/ kx_kmalloc(k)
  PROVE  Allocs(k)
BY DEF thread_kzmalloc, kx_kmalloc, HasBlock, AllocateHeld, kz_sysdown, Allocs, Running

LEMMA CallsHold ==
  ASSUME \/ Computes \/ INTR_ENABLE \/ INTR_DISABLE \/ thread_setintr
         \/ \E p : thread_chpri(p) \/ thread_run(p)
         \/ \E b, x : kz_send(b, x) \/ kx_send(b, x)
         \/ \E b : thread_recv(b)
  PROVE  Holds
BY DEF Computes, INTR_ENABLE, INTR_DISABLE, thread_setintr, thread_chpri, thread_run,
       kz_send, kx_send, thread_recv, vars, memVars, Holds

LEMMA CommandDoesSo ==
  ASSUME IInv, ThreadInv, NEW C, Alphabet(C), TextInv(C), WorkInv, command_main
  PROVE  ThreadInv' /\ CommandDoes
<1>1. \E l, m : Moves(Command, l, m)
  BY DEF command_main, send_use, send_write, command_recv, command_got, command_free
<1>2. current = Command
  BY <1>1 DEF Moves
<1>3. UNCHANGED <<req, consid, recv_buf, devVars, handlerVars, typistVars>>
  BY DEF command_main, send_use, send_write, command_recv, command_got, command_free,
         consVars
<1>4. CASE /\ Moves(Command, "use_alloc", "use_send") /\ thread_kzmalloc(PoolOf(3))
           /\ UNCHANGED <<line, todo, received>>
  <2>1. Moved(Command, "use_alloc", "use_send")
    BY <1>4, MovesMoves DEF ThreadInv
  <2>2. Quiet1(Command) /\ Allocs(PoolOf(3))
    BY <1>2, <1>4, QuietCalls, MallocAllocs
  <2>3. "use_send" \in Places(Command) \ {"got"}
    BY ThreadsOfConsole DEF Places
  <2>4. ThreadInv' /\ FlowsStay
    BY <2>1, <2>2, <2>3, QuietKeepsFlows
  <2>5. QED
    BY <1>3, <1>4, <2>1, <2>2, <2>4 DEF CommandDoes, Goes, Quiet1
<1>5. CASE /\ Moves(Command, "use_send", "alloc") /\ kz_send("output", Use)
           /\ UNCHANGED <<line, todo, received>>
  <2>1. Moved(Command, "use_send", "alloc")
    BY <1>5, MovesMoves DEF ThreadInv
  <2>2. "alloc" \in Places(Command) \ {"got"} /\ Use \in Payload
    BY ThreadsOfConsole DEF Places, Alphabet
  <2>3. ThreadInv' /\ Requests(Use)
    BY <1>2, <1>5, <2>1, <2>2, RequestStep DEF Requests
  <2>4. Holds /\ mode = "user"
    BY <1>5, CallsHold DEF kz_send, kz_syscall
  <2>5. QED
    BY <1>3, <1>5, <2>1, <2>3, <2>4 DEF CommandDoes, Goes
<1>6. CASE send_write
  <2>1. pc[Command] \in {"alloc", "send"}
    BY <1>6 DEF send_write, Moves
  <2>2. Head(todo) \in Seq(C)
    BY <2>1, HeadTailProperties DEF TextInv, WorkInv
  <2>3. CASE /\ Moves(Command, "alloc", "send")
             /\ thread_kzmalloc(PoolOf(Len(Head(todo)) + 2))
             /\ UNCHANGED <<line, todo, received>>
    <3>1. Moved(Command, "alloc", "send")
      BY <2>3, MovesMoves DEF ThreadInv
    <3>2. Quiet1(Command) /\ Allocs(PoolOf(Len(Head(todo)) + 2))
      BY <1>2, <2>3, QuietCalls, MallocAllocs
    <3>3. "send" \in Places(Command) \ {"got"}
      BY ThreadsOfConsole DEF Places
    <3>4. ThreadInv' /\ FlowsStay
      BY <3>1, <3>2, <3>3, QuietKeepsFlows
    <3>5. QED
      BY <1>3, <2>3, <3>1, <3>2, <3>4 DEF CommandDoes, Goes, Quiet1
  <2>4. ASSUME NEW m, m = IF Tail(todo) # <<>> THEN "alloc"
                          ELSE IF line = NULL THEN "recv" ELSE "free",
               Moves(Command, "send", m), kz_send("output", Write(Head(todo))),
               todo' = Tail(todo), UNCHANGED <<line, received>>
        PROVE  ThreadInv' /\ CommandDoes
    <3>1. Moved(Command, "send", m)
      BY <2>4, MovesMoves DEF ThreadInv
    <3>2. m \in Places(Command) \ {"got"} /\ Write(Head(todo)) \in Payload
      BY <2>2, <2>4, ThreadsOfConsole DEF Places, Alphabet
    <3>3. ThreadInv' /\ Requests(Write(Head(todo)))
      BY <1>2, <2>4, <3>1, <3>2, RequestStep DEF Requests
    <3>4. Holds /\ mode = "user"
      BY <2>4, CallsHold DEF kz_send, kz_syscall
    <3>5. QED
      BY <1>3, <2>4, <3>1, <3>3, <3>4 DEF CommandDoes, Goes
  <2>5. QED
    BY <1>6, <2>3, <2>4 DEF send_write
<1>7. CASE command_recv
  <2>1. Moved(Command, "recv", "got") /\ thread_recv("input")
    BY <1>7, MovesMoves DEF ThreadInv, command_recv
  <2>2. ThreadInv' /\ FlowsStay
    BY <1>2, <2>1, ReceiveStep DEF BoxOf
  <2>3. Holds /\ mode = "user"
    BY <2>1, CallsHold DEF thread_recv, kz_syscall
  <2>4. QED
    BY <1>3, <1>7, <2>1, <2>2, <2>3 DEF CommandDoes, Goes, command_recv
<1>8. CASE command_got
  <2>1. Moved(Command, "got", "alloc") /\ Computes
    BY <1>8, MovesMoves DEF ThreadInv, command_got
  <2>2. Quiet1(Command) /\ param' = param /\ mode = "user" /\ mode' = mode
    BY <1>2, <2>1, QuietCalls DEF Computes, vars, userVars
  <2>3. "alloc" \in Places(Command) \ {"got"}
    BY ThreadsOfConsole DEF Places
  <2>4. ThreadInv' /\ Takes(Command, In) /\ In' = Tail(In) /\ Out' = Out
    BY <2>1, <2>2, <2>3, TakeStep DEF Takes
  <2>5. Holds
    BY <2>1, CallsHold
  <2>6. QED
    BY <1>3, <1>8, <2>1, <2>2, <2>4, <2>5 DEF CommandDoes, Goes, command_got, Takes
<1>9. CASE command_free
  <2>1. Moved(Command, "free", "alloc") /\ thread_kmfree(LineBlock)
    BY <1>9, MovesMoves DEF ThreadInv, command_free, LineBlock
  <2>2. Quiet1(Command) /\ Frees(LineBlock)
    BY <1>2, <2>1, QuietCalls DEF thread_kmfree, FreeHeld, Frees
  <2>3. "alloc" \in Places(Command) \ {"got"}
    BY ThreadsOfConsole DEF Places
  <2>4. ThreadInv' /\ FlowsStay
    BY <2>1, <2>2, <2>3, QuietKeepsFlows
  <2>5. QED
    BY <1>3, <1>9, <2>1, <2>2, <2>4 DEF CommandDoes, Goes, command_free, Quiet1
<1>10. QED
  BY <1>4, <1>5, <1>6, <1>7, <1>8, <1>9 DEF command_main, send_use

LEMMA ConsdrvDoesSo ==
  ASSUME IInv, ThreadInv, WorkInv, consdrv_main
  PROVE  ThreadInv' /\ ConsdrvDoes
<1>1. \E l, m : Moves(Consdrv, l, m)
  BY DEF consdrv_main, consdrv_init, consdrv_recv, consdrv_use, consdrv_mask,
         consdrv_write, consdrv_free
<1>2. current = Consdrv
  BY <1>1 DEF Moves
<1>3. UNCHANGED <<line, todo, handlerVars, typistVars, received>>
  BY DEF consdrv_main, consdrv_init, consdrv_recv, consdrv_use, consdrv_mask,
         consdrv_write, consdrv_free
<1>4. ASSUME NEW l, l # "got", NEW m \in Places(Consdrv) \ {"got"},
             Moves(Consdrv, l, m),
             \/ Computes \/ INTR_ENABLE \/ thread_setintr
             \/ \E k : thread_kzmalloc(k) \/ thread_kmfree(k)
      PROVE  ThreadInv' /\ FlowsStay /\ Goes(Consdrv, l, m)
  <2>1. Moved(Consdrv, l, m)
    BY <1>4, MovesMoves DEF ThreadInv
  <2>2. Quiet1(Consdrv)
    BY <1>2, <1>4, QuietCalls
  <2>3. QED
    BY <1>4, <2>1, <2>2, QuietKeepsFlows DEF Goes, Quiet1
<1>5. ASSUME NEW m \in Places(Consdrv) \ {"got"}, Moves(Consdrv, "got", m),
             Computes \/ INTR_DISABLE
      PROVE  /\ ThreadInv' /\ Goes(Consdrv, "got", m) /\ mode' = mode
             /\ Takes(Consdrv, Out) /\ Out' = Tail(Out) /\ In' = In
  <2>1. Moved(Consdrv, "got", m)
    BY <1>5, MovesMoves DEF ThreadInv
  <2>2. Quiet1(Consdrv) /\ param' = param /\ mode' = mode
    BY <1>2, <1>5, QuietCalls DEF Computes, INTR_DISABLE, vars, userVars
  <2>3. QED
    BY <1>5, <2>1, <2>2, TakeStep DEF Takes, Goes, Quiet1
<1>6. {"recv", "send_buf", "recv_buf", "serial_init", "copy", "kick", "unmask", "free"}
        \subseteq Places(Consdrv) \ {"got"}
  BY ThreadsOfConsole DEF Places
<1>7. CASE consdrv_init
  <2>1. ThreadInv' /\ FlowsStay /\ Goes(Consdrv, "setintr", "recv")
    BY <1>4, <1>6, <1>7 DEF consdrv_init
  <2>2. Holds
    BY <1>7, CallsHold DEF consdrv_init
  <2>3. QED
    BY <1>3, <1>7, <2>1, <2>2 DEF consdrv_init, ConsdrvDoes
<1>8. CASE consdrv_recv
  <2>1. Moved(Consdrv, "recv", "got") /\ thread_recv("output")
    BY <1>8, MovesMoves DEF ThreadInv, consdrv_recv
  <2>2. ThreadInv' /\ FlowsStay
    BY <1>2, <2>1, ReceiveStep, ThreadsOfConsole DEF BoxOf
  <2>3. Holds /\ mode = "user"
    BY <2>1, CallsHold DEF thread_recv, kz_syscall
  <2>4. QED
    BY <1>3, <1>8, <2>1, <2>2, <2>3 DEF ConsdrvDoes, Goes, consdrv_recv, consVars
<1>9. CASE consdrv_use
  <2>1. CASE /\ Moves(Consdrv, "got", "send_buf") /\ param[Consdrv].p.cmd = "use"
             /\ Computes /\ req' = param[Consdrv].p
             /\ consid' = param[Consdrv].sender
             /\ UNCHANGED <<send_buf, recv_buf, devVars>>
    <3>1. /\ ThreadInv' /\ Goes(Consdrv, "got", "send_buf") /\ mode' = mode
          /\ Takes(Consdrv, Out) /\ Out' = Tail(Out) /\ In' = In
      BY <1>5, <1>6, <2>1
    <3>2. Holds
      BY <2>1, CallsHold
    <3>3. QED
      BY <1>3, <2>1, <3>1, <3>2 DEF ConsdrvDoes, Takes
  <2>2. ASSUME NEW l \in {"send_buf", "recv_buf"}, NEW m \in {"recv_buf", "serial_init"},
               Moves(Consdrv, l, m), l = "send_buf" <=> m = "recv_buf",
               thread_kzmalloc(PoolOf(CONS_BUFFER_SIZE)),
               UNCHANGED <<req, consVars, devVars>>
        PROVE  ThreadInv' /\ ConsdrvDoes
    <3>1. ThreadInv' /\ FlowsStay /\ Goes(Consdrv, l, m)
      BY <1>4, <1>6, <2>2
    <3>2. Allocs(LineBlock)
      BY <2>2, MallocAllocs DEF LineBlock
    <3>3. QED
      BY <1>3, <2>2, <3>1, <3>2 DEF ConsdrvDoes, consVars
  <2>3. CASE /\ Moves(Consdrv, "serial_init", "free") /\ Computes
             /\ send_buf' = <<>> /\ recv_buf' = <<>> /\ tie' = FALSE /\ rie' = TRUE
             /\ tdre' = FALSE /\ rdrf' = FALSE /\ UNCHANGED <<req, consid, tdr, rdr>>
    <3>1. ThreadInv' /\ FlowsStay /\ Goes(Consdrv, "serial_init", "free")
      BY <1>4, <1>6, <2>3
    <3>2. Holds
      BY <2>3, CallsHold
    <3>3. QED
      BY <1>3, <2>3, <3>1, <3>2 DEF ConsdrvDoes
  <2>4. QED
    BY <1>9, <2>1, <2>2, <2>3 DEF consdrv_use
<1>10. CASE consdrv_mask
  <2>1. /\ ThreadInv' /\ Goes(Consdrv, "got", "copy") /\ mode' = mode
        /\ Takes(Consdrv, Out) /\ Out' = Tail(Out) /\ In' = In
    BY <1>5, <1>6, <1>10 DEF consdrv_mask
  <2>2. Holds
    BY <1>10, CallsHold DEF consdrv_mask
  <2>3. QED
    BY <1>3, <1>10, <2>1, <2>2 DEF ConsdrvDoes, consdrv_mask, Takes, consVars
<1>11. CASE consdrv_write
  <2>1. /\ Holds
        /\ UNCHANGED <<req, consid, recv_buf, rie, rdrf, rdr>>
    BY <1>11, CallsHold DEF consdrv_write
  <2>2. /\ tie \in BOOLEAN => tie' \in BOOLEAN
        /\ tdre \in BOOLEAN => tdre' \in BOOLEAN
    BY <1>11 DEF consdrv_write, send_string, send_char
  <2>3. /\ ThreadInv' /\ FlowsStay
        /\ \/ \E m \in {"kick", "unmask"} : Goes(Consdrv, "copy", m)
           \/ Goes(Consdrv, "kick", "unmask")
           \/ Goes(Consdrv, "unmask", "free")
    <3>1. ASSUME NEW m \in {"kick", "unmask"}, Moves(Consdrv, "copy", m), Computes
          PROVE  ThreadInv' /\ FlowsStay /\ Goes(Consdrv, "copy", m)
      BY <1>4, <1>6, <3>1
    <3>2. ASSUME Moves(Consdrv, "kick", "unmask"), Computes
          PROVE  ThreadInv' /\ FlowsStay /\ Goes(Consdrv, "kick", "unmask")
      BY <1>4, <1>6, <3>2
    <3>3. ASSUME Moves(Consdrv, "unmask", "free"), INTR_ENABLE
          PROVE  ThreadInv' /\ FlowsStay /\ Goes(Consdrv, "unmask", "free")
      BY <1>4, <1>6, <3>3
    <3>4. QED
      BY <1>11, <3>1, <3>2, <3>3 DEF consdrv_write
  <2>4. QED
    BY <1>3, <2>1, <2>2, <2>3 DEF ConsdrvDoes
<1>12. CASE consdrv_free
  <2>1. ThreadInv' /\ FlowsStay /\ Goes(Consdrv, "free", "recv")
    BY <1>4, <1>6, <1>12 DEF consdrv_free
  <2>2. Frees(Block(req))
    BY <1>12 DEF consdrv_free, thread_kmfree, FreeHeld, Frees, Block
  <2>3. QED
    BY <1>3, <1>12, <2>1, <2>2 DEF consdrv_free, ConsdrvDoes, consVars
<1>13. QED
  BY <1>7, <1>8, <1>9, <1>10, <1>11, <1>12 DEF consdrv_main

LEMMA HandlerDoesSo ==
  ASSUME IInv, ThreadInv, NEW C, Alphabet(C), TextInv(C),
         serial_intr \/ consdrv_intrproc
  PROVE  ThreadInv' /\ HandlerDoes
<1>1. /\ pc' = pc
      /\ UNCHANGED <<req, line, todo, consid, rie, rdr, typistVars, received>>
  BY DEF serial_intr, consdrv_intrproc, intr_recv, intr_kick, intr_store, intr_post,
         intr_send, intr_return, threadVars, consVars, devVars
<1>2. /\ tie \in BOOLEAN => tie' \in BOOLEAN
      /\ tdre \in BOOLEAN => tdre' \in BOOLEAN
  BY DEF serial_intr, consdrv_intrproc, intr_recv, intr_kick, intr_store, intr_post,
         intr_send, intr_return, devVars, send_string, send_char
<1>3. ASSUME UNCHANGED <<receiver, msgs, live, param>>, mode # "down"
      PROVE  ThreadInv' /\ FlowsStay
  BY <1>1, <1>3, OutsideKeepsThreads DEF Running
<1>4. CASE serial_intr
  <2>1. ThreadInv' /\ FlowsStay /\ Holds
    BY <1>3, <1>4 DEF serial_intr, thread_intr, boxVars, memVars, tcbVars, userVars, Holds
  <2>2. QED
    BY <1>1, <1>2, <1>4, <2>1 DEF serial_intr, thread_intr, HandlerDoes, consVars, devVars
<1>5. CASE intr_recv \/ intr_kick \/ intr_send
  <2>1. UNCHANGED vars /\ mode = "intr"
    BY <1>5 DEF intr_recv, intr_kick, intr_send, HandlerMoves
  <2>2. ThreadInv' /\ FlowsStay /\ Holds /\ mode' = mode
    BY <1>3, <2>1 DEF vars, boxVars, memVars, tcbVars, userVars, Holds
  <2>3. CASE intr_recv
    <3>1. CASE /\ rdrf /\ ch' = Newline(rdr) /\ rdrf' = FALSE
               /\ HandlerMoves("enter", IF Kicks(<<ch'>>) THEN "kick" ELSE "store")
      <4>1. \E m \in {"kick", "store"} : Serves("enter", m)
        BY <3>1 DEF HandlerMoves, Serves
      <4>2. recv_buf' = recv_buf
        BY <2>3 DEF intr_recv
      <4>3. QED
        BY <1>1, <1>2, <2>2, <3>1, <4>1, <4>2 DEF HandlerDoes
    <3>2. CASE \E m \in {"send", "end"} :
                 HandlerMoves("enter", m) /\ UNCHANGED <<ch, rdrf>>
      <4>1. \E m \in {"send", "end"} : Serves("enter", m)
        BY <3>2 DEF HandlerMoves, Serves
      <4>2. recv_buf' = recv_buf
        BY <2>3 DEF intr_recv
      <4>3. QED
        BY <1>1, <1>2, <2>2, <3>2, <4>1, <4>2 DEF HandlerDoes, Serves
    <3>3. QED
      BY <2>3, <3>1, <3>2 DEF intr_recv
  <2>4. CASE intr_kick
    <3>1. Serves("kick", "store") /\ UNCHANGED <<ch, rdrf, recv_buf>>
      BY <2>4 DEF intr_kick, HandlerMoves, Serves
    <3>2. QED
      BY <1>1, <1>2, <2>2, <3>1 DEF HandlerDoes, Serves
  <2>5. CASE intr_send
    <3>1. Serves("send", "end") /\ UNCHANGED <<ch, rdrf, recv_buf>>
      BY <2>5 DEF intr_send, HandlerMoves, Serves
    <3>2. QED
      BY <1>1, <1>2, <2>2, <3>1 DEF HandlerDoes, Serves
  <2>6. QED
    BY <1>5, <2>3, <2>4, <2>5
<1>6. CASE intr_store
  <2>1. CASE /\ ch # "\n" /\ HandlerMoves("store", "send")
             /\ recv_buf' = Append(recv_buf, ch) /\ UNCHANGED vars
    <3>1. Serves("store", "send") /\ UNCHANGED <<ch, rdrf>>
      BY <1>6, <2>1 DEF HandlerMoves, Serves, intr_store, devVars
    <3>2. ThreadInv' /\ FlowsStay /\ Holds /\ mode' = mode
      BY <1>3, <2>1, <3>1 DEF vars, boxVars, memVars, tcbVars, userVars, Holds, Serves
    <3>3. QED
      BY <1>1, <1>2, <2>1, <3>1, <3>2 DEF HandlerDoes
  <2>2. CASE /\ ch = "\n" /\ HandlerMoves("store", "post")
             /\ kx_kmalloc(LineBlock) /\ recv_buf' = recv_buf
    <3>1. Serves("store", "post") /\ UNCHANGED <<ch, rdrf>>
      BY <1>6, <2>2 DEF HandlerMoves, Serves, intr_store, devVars
    <3>2. ThreadInv' /\ FlowsStay /\ mode' # "user"
      BY <1>3, <2>2 DEF kx_kmalloc, boxVars, tcbVars, userVars
    <3>3. Allocs(LineBlock)
      BY <2>2, MallocAllocs
    <3>4. QED
      BY <1>1, <1>2, <2>2, <3>1, <3>2, <3>3 DEF HandlerDoes
  <2>3. QED
    BY <1>6, <2>1, <2>2 DEF intr_store, LineBlock
<1>7. CASE intr_post
  <2>1. Serves("post", "send") /\ UNCHANGED <<ch, rdrf>> /\ recv_buf' = <<>>
    BY <1>7 DEF HandlerMoves, Serves, intr_post, devVars
  <2>2. kx_send("input", Line(recv_buf)) /\ mode' # "user"
    BY <1>7 DEF intr_post, kx_send
  <2>3. Line(recv_buf) \in Payload
    <3>1. recv_buf \in Seq(C)
      BY SeqMonotonic DEF TextInv
    <3>2. QED
      BY <3>1 DEF Alphabet
  <2>4. /\ ThreadInv' /\ Out' = Out
        /\ Running' => In' = Append(In, [sender |-> NULL, p |-> Line(recv_buf)])
    BY <1>1, <2>2, <2>3, LineStep
  <2>5. Holds
    BY <2>2, CallsHold
  <2>6. QED
    BY <1>1, <1>2, <2>1, <2>2, <2>4, <2>5 DEF HandlerDoes
<1>8. CASE intr_return
  <2>1. Serves("end", "end") /\ UNCHANGED <<ch, rdrf, tie, recv_buf>>
    BY <1>8 DEF intr_return, intr_end, Serves, handlerVars, consVars, devVars
  <2>2. ThreadInv' /\ FlowsStay /\ Holds
    BY <1>3, <1>8 DEF intr_return, intr_end, boxVars, memVars, tcbVars, userVars, Holds
  <2>3. QED
    BY <1>1, <1>2, <2>1, <2>2 DEF HandlerDoes, Serves
<1>9. QED
  BY <1>4, <1>5, <1>6, <1>7, <1>8 DEF consdrv_intrproc

LEMMA OthersDoSo ==
  ASSUME IInv, ThreadInv,
         start_threads \/ idle_sleep \/ Transmit \/ Type \/ UNCHANGED cvars
  PROVE  ThreadInv' /\ OthersDo
<1>1. UNCHANGED <<req, line, todo, consid, recv_buf, rie, tie, handlerVars, received>>
  BY DEF start_threads, idle_sleep, Transmit, Type, cvars, threadVars, consVars, devVars
<1>2. tdre \in BOOLEAN => tdre' \in BOOLEAN
  BY DEF start_threads, idle_sleep, Transmit, Type, cvars, devVars
<1>3. CASE start_threads \/ idle_sleep
  <2>1. /\ ThreadInv' /\ FlowsStay /\ mode = "user"
        /\ pc'[Consdrv] = pc[Consdrv] /\ pc'[Command] = pc[Command]
    BY <1>3, StartStep
  <2>2. Holds
    BY <1>3, CallsHold DEF start_threads, idle_sleep
  <2>3. mode' # "intr"
    BY <1>3, <2>1 DEF start_threads, idle_sleep, thread_run, thread_chpri, schedule,
         kz_sysdown, INTR_ENABLE, Computes, vars
  <2>4. UNCHANGED <<rdrf, rdr, typistVars>>
    BY <1>3 DEF start_threads, idle_sleep, devVars
  <2>5. QED
    BY <1>1, <1>2, <2>1, <2>2, <2>3, <2>4 DEF OthersDo
<1>4. CASE Transmit \/ Type \/ UNCHANGED cvars
  <2>1. UNCHANGED vars /\ pc' = pc
    BY <1>4 DEF Transmit, Type, cvars, threadVars
  <2>2. ThreadInv' /\ FlowsStay /\ Holds /\ mode' = mode
    BY <2>1, OutsideKeepsThreads DEF vars, boxVars, memVars, tcbVars, userVars, Holds,
       Running
  <2>3. \/ UNCHANGED <<rdrf, rdr, typistVars>>
        \/ /\ rie /\ ~rdrf /\ rdrf' = TRUE
           /\ \/ /\ typing # <<>> /\ UNCHANGED typed
                 /\ rdr' = Head(typing) /\ typing' = Tail(typing)
              \/ /\ typing = <<>> /\ Len(typed) < MaxLines
                 /\ \E l \in Lines : /\ typed' = Append(typed, l)
                                     /\ rdr' = Head(Append(l, "\r"))
                                     /\ typing' = Tail(Append(l, "\r"))
    <3>1. CASE Type
      BY <3>1 DEF Type
    <3>2. CASE Transmit \/ UNCHANGED cvars
      BY <3>2 DEF Transmit, cvars, devVars, typistVars
    <3>3. QED
      BY <1>4, <3>1, <3>2
  <2>4. QED
    BY <1>1, <1>2, <2>1, <2>2, <2>3 DEF OthersDo
<1>5. QED
  BY <1>3, <1>4

-------------------------------------------------------------------------------
(***************************************************************************)
(* The life of the console: command_main() sends its use request, consdrv  *)
(* takes it and opens the console, and only writes follow.  Nobody types   *)
(* before the console is open.                                             *)
(***************************************************************************)
Early == pc[Command] \in {"use_alloc", "use_send"}

Opens == {"send_buf", "recv_buf", "serial_init"}

Written == {m \in Message : m.p.cmd = "write"}

Fresh ==
  /\ ~rie /\ ~tie /\ ~rdrf /\ hpc = "end"
  /\ typed = <<>> /\ typing = <<>> /\ recv_buf = <<>> /\ received = <<>>
  /\ In = <<>>

Asks   == /\ Early /\ Fresh /\ Out = <<>>
          /\ pc[Consdrv] \in {"setintr", "recv", "got"}
Asked  == /\ ~Early /\ Fresh /\ Out # <<>> /\ Head(Out).p.cmd = "use"
          /\ Tail(Out) \in Seq(Written)
          /\ pc[Consdrv] \in {"setintr", "recv", "got"}
Opened == ~Early /\ Fresh /\ Out \in Seq(Written) /\ pc[Consdrv] \in Opens
InUse  == ~Early /\ rie /\ Out \in Seq(Written) /\ pc[Consdrv] \notin Opens \cup {"setintr"}

StageInv == Running => Asks \/ Asked \/ Opened \/ InUse

DoesStep == CommandDoes \/ ConsdrvDoes \/ HandlerDoes \/ OthersDo

LEMMA FlowsTyped ==
  ASSUME TypeOK
  PROVE  In \in Seq(Message) /\ Out \in Seq(Message)
BY FlowType, Boxes, ThreadsOfConsole DEF In, Out

LEMMA MessageParts ==
  \A m \in Message : m.sender \in Thread \cup {NULL} /\ m.p \in Payload
BY DEF Message

LEMMA RegsStep ==
  ASSUME ThreadInv, TypeOK, RegsInv, DoesStep
  PROVE  RegsInv'
<1>1. CASE CommandDoes
  <2>1. mode = "user" /\ UNCHANGED <<consid, devVars, hpc>>
    BY <1>1 DEF CommandDoes, Goes, handlerVars
  <2>2. QED
    BY <2>1 DEF RegsInv, devVars
<1>2. CASE ConsdrvDoes
  <2>1. mode = "user" /\ hpc' = hpc
    BY <1>2 DEF ConsdrvDoes, Goes, handlerVars
  <2>2. consid' \in Thread \cup {NULL}
    BY <1>2, MessageParts DEF ConsdrvDoes, RegsInv, Takes
  <2>3. {tie, rie, tdre, rdrf}' \subseteq BOOLEAN
    BY <1>2 DEF ConsdrvDoes, RegsInv, devVars
  <2>4. QED
    BY <2>1, <2>2, <2>3 DEF RegsInv
<1>3. CASE HandlerDoes
  <2>1. consid' = consid /\ {tie, rie, tdre, rdrf}' \subseteq BOOLEAN
    BY <1>3 DEF HandlerDoes, RegsInv
  <2>2. /\ hpc' \in {"enter", "kick", "store", "post", "send", "end"}
        /\ mode' = "user" => hpc' = "end"
    BY <1>3 DEF HandlerDoes, Serves, RegsInv
  <2>3. QED
    BY <2>1, <2>2 DEF RegsInv
<1>4. CASE OthersDo
  BY <1>4 DEF OthersDo, RegsInv, handlerVars
<1>5. QED
  BY <1>1, <1>2, <1>3, <1>4 DEF DoesStep

LEMMA AnswerType ==
  ASSUME NEW C, Alphabet(C), NEW str \in Seq(C)
  PROVE  Answer(str) \in Seq(Seq(C)) /\ Answer(str) # <<>>
<1>1. CASE IsPrefix(Echo, str)
  <2>1. Len(Echo) \in Nat /\ Len(str) \in Nat
    BY LenProperties DEF Alphabet
  <2>2. \A i \in Len(Echo) + 1 .. Len(str) : str[i] \in C
    BY <2>1, ElementOfSeq
  <2>3. SubSeq(str, Len(Echo) + 1, Len(str)) \in Seq(C)
    BY <2>1, <2>2, SubSeqProperties
  <2>4. <<"\n">> \in Seq(C)
    BY DEF Alphabet
  <2>5. QED
    BY <1>1, <2>3, <2>4 DEF Answer
<1>2. CASE ~IsPrefix(Echo, str)
  BY <1>2 DEF Answer, Alphabet
<1>3. QED
  BY <1>1, <1>2

LEMMA WorkStep ==
  ASSUME ThreadInv, TypeOK, NEW C, Alphabet(C), TextInv(C), WorkInv, DoesStep
  PROVE  WorkInv'
<1> USE ThreadsOfConsole
<1> DEFINE TodoInv == /\ pc[Command] \in {"use_alloc", "use_send", "alloc", "send"}
                           => todo # <<>>
                      /\ line \in Payload \cup {NULL}
                      /\ line # NULL => pc[Command] \in {"alloc", "send", "free"}
                      /\ pc[Command] = "free" => line # NULL
           ReqInv == /\ req \in Payload \cup {NULL}
                     /\ req # NULL => req.cmd \in {"use", "write"}
                     /\ req # NULL <=> pc[Consdrv] \in {"send_buf", "recv_buf",
                           "serial_init", "copy", "kick", "unmask", "free"}
<1>1. WorkInv <=> TodoInv /\ ReqInv
  BY DEF WorkInv
<1>2. WorkInv' <=> TodoInv' /\ ReqInv'
  BY DEF WorkInv
<1>3. CASE CommandDoes
  <2>1. req' = req /\ pc'[Consdrv] = pc[Consdrv]
    BY <1>3 DEF CommandDoes, Goes, Moved
  <2>2. ReqInv'
    BY <1>1, <2>1
  <2>3. ASSUME Takes(Command, In), Running, line' = Head(In).p,
               todo' = Answer(line'.str)
        PROVE  line' \in Payload /\ line' # NULL /\ todo' # <<>>
    <3>1. Head(In) \in Texts(C)
      BY <2>3, HeadTailProperties DEF TextInv, Takes
    <3>2. line' \in Payload /\ line'.str \in Seq(C)
      BY <2>3, <3>1, MessageParts DEF Texts
    <3>3. QED
      BY <2>3, <3>2, AnswerType, ConsoleAssumption
  <2>4. TodoInv'
    <3>1. ASSUME NEW l, NEW m, Goes(Command, l, m)
          PROVE  pc[Command] = l /\ pc'[Command] = m /\ Running
      BY <3>1 DEF Goes, Moved, Running
    <3>2. CASE pc[Command] \in {"use_alloc", "use_send", "alloc", "recv"}
      BY <1>1, <1>3, <3>1, <3>2 DEF CommandDoes
    <3>3. CASE pc[Command] = "got"
      BY <1>1, <1>3, <2>3, <3>1, <3>3 DEF CommandDoes
    <3>4. CASE pc[Command] \in {"send", "free"}
      BY <1>1, <1>3, <3>1, <3>4 DEF CommandDoes
    <3>5. QED
      BY <1>3, <3>1, <3>2, <3>3, <3>4 DEF CommandDoes
  <2>5. QED
    BY <1>2, <2>2, <2>4
<1>4. CASE ConsdrvDoes
  <2>1. UNCHANGED <<todo, line>> /\ pc'[Command] = pc[Command]
    BY <1>4 DEF ConsdrvDoes, Goes, Moved
  <2>2. TodoInv'
    BY <1>1, <2>1
  <2>3. Takes(Consdrv, Out) => Head(Out).p \in Payload /\ Head(Out).p # NULL
    BY MessageParts, ConsoleAssumption DEF Takes
  <2>4. ReqInv'
    BY <1>1, <1>4, <2>3 DEF ConsdrvDoes, Goes, Moved
  <2>5. QED
    BY <1>2, <2>2, <2>4
<1>5. CASE HandlerDoes \/ OthersDo
  <2>1. /\ pc'[Command] = pc[Command] /\ pc'[Consdrv] = pc[Consdrv]
        /\ UNCHANGED <<todo, line, req>>
    BY <1>5 DEF HandlerDoes, OthersDo
  <2>2. QED
    BY <1>1, <1>2, <2>1
<1>6. QED
  BY <1>3, <1>4, <1>5 DEF DoesStep

LEMMA TextStep ==
  ASSUME ThreadInv, TypeOK, RegsInv, NEW C, Alphabet(C), TextInv(C), WorkInv, DoesStep,
         Running /\ In # <<>> => Len(received) < Len(typed)
  PROVE  TextInv(C)'
<1> USE ThreadsOfConsole
<1> DEFINE Enters == /\ typing \in Seq(C \cup {"\r"})
                     /\ rdrf => rdr \in C \cup {"\r"}
                     /\ HasCh => ch \in C \ {"\r"}
                     /\ typed \in Seq(Lines) /\ Len(typed) <= MaxLines
           Reading == /\ todo \in Seq(Seq(C))
                      /\ received \in Seq(Seq(C)) /\ Len(received) <= Len(typed)
                      /\ Running => In \in Seq(Texts(C))
           Stored1 == recv_buf \in Seq(C \ {"\r", "\n"})
<1>1. TextInv(C) <=> Enters /\ Reading /\ Stored1
  BY DEF TextInv
<1>2. TextInv(C)' <=> Enters' /\ Reading' /\ Stored1'
  BY DEF TextInv
<1>3. Alphabet(C) /\ Alphabet(C)'
  BY DEF Alphabet
<1>4. CASE CommandDoes
  <2>1. UNCHANGED <<typing, rdrf, rdr, HasCh, ch, typed, recv_buf>> /\ Running
    BY <1>4 DEF CommandDoes, devVars, typistVars, handlerVars, HasCh, Goes, Running
  <2>2. Enters' /\ Stored1'
    BY <1>1, <2>1
  <2>3. ASSUME Takes(Command, In), In' = Tail(In), line' = Head(In).p,
               todo' = Answer(line'.str), received' = Append(received, line'.str)
        PROVE  Reading'
    <3>1. Head(In) \in Texts(C) /\ Tail(In) \in Seq(Texts(C))
      BY <2>1, <2>3, HeadTailProperties DEF TextInv, Takes
    <3>2. line'.str \in Seq(C)
      BY <2>3, <3>1 DEF Texts
    <3>3. received' \in Seq(Seq(C)) /\ Len(received') = Len(received) + 1
      BY <1>1, <2>3, <3>2, AppendProperties
    <3>4. Len(received) \in Nat /\ Len(typed) \in Nat
      BY <1>1, LenProperties
    <3>5. todo' \in Seq(Seq(C))
      BY <2>3, <3>2, AnswerType
    <3>6. Len(received') <= Len(typed')
      BY <2>1, <2>3, <3>3, <3>4 DEF Takes
    <3>7. QED
      BY <2>3, <3>1, <3>3, <3>5, <3>6 DEF Texts
  <2>4. ASSUME pc[Command] = "got" PROVE Reading'
    <3>1. Takes(Command, In) /\ In' = Tail(In) /\ line' = Head(In).p
          /\ todo' = Answer(line'.str) /\ received' = Append(received, line'.str)
      BY <1>4, <2>4 DEF CommandDoes, Goes, Moved
    <3>2. QED
      BY <2>3, <3>1
  <2>5. ASSUME pc[Command] # "got" PROVE Reading'
    <3>1. received' = received /\ In' = In
      BY <1>4, <2>5 DEF CommandDoes, Goes, Moved, FlowsStay, Requests
    <3>2. \/ todo' = todo
          \/ pc[Command] = "send" /\ todo' = Tail(todo)
          \/ todo' = <<Prompt>>
      BY <1>4, <2>5 DEF CommandDoes, Goes, Moved
    <3>3. todo' \in Seq(Seq(C))
      <4>1. CASE pc[Command] = "send" /\ todo' = Tail(todo)
        BY <1>1, <4>1, HeadTailProperties DEF WorkInv
      <4>2. CASE todo' = <<Prompt>>
        BY <4>2 DEF Alphabet
      <4>3. QED
        BY <1>1, <3>2, <4>1, <4>2
    <3>4. QED
      BY <1>1, <2>1, <3>1, <3>3 DEF Texts
  <2>6. QED
    BY <1>2, <2>2, <2>4, <2>5
<1>5. CASE ConsdrvDoes
  <2>1. /\ UNCHANGED <<typing, HasCh, ch, typed, todo, received, In>> /\ Running
        /\ UNCHANGED <<rdr, rdrf>> \/ ~rdrf'
        /\ recv_buf' = recv_buf \/ recv_buf' = <<>>
    BY <1>5 DEF ConsdrvDoes, devVars, typistVars, handlerVars, HasCh, Goes, Running,
                FlowsStay
  <2>2. Enters'
    BY <1>1, <2>1
  <2>3. Reading'
    BY <1>1, <2>1 DEF Texts
  <2>4. Stored1'
    BY <1>1, <2>1, EmptySeq
  <2>5. QED
    BY <1>2, <2>2, <2>3, <2>4
<1>6. CASE HandlerDoes
  <2>1. UNCHANGED <<typing, rdr, typed, todo, received>> /\ Running
    BY <1>6 DEF HandlerDoes, typistVars, Serves, Running
  <2>2. Running' => In' \in Seq(Texts(C))
    <3>1. CASE In' = In
      BY <1>1, <2>1, <3>1 DEF Texts
    <3>2. CASE Running' => In' = Append(In, [sender |-> NULL, p |-> Line(recv_buf)])
      <4> DEFINE m == [sender |-> NULL, p |-> Line(recv_buf)]
      <4>1. recv_buf \in Seq(C)
        BY <1>1, SeqMonotonic
      <4>2. Line(recv_buf) \in Payload /\ Line(recv_buf).str = recv_buf
        BY <4>1 DEF Alphabet, Line
      <4>3. m \in Texts(C)
        BY <4>1, <4>2 DEF Texts, Message
      <4> HIDE DEF m
      <4>4. Append(In, m) \in Seq(Texts(C))
        BY <1>1, <2>1, <4>3, AppendProperties
      <4>5. QED
        BY <3>2, <4>4 DEF m
    <3>3. QED
      BY <1>6, <3>1, <3>2 DEF HandlerDoes, FlowsStay
  <2>3. Reading'
    BY <1>1, <2>1, <2>2 DEF Texts
  <2>4. HasCh' => ch' \in C \ {"\r"}
    <3>1. CASE ch' = Newline(rdr) /\ rdrf
      BY <1>1, <3>1 DEF Newline, Alphabet
    <3>2. CASE ch' = ch /\ (HasCh' => HasCh)
      BY <1>1, <3>2
    <3>3. QED
      BY <1>6, <3>1, <3>2 DEF HandlerDoes, Serves, HasCh
  <2>5. rdrf' => rdrf
    BY <1>6 DEF HandlerDoes
  <2>6. Enters'
    BY <1>1, <2>1, <2>4, <2>5
  <2>7. Stored1'
    <3>1. CASE ch # "\n" /\ hpc = "store" /\ recv_buf' = Append(recv_buf, ch)
      <4>1. ch \in C \ {"\r", "\n"}
        BY <1>1, <3>1 DEF HasCh
      <4>2. QED
        BY <1>1, <3>1, <4>1, AppendProperties
    <3>2. CASE recv_buf' = recv_buf \/ recv_buf' = <<>>
      BY <1>1, <3>2, EmptySeq
    <3>3. QED
      BY <1>6, <3>1, <3>2 DEF HandlerDoes, Serves
  <2>8. QED
    BY <1>2, <2>3, <2>6, <2>7
<1>7. CASE OthersDo
  <2>1. /\ UNCHANGED <<HasCh, ch, recv_buf, todo, received, In>>
        /\ Running' => Running
    BY <1>7 DEF OthersDo, handlerVars, HasCh, Running, FlowsStay
  <2>2. Len(typed) \in Nat /\ Len(received) \in Nat /\ MaxLines \in Nat
    BY <1>1, LenProperties, ConsoleAssumption
  <2>3. /\ typing' \in Seq(C \cup {"\r"}) /\ (rdrf' => rdr' \in C \cup {"\r"})
        /\ typed' \in Seq(Lines) /\ Len(typed') <= MaxLines /\ Len(typed') >= Len(typed)
    <3>1. CASE UNCHANGED <<rdrf, rdr, typistVars>>
      BY <1>1, <2>2, <3>1 DEF typistVars
    <3>2. CASE /\ typing # <<>> /\ UNCHANGED typed
               /\ rdr' = Head(typing) /\ typing' = Tail(typing)
      BY <1>1, <2>2, <3>2, HeadTailProperties
    <3>3. ASSUME NEW l \in Lines, typed' = Append(typed, l), Len(typed) < MaxLines,
                 rdr' = Head(Append(l, "\r")), typing' = Tail(Append(l, "\r"))
          PROVE  /\ typing' \in Seq(C \cup {"\r"}) /\ rdr' \in C \cup {"\r"}
                 /\ typed' \in Seq(Lines) /\ Len(typed') <= MaxLines
                 /\ Len(typed') >= Len(typed)
      <4>1. l \in Seq(C)
        BY DEF Alphabet
      <4>2. l \in Seq(C \cup {"\r"})
        BY <4>1, SeqMonotonic
      <4>3. Append(l, "\r") \in Seq(C \cup {"\r"}) /\ Append(l, "\r") # <<>>
        BY <4>2, AppendProperties
      <4>4. /\ Head(Append(l, "\r")) \in C \cup {"\r"}
            /\ Tail(Append(l, "\r")) \in Seq(C \cup {"\r"})
        BY <4>3, HeadTailProperties
      <4>5. typed' \in Seq(Lines) /\ Len(typed') = Len(typed) + 1
        BY <1>1, <3>3, AppendProperties
      <4>6. QED
        BY <2>2, <3>3, <4>4, <4>5
    <3>4. QED
      BY <1>7, <3>1, <3>2, <3>3 DEF OthersDo
  <2>4. Len(typed') \in Nat
    BY <2>3, LenProperties
  <2>5. QED
    BY <1>1, <1>2, <2>1, <2>2, <2>3, <2>4 DEF Texts
<1>8. QED
  BY <1>4, <1>5, <1>6, <1>7 DEF DoesStep

LEMMA FitsStep ==
  ASSUME ThreadInv, TypeOK, NEW C, Alphabet(C), TextInv(C), WorkInv, FitsInv, DoesStep
  PROVE  FitsInv'
<1> USE ThreadsOfConsole
<1> SUFFICES ASSUME Running' PROVE FitsInv'
  BY DEF FitsInv
<1>1. Running
  BY DEF DoesStep, CommandDoes, ConsdrvDoes, HandlerDoes, OthersDo, Goes, Serves, Running
<1>2. /\ Out \in Seq(Fitting)
      /\ In # <<>> \/ line # NULL \/ hpc = "post" => LineBlock \in Pool
      /\ req # NULL => Block(req) \in Pool
      /\ pc[Command] = "use_send" => PoolOf(3) \in Pool
      /\ pc[Command] = "send" => PoolOf(Len(Head(todo)) + 2) \in Pool
  BY <1>1 DEF FitsInv
<1> DEFINE Sending == /\ pc[Command] = "use_send" => PoolOf(3) \in Pool
                      /\ pc[Command] = "send" => PoolOf(Len(Head(todo)) + 2) \in Pool
           Lined == In # <<>> \/ line # NULL \/ hpc = "post" => LineBlock \in Pool
           Freeing == req # NULL => Block(req) \in Pool
           Blocked == Out \in Seq(Fitting)
<1>3. FitsInv' <=> Sending' /\ Lined' /\ Freeing' /\ Blocked'
  BY DEF FitsInv, Fitting, LineBlock, Block, PoolOf
<1>4. CASE CommandDoes
  <2>1. UNCHANGED <<req, hpc>>
    BY <1>4 DEF CommandDoes, handlerVars
  <2>2. Sending'
    BY <1>4 DEF CommandDoes, Goes, Moved, Allocs
  <2>3. Lined'
    <3>1. CASE pc[Command] = "got"
      BY <1>2, <1>4, <3>1 DEF CommandDoes, Goes, Moved, Takes
    <3>2. CASE pc[Command] # "got"
      <4>1. In' = In /\ (line' = line \/ line' = NULL)
        BY <1>4, <3>2 DEF CommandDoes, Goes, Moved, FlowsStay, Requests
      <4>2. QED
        BY <1>2, <2>1, <4>1 DEF LineBlock
    <3>3. QED
      BY <3>1, <3>2
  <2>4. Blocked'
    <3>1. ASSUME NEW x \in Payload, Block(x) \in Pool, Requests(x) PROVE Blocked'
      <4> DEFINE m == [sender |-> Command, p |-> x]
      <4>1. m \in Fitting
        BY <3>1 DEF Fitting, Message
      <4> HIDE DEF m
      <4>2. Append(Out, m) \in Seq(Fitting)
        BY <1>2, <4>1, AppendProperties
      <4>3. Out' = Append(Out, m)
        BY <3>1 DEF Requests, m
      <4>4. QED
        BY <4>2, <4>3 DEF Fitting, Block
    <3>2. CASE Requests(Use) /\ pc[Command] = "use_send"
      <4>1. Use \in Payload /\ Block(Use) = PoolOf(3)
        BY DEF Alphabet, Use, Block
      <4>2. QED
        BY <1>2, <3>1, <3>2, <4>1
    <3>3. CASE Requests(Write(Head(todo))) /\ pc[Command] = "send"
      <4>1. Head(todo) \in Seq(C)
        BY <3>3, HeadTailProperties DEF TextInv, WorkInv
      <4>2. Write(Head(todo)) \in Payload
        BY <4>1 DEF Alphabet
      <4>3. Block(Write(Head(todo))) = PoolOf(Len(Head(todo)) + 2)
        BY DEF Write, Block
      <4>4. QED
        BY <1>2, <3>1, <3>3, <4>2, <4>3
    <3>4. CASE Out' = Out
      BY <1>2, <3>4 DEF Fitting, Block
    <3>5. QED
      BY <1>4, <3>2, <3>3, <3>4 DEF CommandDoes, Goes, Moved, FlowsStay
  <2>5. Freeing'
    BY <1>2, <2>1 DEF Block
  <2>6. QED
    BY <1>3, <2>2, <2>3, <2>4, <2>5
<1>5. CASE ConsdrvDoes
  <2>1. UNCHANGED <<todo, line, hpc, In>> /\ pc'[Command] = pc[Command]
    BY <1>5 DEF ConsdrvDoes, Goes, Moved, handlerVars, FlowsStay
  <2>2. Sending' /\ Lined'
    BY <1>2, <2>1 DEF LineBlock
  <2>3. CASE Out' = Out /\ req' \in {req, NULL}
    <3>1. Freeing' /\ Blocked'
      BY <1>2, <2>3 DEF Block, Fitting
    <3>2. QED
      BY <1>3, <2>2, <3>1
  <2>4. CASE Takes(Consdrv, Out) /\ Out' = Tail(Out) /\ req' = Head(Out).p
    <3>1. Tail(Out) \in Seq(Fitting) /\ Head(Out) \in Fitting
      BY <1>2, <2>4, HeadTailProperties DEF Takes
    <3>2. Block(Head(Out).p) \in Pool
      BY <3>1 DEF Fitting
    <3>3. Freeing'
      BY <2>4, <3>2 DEF Block
    <3>4. Blocked'
      BY <2>4, <3>1 DEF Fitting, Block
    <3>5. QED
      BY <1>3, <2>2, <3>3, <3>4
  <2>5. QED
    BY <1>5, <2>3, <2>4 DEF ConsdrvDoes, FlowsStay
<1>6. CASE HandlerDoes \/ OthersDo
  <2>1. /\ UNCHANGED <<todo, line, req, Out>> /\ pc'[Command] = pc[Command]
    BY <1>6 DEF HandlerDoes, OthersDo, FlowsStay
  <2>2. Sending' /\ Freeing' /\ Blocked'
    BY <1>2, <2>1 DEF Fitting, Block
  <2>3. Lined'
    <3>1. CASE hpc = "store" /\ hpc' = "post"
      BY <1>6, <3>1 DEF HandlerDoes, Serves, OthersDo, handlerVars, Allocs
    <3>2. CASE hpc' = "post" => hpc = "post"
      <4>1. In' = In \/ hpc = "post"
        BY <1>6 DEF HandlerDoes, Serves, OthersDo, FlowsStay
      <4>2. QED
        BY <1>2, <2>1, <3>2, <4>1 DEF LineBlock
    <3>3. hpc' = "post" => hpc \in {"store", "post"}
      BY <1>6 DEF HandlerDoes, Serves, OthersDo, handlerVars
    <3>4. QED
      BY <3>1, <3>2, <3>3
  <2>4. QED
    BY <1>3, <2>2, <2>3
<1>7. QED
  BY <1>4, <1>5, <1>6 DEF DoesStep

LEMMA OutGrows ==
  ASSUME TypeOK, NEW x \in Payload, Requests(x), Running'
  PROVE  /\ Out' # <<>>
         /\ Out = <<>> => Head(Out').p = x /\ Tail(Out') = <<>>
         /\ Out # <<>> => Head(Out') = Head(Out)
         /\ x.cmd = "write" =>
              /\ Out \in Seq(Written) => Out' \in Seq(Written)
              /\ Out # <<>> /\ Tail(Out) \in Seq(Written) => Tail(Out') \in Seq(Written)
<1> DEFINE m == [sender |-> Command, p |-> x]
<1>1. m \in Message /\ m.p = x
  BY ThreadsOfConsole DEF Message
<1>2. Out' = Append(Out, m) /\ Out \in Seq(Message)
  BY FlowsTyped DEF Requests
<1>3. x.cmd = "write" => m \in Written
  BY <1>1 DEF Written
<1> HIDE DEF m
<1>4. /\ Head(Append(Out, m)) = IF Out = <<>> THEN m ELSE Head(Out)
      /\ Tail(Append(Out, m)) = IF Out = <<>> THEN <<>> ELSE Append(Tail(Out), m)
      /\ Append(Out, m) # <<>>
  BY <1>1, <1>2, HeadTailAppend, AppendProperties
<1>5. ASSUME x.cmd = "write", Out \in Seq(Written) PROVE Out' \in Seq(Written)
  BY <1>2, <1>3, <1>5, AppendProperties
<1>6. ASSUME x.cmd = "write", Out # <<>>, Tail(Out) \in Seq(Written)
      PROVE  Tail(Out') \in Seq(Written)
  <2>1. Append(Tail(Out), m) \in Seq(Written)
    BY <1>3, <1>6, AppendProperties
  <2>2. QED
    BY <1>2, <1>4, <1>6, <2>1
<1>7. QED
  BY <1>1, <1>2, <1>4, <1>5, <1>6

LEMMA CommandStage ==
  ASSUME ThreadInv, TypeOK, RegsInv, NEW C, Alphabet(C), TextInv(C), WorkInv, StageInv,
         CommandDoes, Running'
  PROVE  StageInv'
<1>1. /\ UNCHANGED <<rie, tie, rdrf, hpc, typed, typing, recv_buf>>
      /\ pc'[Consdrv] = pc[Consdrv] /\ Running
  BY ThreadsOfConsole DEF CommandDoes, devVars, handlerVars, typistVars, Goes, Moved, Running
<1>2. CASE pc[Command] = "use_send"
  <2>1. Requests(Use) /\ received' = received /\ pc'[Command] = "alloc"
    BY <1>2 DEF CommandDoes, Goes, Moved
  <2>2. Asks
    BY <1>1, <1>2 DEF StageInv, Asked, Opened, InUse, Early
  <2>3. Use \in Payload /\ Use.cmd = "use"
    BY DEF Alphabet, Use
  <2>4. Out' # <<>> /\ Head(Out').p = Use /\ Tail(Out') = <<>>
    BY <2>1, <2>2, <2>3, OutGrows DEF Asks
  <2>5. In' = In
    BY <2>1 DEF Requests
  <2>6. Asked'
    BY <1>1, <2>1, <2>2, <2>3, <2>4, <2>5, EmptySeq DEF Asks, Asked, Early, Fresh
  <2>7. QED
    BY <2>6 DEF StageInv
<1>3. CASE pc[Command] = "send"
  <2>1. Requests(Write(Head(todo))) /\ received' = received
        /\ pc'[Command] \in {"alloc", "recv", "free"}
    BY <1>3 DEF CommandDoes, Goes, Moved
  <2>2. ~Early /\ ~Early'
    BY <1>3, <2>1 DEF Early
  <2>3. Write(Head(todo)) \in Payload /\ Write(Head(todo)).cmd = "write"
    <3>1. Head(todo) \in Seq(C)
      BY <1>3, HeadTailProperties DEF TextInv, WorkInv
    <3>2. QED
      BY <3>1 DEF Alphabet, Write
  <2>4. /\ Out' # <<>>
        /\ Out # <<>> => Head(Out') = Head(Out)
        /\ Out \in Seq(Written) => Out' \in Seq(Written)
        /\ Out # <<>> /\ Tail(Out) \in Seq(Written) => Tail(Out') \in Seq(Written)
    BY <2>1, <2>3, OutGrows
  <2>5. Fresh => Fresh'
    BY <1>1, <2>1 DEF Fresh, Requests
  <2>6. QED
    BY <1>1, <2>2, <2>4, <2>5 DEF StageInv, Asks, Asked, Opened, InUse
<1>4. CASE pc[Command] = "got"
  <2>1. Takes(Command, In) /\ Out' = Out /\ pc'[Command] = "alloc"
    BY <1>4 DEF CommandDoes, Goes, Moved
  <2>2. ~Fresh /\ ~Early /\ ~Early'
    BY <1>4, <2>1 DEF Fresh, Takes, Early
  <2>3. InUse
    BY <1>1, <2>2 DEF StageInv, Asks, Asked, Opened
  <2>4. InUse'
    BY <1>1, <2>1, <2>2, <2>3 DEF InUse, Written
  <2>5. QED
    BY <2>4 DEF StageInv
<1>5. CASE pc[Command] \notin {"use_send", "send", "got"}
  <2>1. /\ FlowsStay /\ received' = received
        /\ Early' <=> Early
    BY <1>5 DEF CommandDoes, Goes, Moved, Early
  <2>2. Fresh' <=> Fresh
    BY <1>1, <2>1 DEF Fresh, FlowsStay
  <2>3. QED
    BY <1>1, <2>1, <2>2 DEF StageInv, Asks, Asked, Opened, InUse, FlowsStay, Written
<1>6. QED
  BY <1>2, <1>3, <1>4, <1>5

LEMMA ConsdrvStage ==
  ASSUME ThreadInv, TypeOK, RegsInv, WorkInv, StageInv, ConsdrvDoes, Running'
  PROVE  StageInv'
<1>1. /\ UNCHANGED <<hpc, typed, typing, received, In>>
      /\ pc'[Command] = pc[Command] /\ Running
  BY ThreadsOfConsole DEF ConsdrvDoes, handlerVars, typistVars, Goes, Moved, FlowsStay, Running
<1>2. Early' <=> Early
  BY <1>1 DEF Early
<1>3. CASE pc[Consdrv] \in {"setintr", "recv"}
  <2>1. /\ UNCHANGED <<rie, tie, rdrf, Out>>
        /\ recv_buf' = recv_buf \/ recv_buf' = <<>>
        /\ pc'[Consdrv] \in {"recv", "got"}
    BY <1>3 DEF ConsdrvDoes, Goes, Moved, FlowsStay, devVars
  <2>2. Fresh => Fresh'
    BY <1>1, <2>1 DEF Fresh
  <2>3. QED
    BY <1>1, <1>2, <1>3, <2>1, <2>2
       DEF StageInv, Asks, Asked, Opened, InUse, Written, Opens
<1>4. CASE pc[Consdrv] = "got" /\ Takes(Consdrv, Out) /\ Out' = Tail(Out)
           /\ req' = Head(Out).p /\ UNCHANGED <<recv_buf, rie, tie, rdrf>>
  <2>1. Fresh => Fresh'
    BY <1>1, <1>4 DEF Fresh
  <2>2. Head(Out).p.cmd = "use" => Asked
    <3>1. Out \in Seq(Written) => Head(Out).p.cmd = "write"
      BY <1>4, HeadTailProperties DEF Takes, Written
    <3>2. QED
      BY <1>1, <1>4, <3>1 DEF StageInv, Asks, Opened, InUse, Takes
  <2>3. Head(Out).p.cmd = "write" => InUse
    BY <1>1, <1>4 DEF StageInv, Asks, Asked, Opened, Takes, Opens
  <2>4. CASE pc'[Consdrv] = "send_buf" /\ req'.cmd = "use"
    <3>1. Opened'
      BY <1>2, <1>4, <2>1, <2>2, <2>4 DEF Asked, Opened, Opens, Written
    <3>2. QED
      BY <3>1 DEF StageInv
  <2>5. CASE pc'[Consdrv] = "copy" /\ req'.cmd = "write"
    <3>1. Tail(Out) \in Seq(Written)
      BY <1>4, <2>3, <2>5, HeadTailProperties DEF InUse, Takes
    <3>2. InUse'
      BY <1>2, <1>4, <2>3, <2>5, <3>1 DEF InUse, Opens, Written
    <3>3. QED
      BY <3>2 DEF StageInv
  <2>6. QED
    BY <1>4, <2>4, <2>5 DEF ConsdrvDoes, Goes, Moved
<1>5. CASE pc[Consdrv] \in {"send_buf", "recv_buf"}
  <2>1. /\ UNCHANGED <<rie, tie, rdrf, Out, recv_buf>>
        /\ pc'[Consdrv] \in Opens
    BY <1>5 DEF ConsdrvDoes, Goes, Moved, FlowsStay, devVars, Opens
  <2>2. Opened /\ Fresh'
    BY <1>1, <1>5, <2>1 DEF StageInv, Asks, Asked, InUse, Opens, Fresh, Opened
  <2>3. Opened'
    BY <1>2, <2>1, <2>2 DEF Opened, Written
  <2>4. QED
    BY <2>3 DEF StageInv
<1>6. CASE pc[Consdrv] \in {"serial_init", "copy", "kick", "unmask", "free"}
  <2>1. Out' = Out /\ pc'[Consdrv] \in {"kick", "unmask", "free", "recv"}
    BY <1>6 DEF ConsdrvDoes, Goes, Moved, FlowsStay
  <2>2. Opened \/ InUse
    BY <1>1, <1>6 DEF StageInv, Asks, Asked
  <2>3. rie'
    <3>1. Opened => pc[Consdrv] = "serial_init"
      BY <1>6 DEF Opened, Opens
    <3>2. pc[Consdrv] = "serial_init" => rie'
      BY DEF ConsdrvDoes, Goes, Moved
    <3>3. pc[Consdrv] # "serial_init" => rie' = rie
      BY <1>6 DEF ConsdrvDoes, Goes, Moved, devVars
    <3>4. QED
      BY <2>2, <3>1, <3>2, <3>3 DEF InUse
  <2>4. InUse'
    BY <1>2, <2>1, <2>2, <2>3 DEF Opened, InUse, Opens, Written
  <2>5. QED
    BY <2>4 DEF StageInv
<1>7. QED
  BY <1>3, <1>4, <1>5, <1>6 DEF ConsdrvDoes, Goes, Moved, devVars

LEMMA OutsideStage ==
  ASSUME ThreadInv, TypeOK, RegsInv, StageInv, HandlerDoes \/ OthersDo, Running'
  PROVE  StageInv'
<1>1. pc'[Command] = pc[Command] /\ pc'[Consdrv] = pc[Consdrv] /\ Out' = Out
  BY DEF HandlerDoes, OthersDo, FlowsStay
<1>2. Running /\ rie' = rie
  BY DEF HandlerDoes, OthersDo, Running, Serves
<1>3. Fresh => Fresh'
  <2> SUFFICES ASSUME Fresh PROVE Fresh'
    OBVIOUS
  <2>1. CASE HandlerDoes
    <3>1. mode = "intr" /\ hpc' = "end" /\ FlowsStay
          /\ UNCHANGED <<rdrf, recv_buf>>
      BY <2>1 DEF HandlerDoes, Fresh, Serves
    <3>2. UNCHANGED <<rie, typed, typing, received>> /\ tie' = FALSE
      BY <2>1 DEF HandlerDoes, Serves, Fresh, typistVars
    <3>3. QED
      BY <3>1, <3>2 DEF Fresh, FlowsStay
  <2>2. CASE OthersDo
    BY <2>2 DEF OthersDo, Fresh, FlowsStay, handlerVars, typistVars
  <2>3. QED
    BY <2>1, <2>2
<1>4. QED
  BY <1>1, <1>2, <1>3 DEF StageInv, Asks, Asked, Opened, InUse, Early, Written

LEMMA StageStep ==
  ASSUME ThreadInv, TypeOK, RegsInv, NEW C, Alphabet(C), TextInv(C), WorkInv, StageInv,
         DoesStep
  PROVE  StageInv'
<1>1. CASE ~Running'
  BY <1>1 DEF StageInv
<1>2. CASE Running'
  BY <1>2, CommandStage, ConsdrvStage, OutsideStage DEF DoesStep
<1>3. QED
  BY <1>1, <1>2

-------------------------------------------------------------------------------
(***************************************************************************)
(* The lines, from the key to command_main(): the first n lines of T have  *)
(* arrived, line n + 1 is complete in the receive buffer if e holds, s is  *)
(* in the receive buffer, and c is still to be read.                       *)
(***************************************************************************)
Keyed(n, e, s, c, T) ==
  /\ Len(T) = n + (IF e THEN 1 ELSE 0) + (IF c = <<>> THEN 0 ELSE 1)
  /\ e => s = T[n + 1]
  /\ e /\ c # <<>> => c = Append(T[n + 2], "\r")
  /\ ~e /\ c # <<>> => s \o c = Append(T[n + 1], "\r")
  /\ ~e /\ c = <<>> => s = <<>>

(* With s, x and t the line l ends with the Enter key. *)
Spells(s, x, t, l) == s \o (<<x>> \o t) = Append(l, "\r")

NoEnd(l) == \A i \in 1 .. Len(l) : l[i] \notin {"\r", "\n"}

(* The next character x is the Enter key, behind the whole line, or one of *)
(* the line.                                                               *)
LEMMA EnterKey ==
  ASSUME NEW D, "\r" \in D, NEW s \in Seq(D), NEW x \in D, NEW t \in Seq(D),
         NEW l \in Seq(D), NoEnd(l), Spells(s, x, t, l)
  PROVE  /\ x = "\r" => t = <<>> /\ s = l
         /\ x # "\r" => x # "\n" /\ t # <<>> /\ Append(s, x) \o t = Append(l, "\r")
<1> DEFINE r == <<x>> \o t
           q == s \o r
<1>1. r \in Seq(D) /\ r # <<>> /\ Head(r) = x /\ Tail(r) = t
  BY HeadTailOfPair
<1>2. s \o r = Append(l, "\r")
  BY DEF Spells
<1> HIDE DEF r
<1>3. Len(s) \in Nat /\ Len(l) \in Nat /\ Len(t) \in Nat /\ Len(r) = Len(t) + 1
  <2>1. Len(t) = Len(r) - 1
    BY <1>1, HeadTailProperties
  <2>2. QED
    BY <1>1, <2>1, LenProperties
<1>4. r[1] = x
  BY <1>1
<1>5. /\ q \in Seq(D) /\ Len(q) = Len(s) + Len(r)
      /\ \A i \in 1 .. Len(s) + Len(r) : q[i] = IF i <= Len(s) THEN s[i] ELSE r[i - Len(s)]
  BY <1>1, ConcatProperties, Zenon
<1>6. q = Append(l, "\r")
  BY <1>2
<1>7. /\ Len(q) = Len(l) + 1 /\ q[Len(l) + 1] = "\r"
      /\ \A i \in 1 .. Len(l) : q[i] = l[i]
  BY <1>6, AppendProperties
<1> HIDE DEF q
<1>8. PICK k : k = Len(s) + 1
  OBVIOUS
<1>9. q[k] = x /\ Len(l) = Len(s) + Len(t)
  <2>1. k \in 1 .. Len(s) + Len(r) /\ ~(k <= Len(s)) /\ k - Len(s) = 1
    BY <1>3, <1>8
  <2>2. q[k] = r[k - Len(s)]
    BY <1>5, <2>1
  <2>3. QED
    BY <1>3, <1>4, <1>5, <1>7, <2>1, <2>2
<1>10. CASE x = "\r"
  <2>1. ~(k \in 1 .. Len(l))
    BY <1>7, <1>9, <1>10 DEF NoEnd
  <2>2. Len(t) = 0 /\ Len(s) = Len(l)
    BY <1>3, <1>8, <1>9, <2>1
  <2>3. t = <<>>
    BY <2>2, EmptySeq
  <2>4. \A i \in 1 .. Len(s) : s[i] = l[i]
    BY <1>3, <1>5, <1>7, <2>2
  <2>5. s = l
    BY <2>2, <2>4, SeqEqual
  <2>6. QED
    BY <1>10, <2>3, <2>5
<1>11. CASE x # "\r"
  <2>1. k # Len(l) + 1
    BY <1>7, <1>9, <1>11
  <2>2. k \in 1 .. Len(l) /\ Len(t) # 0
    BY <1>3, <1>8, <1>9, <2>1
  <2>3. x # "\n" /\ t # <<>>
    BY <1>7, <1>9, <2>2, EmptySeq DEF NoEnd
  <2> DEFINE e == <<x>>
  <2>4. e \in Seq(D) /\ Append(s, x) = s \o e
    BY AppendIsConcat
  <2>5. r = e \o t
    BY DEF r
  <2> HIDE DEF e
  <2>6. (s \o e) \o t = s \o (e \o t)
    BY <2>4
  <2>7. Append(s, x) \o t = Append(l, "\r")
    BY <1>2, <2>4, <2>5, <2>6
  <2>8. QED
    BY <1>11, <2>3, <2>7
<1>12. QED
  BY <1>10, <1>11

LEMMA KeyedRead ==
  ASSUME NEW D, "\r" \in D, NEW s \in Seq(D), NEW x \in D, NEW t \in Seq(D),
         NEW T \in Seq(Seq(D)), \A i \in 1 .. Len(T) : NoEnd(T[i]),
         NEW n \in Nat, NEW c, c = <<x>> \o t, Keyed(n, FALSE, s, c, T)
  PROVE  /\ x = "\r" => Keyed(n, TRUE, s, t, T)
         /\ x # "\r" => x # "\n" /\ Keyed(n, FALSE, Append(s, x), t, T)
<1>1. c # <<>>
  BY HeadTailOfPair
<1>2. Len(T) = n + 1 /\ s \o (<<x>> \o t) = Append(T[n + 1], "\r")
  BY <1>1 DEF Keyed
<1>3. PICK k : k = n + 1
  OBVIOUS
<1>4. k \in 1 .. Len(T)
  BY <1>2, <1>3
<1> DEFINE l == T[k]
<1>5. l \in Seq(D) /\ NoEnd(l)
  BY <1>4, ElementOfSeq
<1>6. Spells(s, x, t, l)
  BY <1>2, <1>3 DEF Spells
<1> HIDE DEF l
<1>7. /\ x = "\r" => t = <<>> /\ s = l
      /\ x # "\r" => x # "\n" /\ t # <<>> /\ Append(s, x) \o t = Append(l, "\r")
  BY <1>5, <1>6, EnterKey
<1>8. QED
  BY <1>2, <1>3, <1>7 DEF Keyed, l

LEMMA KeyedPosted ==
  ASSUME NEW D, NEW s \in Seq(D), NEW c \in Seq(D), NEW T \in Seq(Seq(D)),
         NEW n \in Nat, Keyed(n, TRUE, s, c, T)
  PROVE  Keyed(n + 1, FALSE, <<>>, c, T)
<1>1. /\ Len(T) = n + 1 + (IF c = <<>> THEN 0 ELSE 1)
      /\ c # <<>> => c = Append(T[n + 2], "\r")
  BY DEF Keyed
<1>2. <<>> \o c = c
  BY ConcatEmptySeq
<1>3. (n + 1) + 1 = n + 2
  OBVIOUS
<1>4. QED
  BY <1>1, <1>2, <1>3 DEF Keyed

LEMMA KeyedTyped ==
  ASSUME NEW D, "\r" \in D, NEW s \in Seq(D), NEW T \in Seq(Seq(D)), NEW l \in Seq(D),
         NEW n \in Nat, NEW e \in BOOLEAN, Keyed(n, e, s, <<>>, T)
  PROVE  /\ Keyed(n, e, s, Append(l, "\r"), Append(T, l))
         /\ n <= Len(T)
<1>1. Len(T) = n + (IF e THEN 1 ELSE 0) /\ (e => s = T[n + 1]) /\ (~e => s = <<>>)
  BY DEF Keyed
<1>2. /\ Len(Append(T, l)) = Len(T) + 1
      /\ \A i \in 1 .. Len(T) : Append(T, l)[i] = T[i]
      /\ Append(T, l)[Len(T) + 1] = l
  BY AppendProperties
<1>3. Append(l, "\r") # <<>> /\ <<>> \o Append(l, "\r") = Append(l, "\r")
  BY AppendProperties, ConcatEmptySeq
<1>4. CASE e = TRUE
  <2>1. n + 1 \in 1 .. Len(T) /\ n + 2 = Len(T) + 1
    BY <1>1, <1>4
  <2>2. QED
    BY <1>1, <1>2, <1>3, <1>4, <2>1 DEF Keyed
<1>5. CASE e = FALSE
  <2>1. n + 1 = Len(T) + 1
    BY <1>1, <1>5
  <2>2. QED
    BY <1>1, <1>2, <1>3, <1>5, <2>1 DEF Keyed
<1>6. QED
  BY <1>4, <1>5

(* The lines r that were got, and those of the messages s, are the first   *)
(* ones of T, in their order.                                              *)
Delivery(r, s, T) ==
  /\ \A i \in 1 .. Len(r) : r[i] = T[i]
  /\ \A i \in 1 .. Len(s) : s[i].p.str = T[Len(r) + i]

LEMMA DeliveryGot ==
  ASSUME NEW S, NEW r \in Seq(S), NEW M, NEW s \in Seq(M), s # <<>>, NEW T,
         Delivery(r, s, T), Head(s).p.str \in S
  PROVE  /\ Delivery(Append(r, Head(s).p.str), Tail(s), T)
         /\ Len(Append(r, Head(s).p.str)) + Len(Tail(s)) = Len(r) + Len(s)
<1> DEFINE a == Head(s).p.str
           q == Append(r, a)
<1>1. /\ Len(q) = Len(r) + 1 /\ q[Len(r) + 1] = a
      /\ \A i \in 1 .. Len(r) : q[i] = r[i]
  BY AppendProperties
<1>2. /\ Len(Tail(s)) = Len(s) - 1
      /\ \A i \in 1 .. Len(Tail(s)) : Tail(s)[i] = s[i + 1]
  BY HeadTailProperties
<1>3. Len(r) \in Nat /\ Len(s) \in Nat \ {0}
  BY LenProperties, EmptySeq
<1>4. a = s[1].p.str
  OBVIOUS
<1> HIDE DEF a, q
<1>5. \A i \in 1 .. Len(q) : q[i] = T[i]
  <2> SUFFICES ASSUME NEW i \in 1 .. Len(q) PROVE q[i] = T[i]
    OBVIOUS
  <2>1. CASE i \in 1 .. Len(r)
    BY <1>1, <2>1 DEF Delivery
  <2>2. CASE i = Len(r) + 1
    BY <1>1, <1>3, <1>4, <2>2 DEF Delivery
  <2>3. QED
    BY <1>1, <1>3, <2>1, <2>2
<1>6. \A i \in 1 .. Len(Tail(s)) : Tail(s)[i].p.str = T[Len(q) + i]
  <2> SUFFICES ASSUME NEW i \in 1 .. Len(Tail(s))
               PROVE  Tail(s)[i].p.str = T[Len(q) + i]
    OBVIOUS
  <2>1. PICK k : k = i + 1
    OBVIOUS
  <2>2. k \in 1 .. Len(s) /\ Len(q) + i = Len(r) + k
    BY <1>1, <1>2, <1>3, <2>1
  <2>3. Tail(s)[i] = s[k]
    BY <1>2, <2>1
  <2>4. QED
    BY <2>2, <2>3 DEF Delivery
<1>7. QED
  BY <1>1, <1>2, <1>3, <1>5, <1>6 DEF Delivery, a, q

LEMMA DeliveryPosted ==
  ASSUME NEW S, NEW r \in Seq(S), NEW M, NEW s \in Seq(M), NEW m \in M, NEW T,
         Delivery(r, s, T), m.p.str = T[Len(r) + Len(s) + 1]
  PROVE  /\ Delivery(r, Append(s, m), T)
         /\ Len(r) + Len(Append(s, m)) = Len(r) + Len(s) + 1
<1> DEFINE q == Append(s, m)
<1>1. /\ Len(q) = Len(s) + 1 /\ q[Len(s) + 1] = m
      /\ \A i \in 1 .. Len(s) : q[i] = s[i]
  BY AppendProperties
<1>2. Len(r) \in Nat /\ Len(s) \in Nat
  BY LenProperties
<1> HIDE DEF q
<1>3. \A i \in 1 .. Len(q) : q[i].p.str = T[Len(r) + i]
  <2> SUFFICES ASSUME NEW i \in 1 .. Len(q) PROVE q[i].p.str = T[Len(r) + i]
    OBVIOUS
  <2>1. CASE i \in 1 .. Len(s)
    BY <1>1, <2>1 DEF Delivery
  <2>2. CASE i = Len(s) + 1
    <3>1. Len(r) + i = Len(r) + Len(s) + 1
      BY <1>2, <2>2
    <3>2. QED
      BY <1>1, <2>2, <3>1
  <2>3. QED
    BY <1>1, <1>2, <2>1, <2>2
<1>4. QED
  BY <1>1, <1>2, <1>3 DEF Delivery, q

LEMMA DeliveryTyped ==
  ASSUME NEW S, NEW r \in Seq(S), NEW M, NEW s \in Seq(M), NEW U, NEW T \in Seq(U),
         NEW l \in U, Delivery(r, s, T), Len(r) + Len(s) <= Len(T)
  PROVE  Delivery(r, s, Append(T, l))
<1>1. Len(r) \in Nat /\ Len(s) \in Nat /\ Len(T) \in Nat
  BY LenProperties
<1>2. \A i \in 1 .. Len(T) : Append(T, l)[i] = T[i]
  BY AppendProperties
<1>3. \A i \in 1 .. Len(r) : i \in 1 .. Len(T)
  BY <1>1
<1>4. \A i \in 1 .. Len(s) : Len(r) + i \in 1 .. Len(T)
  BY <1>1
<1>5. QED
  BY <1>2, <1>3, <1>4 DEF Delivery

Ended   == hpc = "post" \/ (HasCh /\ ch = "\n")
Stored  == IF HasCh /\ ch # "\n" THEN Append(recv_buf, ch) ELSE recv_buf
Coming  == IF rdrf THEN <<rdr>> \o typing ELSE typing
Arrived == Len(received) + Len(In)

LineInv ==
  Running => /\ Delivery(received, In, typed)
             /\ Keyed(Arrived, Ended, Stored, Coming, typed)

(* The characters, those of Enter included.                                *)
LEMMA LineTypes ==
  ASSUME ThreadInv, TypeOK, NEW C, Alphabet(C), TextInv(C), Running, NEW D, D = C \cup {"\r"}
  PROVE  /\ Stored \in Seq(D) /\ Coming \in Seq(D) /\ typing \in Seq(D)
         /\ recv_buf \in Seq(D)
         /\ typed \in Seq(Seq(D)) /\ \A i \in 1 .. Len(typed) : NoEnd(typed[i])
         /\ received \in Seq(Seq(C)) /\ In \in Seq(Texts(C))
         /\ Arrived \in Nat /\ Len(received) \in Nat /\ Len(In) \in Nat
         /\ Ended \in BOOLEAN
         /\ \A l \in Lines : l \in Seq(D)
<1>1. C \subseteq D /\ C \ {"\r", "\n"} \subseteq D /\ "\r" \in D
  OBVIOUS
<1>2. recv_buf \in Seq(D)
  BY <1>1, SeqMonotonic DEF TextInv
<1>3. HasCh => ch \in D
  BY <1>1 DEF TextInv
<1>4. Stored \in Seq(D)
  BY <1>2, <1>3, AppendProperties DEF Stored
<1>5. typing \in Seq(D) /\ (rdrf => rdr \in D)
  BY DEF TextInv
<1>6. Coming \in Seq(D)
  BY <1>5, HeadTailOfPair DEF Coming
<1>7. \A l \in Lines : l \in Seq(D)
  BY <1>1, SeqMonotonic DEF Alphabet
<1>8. typed \in Seq(Seq(D))
  <2>1. Lines \subseteq Seq(D)
    BY <1>7
  <2>2. QED
    BY <2>1, SeqMonotonic DEF TextInv
<1>9. \A i \in 1 .. Len(typed) : NoEnd(typed[i])
  <2>1. \A i \in 1 .. Len(typed) : typed[i] \in Lines
    BY ElementOfSeq DEF TextInv
  <2>2. QED
    BY <2>1, ConsoleAssumption DEF NoEnd
<1>10. received \in Seq(Seq(C)) /\ In \in Seq(Texts(C))
  BY DEF TextInv
<1>11. Len(received) \in Nat /\ Len(In) \in Nat
  BY <1>10, LenProperties
<1>12. QED
  BY <1>2, <1>4, <1>5, <1>6, <1>7, <1>8, <1>9, <1>10, <1>11 DEF Arrived, Ended

LEMMA LinesStay ==
  ASSUME LineInv, Running' => Running,
         UNCHANGED <<received, In, typed, Ended, Stored, Coming>>
  PROVE  LineInv'
BY DEF LineInv, Arrived

LEMMA CommandLines ==
  ASSUME ThreadInv, TypeOK, NEW C, Alphabet(C), TextInv(C), LineInv, CommandDoes
  PROVE  LineInv'
<1>1. /\ UNCHANGED <<typed, Ended, Stored, Coming>> /\ Running
  BY DEF CommandDoes, devVars, handlerVars, typistVars, HasCh, Ended, Stored, Coming,
         Goes, Running
<1>2. CASE pc[Command] = "got"
  <2>1. /\ Takes(Command, In) /\ In' = Tail(In)
        /\ received' = Append(received, Head(In).p.str)
    BY <1>2 DEF CommandDoes, Goes, Moved
  <2>2. received \in Seq(Seq(C)) /\ In \in Seq(Texts(C)) /\ In # <<>>
    BY <1>1, <2>1 DEF TextInv, Takes
  <2>3. Head(In).p.str \in Seq(C)
    BY <2>2, HeadTailProperties DEF Texts
  <2>4. Delivery(received, In, typed) /\ Keyed(Arrived, Ended, Stored, Coming, typed)
    BY <1>1 DEF LineInv
  <2>5. /\ Delivery(received', In', typed)
        /\ Len(received') + Len(In') = Len(received) + Len(In)
    BY <2>1, <2>2, <2>3, <2>4, DeliveryGot
  <2>6. QED
    BY <1>1, <2>4, <2>5 DEF LineInv, Arrived
<1>3. CASE pc[Command] # "got"
  <2>1. received' = received /\ In' = In
    BY <1>3 DEF CommandDoes, Goes, Moved, FlowsStay, Requests
  <2>2. QED
    BY <1>1, <2>1, LinesStay
<1>4. QED
  BY <1>2, <1>3

LEMMA ConsdrvLines ==
  ASSUME ThreadInv, TypeOK, RegsInv, StageInv, LineInv, ConsdrvDoes
  PROVE  LineInv'
<1>1. /\ UNCHANGED <<typed, typing, hpc, ch, received, In>> /\ Running
  BY DEF ConsdrvDoes, handlerVars, typistVars, Goes, Running, FlowsStay
<1>2. UNCHANGED <<recv_buf, rdrf>> /\ (rdrf => rdr' = rdr)
  <2>1. CASE pc[Consdrv] \in {"setintr", "serial_init"}
    <3>1. Fresh
      BY <1>1, <2>1 DEF StageInv, Asks, Asked, Opened, InUse, Opens
    <3>2. QED
      BY <2>1, <3>1 DEF RegsInv, Fresh, ConsdrvDoes, Goes, Moved, devVars
  <2>2. CASE pc[Consdrv] \notin {"setintr", "serial_init"}
    BY <2>2 DEF ConsdrvDoes, Goes, Moved, devVars
  <2>3. QED
    BY <2>1, <2>2
<1>3. QED
  BY <1>1, <1>2, LinesStay DEF HasCh, Ended, Stored, Coming

LEMMA HandlerLines ==
  ASSUME ThreadInv, TypeOK, RegsInv, NEW C, Alphabet(C), TextInv(C), LineInv, HandlerDoes
  PROVE  LineInv'
<1>1. UNCHANGED <<typed, typing, received, rdr>> /\ Running
  BY DEF HandlerDoes, typistVars, Serves, Running
<1> DEFINE D == C \cup {"\r"}
<1>2. /\ recv_buf \in Seq(D) /\ typing \in Seq(D) /\ Coming \in Seq(D)
      /\ typed \in Seq(Seq(D)) /\ \A i \in 1 .. Len(typed) : NoEnd(typed[i])
      /\ received \in Seq(Seq(C)) /\ In \in Seq(Texts(C))
      /\ Arrived \in Nat
  BY <1>1, LineTypes
<1>3. "\r" \in D /\ (rdrf => rdr \in D)
  BY DEF TextInv
<1> HIDE DEF D
<1>4. Delivery(received, In, typed) /\ Keyed(Arrived, Ended, Stored, Coming, typed)
  BY <1>1 DEF LineInv
<1>5. CASE /\ \E m \in {"kick", "store"} : Serves("enter", m)
           /\ rdrf /\ ch' = Newline(rdr) /\ rdrf' = FALSE
           /\ FlowsStay /\ Holds /\ UNCHANGED <<recv_buf, mode>>
  <2>1. /\ Ended = FALSE /\ Stored = recv_buf /\ Coming = <<rdr>> \o typing
        /\ Coming' = typing /\ HasCh' /\ In' = In /\ hpc' # "post"
    BY <1>1, <1>5 DEF Serves, Ended, Stored, HasCh, Coming, FlowsStay
  <2>2. Keyed(Arrived, FALSE, recv_buf, Coming, typed)
    BY <1>4, <2>1
  <2>3. /\ rdr = "\r" => Keyed(Arrived, TRUE, recv_buf, typing, typed)
        /\ rdr # "\r" => /\ rdr # "\n"
                         /\ Keyed(Arrived, FALSE, Append(recv_buf, rdr), typing, typed)
    BY <1>2, <1>3, <1>5, <2>1, <2>2, KeyedRead
  <2>4. CASE rdr = "\r"
    <3>1. ch' = "\n" /\ Ended' = TRUE /\ Stored' = recv_buf
      BY <1>5, <2>1, <2>4 DEF Newline, Ended, Stored
    <3>2. QED
      BY <1>1, <1>4, <2>1, <2>3, <2>4, <3>1 DEF LineInv, Arrived
  <2>5. CASE rdr # "\r"
    <3>1. ch' = rdr /\ Ended' = FALSE /\ Stored' = Append(recv_buf, rdr)
      BY <1>5, <2>1, <2>3, <2>5 DEF Newline, Ended, Stored
    <3>2. QED
      BY <1>1, <1>4, <2>1, <2>3, <2>5, <3>1 DEF LineInv, Arrived
  <2>6. QED
    BY <2>4, <2>5
<1>6. CASE /\ Serves("post", "send") /\ recv_buf' = <<>> /\ UNCHANGED <<ch, rdrf>>
           /\ Running' => In' = Append(In, [sender |-> NULL, p |-> Line(recv_buf)])
  <2> DEFINE m == [sender |-> NULL, p |-> Line(recv_buf)]
  <2>1. m \in Texts(C) /\ m.p.str = recv_buf
    <3>1. recv_buf \in Seq(C)
      BY SeqMonotonic DEF TextInv
    <3>2. Line(recv_buf) \in Payload /\ Line(recv_buf).str = recv_buf
      BY <3>1 DEF Alphabet, Line
    <3>3. QED
      BY <3>1, <3>2 DEF Texts, Message
  <2>2. Running' => In' = Append(In, m)
    BY <1>6
  <2> HIDE DEF m
  <2>3. Ended = TRUE /\ Stored = recv_buf /\ Coming' = Coming
        /\ Ended' = FALSE /\ Stored' = <<>>
    BY <1>1, <1>6 DEF Serves, Ended, Stored, HasCh, Coming
  <2>4. Keyed(Arrived, TRUE, recv_buf, Coming, typed)
    BY <1>4, <2>3
  <2>5. /\ recv_buf = typed[Arrived + 1]
        /\ Keyed(Arrived + 1, FALSE, <<>>, Coming, typed)
    <3>1. recv_buf = typed[Arrived + 1]
      BY <2>4 DEF Keyed
    <3>2. Keyed(Arrived + 1, FALSE, <<>>, Coming, typed)
      BY <1>2, <2>4, KeyedPosted
    <3>3. QED
      BY <3>1, <3>2
  <2>6. /\ Delivery(received, Append(In, m), typed)
        /\ Len(received) + Len(Append(In, m)) = Arrived + 1
    BY <1>2, <1>4, <2>1, <2>5, DeliveryPosted DEF Arrived
  <2>7. QED
    BY <1>1, <2>2, <2>3, <2>5, <2>6 DEF LineInv, Arrived
<1>7. CASE /\ Serves("store", "send") /\ ch # "\n" /\ recv_buf' = Append(recv_buf, ch)
           /\ FlowsStay /\ UNCHANGED <<ch, rdrf>>
  BY <1>1, <1>7, LinesStay DEF Serves, Ended, Stored, HasCh, Coming, FlowsStay
<1>8. CASE /\ Serves("store", "post") /\ ch = "\n" /\ FlowsStay
           /\ UNCHANGED <<ch, rdrf, recv_buf>>
  BY <1>1, <1>8, LinesStay DEF Serves, Ended, Stored, HasCh, Coming, FlowsStay
<1>9. CASE /\ \/ mode = "user" /\ hpc' = "enter"
              \/ \E m \in {"send", "end"} : Serves("enter", m)
              \/ Serves("kick", "store")
              \/ Serves("send", "end")
              \/ Serves("end", "end")
           /\ FlowsStay /\ UNCHANGED <<ch, rdrf, recv_buf>>
  <2>1. (HasCh' <=> HasCh) /\ hpc # "post" /\ hpc' # "post"
    BY <1>9 DEF Serves, HasCh, RegsInv
  <2>2. UNCHANGED <<received, In, typed, Ended, Stored, Coming>>
    BY <1>1, <1>9, <2>1 DEF Ended, Stored, Coming, FlowsStay
  <2>3. QED
    BY <1>1, <2>2, LinesStay
<1>10. QED
  BY <1>5, <1>6, <1>7, <1>8, <1>9 DEF HandlerDoes

LEMMA OthersLines ==
  ASSUME ThreadInv, TypeOK, RegsInv, NEW C, Alphabet(C), TextInv(C), LineInv, OthersDo
  PROVE  LineInv'
<1>1. /\ UNCHANGED <<recv_buf, hpc, ch, received, In>>
      /\ Running' => Running
  BY DEF OthersDo, handlerVars, FlowsStay, Running
<1>2. UNCHANGED <<Ended, Stored>>
  BY <1>1 DEF Ended, Stored, HasCh
<1>3. CASE UNCHANGED <<rdrf, rdr, typistVars>>
  BY <1>1, <1>2, <1>3, LinesStay DEF Coming, typistVars
<1>4. CASE /\ ~rdrf /\ rdrf' = TRUE /\ typing # <<>> /\ UNCHANGED typed
           /\ rdr' = Head(typing) /\ typing' = Tail(typing)
  <2>1. typing = <<Head(typing)>> \o Tail(typing)
    BY <1>4, PairOfHeadTail DEF TextInv
  <2>2. Coming' = Coming
    BY <1>4, <2>1 DEF Coming
  <2>3. QED
    BY <1>1, <1>2, <1>4, <2>2, LinesStay
<1>5. ASSUME NEW l \in Lines, ~rdrf, rdrf' = TRUE, typing = <<>>, typed' = Append(typed, l),
             rdr' = Head(Append(l, "\r")), typing' = Tail(Append(l, "\r"))
      PROVE  LineInv'
  <2> SUFFICES ASSUME Running' PROVE LineInv'
    BY DEF LineInv
  <2> DEFINE D == C \cup {"\r"}
  <2>1. /\ Stored \in Seq(D) /\ typed \in Seq(Seq(D)) /\ l \in Seq(D)
        /\ received \in Seq(Seq(C)) /\ In \in Seq(Texts(C))
        /\ Arrived \in Nat /\ Ended \in BOOLEAN
    BY <1>1, LineTypes
  <2>2. "\r" \in D
    OBVIOUS
  <2> HIDE DEF D
  <2>3. Delivery(received, In, typed) /\ Keyed(Arrived, Ended, Stored, Coming, typed)
    BY <1>1 DEF LineInv
  <2>4. Coming = <<>>
    BY <1>5 DEF Coming
  <2>5. Coming' = Append(l, "\r")
    <3>1. Append(l, "\r") \in Seq(D) /\ Append(l, "\r") # <<>>
      <4>1. l \in Seq(D)
        BY <2>1
      <4>2. QED
        BY <2>2, <4>1, AppendProperties
    <3> DEFINE a == Append(l, "\r")
    <3> HIDE DEF a
    <3>2. a = <<Head(a)>> \o Tail(a)
      BY <3>1, PairOfHeadTail DEF a
    <3>3. QED
      BY <1>5, <3>2 DEF Coming, a
  <2>6. Keyed(Arrived, Ended, Stored, <<>>, typed)
    BY <2>3, <2>4
  <2>7. /\ Keyed(Arrived, Ended, Stored, Append(l, "\r"), Append(typed, l))
        /\ Arrived <= Len(typed)
    BY <2>1, <2>2, <2>6, KeyedTyped
  <2>8. Delivery(received, In, Append(typed, l))
    BY <2>1, <2>3, <2>7, DeliveryTyped DEF Arrived
  <2>9. QED
    BY <1>1, <1>2, <1>5, <2>5, <2>7, <2>8 DEF LineInv, Arrived
<1>6. QED
  BY <1>3, <1>4, <1>5 DEF OthersDo

LEMMA LinesStep ==
  ASSUME ThreadInv, TypeOK, RegsInv, NEW C, Alphabet(C), TextInv(C), StageInv, LineInv,
         DoesStep
  PROVE  LineInv'
BY CommandLines, ConsdrvLines, HandlerLines, OthersLines DEF DoesStep

-------------------------------------------------------------------------------
(***************************************************************************)
(* The blocks.  Whoever works at something, or has it under way, holds its *)
(* block, and nobody else holds any.                                       *)
(***************************************************************************)
One(c) == IF c THEN 1 ELSE 0

Here(s, k) == {i \in 1 .. Len(s) : Block(s[i].p) = k}
Cnt(s, k)  == Cardinality(Here(s, k))

Is(m, k) == One(Block(m.p) = k)

LEMMA HereIsFinite ==
  ASSUME NEW S, NEW s \in Seq(S), NEW k
  PROVE  IsFiniteSet(Here(s, k)) /\ Cnt(s, k) \in Nat
<1>1. Len(s) \in Nat
  BY LenProperties
<1>2. IsFiniteSet(1 .. Len(s))
  BY <1>1, FS_Interval
<1>3. Here(s, k) \in SUBSET (1 .. Len(s))
  BY DEF Here
<1>4. IsFiniteSet(Here(s, k))
  BY <1>2, <1>3, FS_Subset
<1>5. QED
  BY <1>4, FS_CardinalityType DEF Cnt

LEMMA CntOfNone == \A k : Cnt(<<>>, k) = 0
<1> SUFFICES ASSUME NEW k PROVE Cnt(<<>>, k) = 0
  OBVIOUS
<1>1. Here(<<>>, k) = {}
  BY DEF Here
<1>2. QED
  BY <1>1, FS_EmptySet DEF Cnt

LEMMA CntAppend ==
  ASSUME NEW S, NEW s \in Seq(S), NEW m \in S, NEW k
  PROVE  Cnt(Append(s, m), k) = Cnt(s, k) + Is(m, k)
<1> DEFINE q == Append(s, m)
           n == Len(s) + 1
<1>1. /\ Len(q) = n /\ q[n] = m
      /\ \A i \in 1 .. Len(s) : q[i] = s[i]
  BY AppendProperties
<1>2. Len(s) \in Nat
  BY LenProperties
<1> HIDE DEF q
<1>3. \A i \in 1 .. n : i \in 1 .. Len(s) \/ i = n
  BY <1>2
<1>4. 1 .. Len(s) \subseteq 1 .. n /\ n \in 1 .. n /\ n \notin 1 .. Len(s)
  BY <1>2
<1> HIDE DEF n
<1>5. IsFiniteSet(Here(s, k)) /\ Cnt(s, k) \in Nat
  BY HereIsFinite
<1>6. CASE Block(m.p) = k
  <2>1. Here(q, k) = Here(s, k) \cup {n}
    BY <1>1, <1>3, <1>4, <1>6 DEF Here
  <2>2. n \notin Here(s, k)
    BY <1>4 DEF Here
  <2>3. Cardinality(Here(s, k) \cup {n}) = Cardinality(Here(s, k)) + 1
    BY <1>5, <2>2, FS_AddElement
  <2>4. QED
    BY <1>6, <2>1, <2>3 DEF Cnt, Is, One, q
<1>7. CASE Block(m.p) # k
  <2>1. Here(q, k) = Here(s, k)
    BY <1>1, <1>3, <1>4, <1>7 DEF Here
  <2>2. QED
    BY <1>5, <1>7, <2>1 DEF Cnt, Is, One, q
<1>8. QED
  BY <1>6, <1>7

LEMMA CntTail ==
  ASSUME NEW S, NEW s \in Seq(S), s # <<>>, NEW k
  PROVE  Cnt(s, k) = Cnt(Tail(s), k) + Is(Head(s), k)
<1> DEFINE t == Tail(s)
           A == Here(t, k)
           B == {i + 1 : i \in A}
           f == [i \in A |-> i + 1]
<1>1. /\ t \in Seq(S) /\ Len(t) = Len(s) - 1
      /\ \A i \in 1 .. Len(t) : t[i] = s[i + 1]
  BY HeadTailProperties
<1>2. Len(s) \in Nat \ {0}
  BY EmptySeq
<1>3. Head(s) = s[1]
  OBVIOUS
<1> HIDE DEF t
<1>4. A \subseteq 1 .. Len(t) /\ IsFiniteSet(A) /\ Cnt(t, k) \in Nat
  BY <1>1, HereIsFinite DEF Here
<1>5. IsFiniteSet(B) /\ Cardinality(B) = Cnt(t, k)
  <2>1. f \in Bijection(A, B)
    <3>1. f \in [A -> B]
      OBVIOUS
    <3>2. \A i, j \in A : f[i] = f[j] => i = j
      BY <1>4
    <3>3. \A b \in B : \E i \in A : f[i] = b
      OBVIOUS
    <3> HIDE DEF f, A, B
    <3>4. QED
      BY <3>1, <3>2, <3>3, Fun_IsBij
  <2>2. ExistsBijection(A, B)
    BY <2>1 DEF ExistsBijection
  <2> HIDE DEF A, B
  <2>3. IsFiniteSet(B) /\ Cardinality(B) = Cardinality(A)
    BY <1>4, <2>2, FS_Bijection
  <2>4. QED
    BY <2>3 DEF Cnt, A
<1>6. 1 \notin B
  BY <1>1, <1>2, <1>4
<1>7. Here(s, k) = IF Block(Head(s).p) = k THEN B \cup {1} ELSE B
  <2>1. \A i \in Here(s, k) : i = 1 \/ i \in B
    <3> SUFFICES ASSUME NEW i \in Here(s, k), i # 1 PROVE i \in B
      OBVIOUS
    <3>1. i \in 1 .. Len(s) /\ Block(s[i].p) = k
      BY DEF Here
    <3>2. PICK j \in 1 .. Len(t) : i = j + 1
      BY <1>1, <1>2, <3>1
    <3>3. j \in A
      BY <1>1, <3>1, <3>2 DEF Here
    <3>4. QED
      BY <3>2, <3>3
  <2>2. \A b \in B : b \in Here(s, k)
    <3> SUFFICES ASSUME NEW i \in A, NEW b, b = i + 1 PROVE b \in Here(s, k)
      OBVIOUS
    <3>1. i \in 1 .. Len(t) /\ Block(t[i].p) = k
      BY DEF Here
    <3>2. b \in 1 .. Len(s) /\ s[b] = t[i]
      BY <1>1, <1>2, <3>1
    <3>3. QED
      BY <3>1, <3>2 DEF Here
  <2>3. 1 \in Here(s, k) <=> Block(Head(s).p) = k
    BY <1>2, <1>3 DEF Here
  <2>4. Here(s, k) \subseteq B \cup {1} /\ B \subseteq Here(s, k)
    BY <2>1, <2>2
  <2> HIDE DEF A, B
  <2>5. QED
    BY <1>6, <2>3, <2>4
<1> HIDE DEF A, B
<1>8. CASE Block(Head(s).p) = k
  <2>1. Cardinality(B \cup {1}) = Cardinality(B) + 1
    BY <1>5, <1>6, FS_AddElement
  <2>2. QED
    BY <1>5, <1>7, <1>8, <2>1 DEF Cnt, Is, One, t
<1>9. CASE Block(Head(s).p) # k
  BY <1>4, <1>5, <1>7, <1>9 DEF Cnt, Is, One, t
<1>10. QED
  BY <1>8, <1>9

-------------------------------------------------------------------------------
(* The lines under way, the buffers of the console, what consdrv_main()    *)
(* works at and what command_main() has allocated and not yet sent.        *)
Lined == Len(In) + One(line # NULL) + One(hpc = "post")

Buffers ==
  IF Early \/ (Out # <<>> /\ Head(Out).p.cmd = "use") \/ pc[Consdrv] = "send_buf"
  THEN 0
  ELSE IF pc[Consdrv] = "recv_buf" THEN 1 ELSE 2

Freeing(k) == One(req # NULL /\ Block(req) = k)

Carries(k) ==
  One(\/ pc[Command] = "use_send" /\ PoolOf(3) = k
      \/ pc[Command] = "send" /\ PoolOf(Len(Head(todo)) + 2) = k)

Lining(k) == IF k = LineBlock THEN Lined + Buffers ELSE 0

HeldInv ==
  Running =>
    \A k \in Pool : held[k] = Cnt(Out, k) + Lining(k) + Freeing(k) + Carries(k)

LEMMA OneType == \A c : One(c) \in Nat
BY DEF One

LEMMA HeldTerms ==
  ASSUME TypeOK
  PROVE  /\ Lined \in Nat /\ Buffers \in Nat
         /\ \A k : Cnt(Out, k) \in Nat /\ Lining(k) \in Nat
         /\ \A k \in Pool : held[k] \in Nat
<1>1. In \in Seq(Message) /\ Out \in Seq(Message)
  BY FlowsTyped
<1>2. Lined \in Nat
  <2>1. Len(In) \in Nat
    BY <1>1, LenProperties
  <2>2. One(line # NULL) \in Nat /\ One(hpc = "post") \in Nat
    BY DEF One
  <2>3. QED
    BY <2>1, <2>2 DEF Lined
<1>3. Buffers \in Nat
  BY DEF Buffers
<1>4. \A k : Cnt(Out, k) \in Nat
  BY <1>1, HereIsFinite
<1>5. QED
  BY <1>2, <1>3, <1>4 DEF Lining, TypeOK

LEMMA HeldChanges ==
  ASSUME TypeOK, NEW k0
  PROVE  /\ Allocs(k0) /\ Running' =>
              \A k \in Pool : held'[k] = held[k] + One(k = k0)
         /\ Frees(k0) => \A k \in Pool : held'[k] = held[k] - One(k = k0)
         /\ Holds => \A k \in Pool : held'[k] = held[k]
<1>1. held \in [Pool -> Nat]
  BY DEF TypeOK
<1>2. QED
  BY <1>1 DEF Allocs, Frees, Holds, One

LEMMA BuffersAre ==
  ASSUME TypeOK, Running, StageInv
  PROVE  /\ Asks \/ Asked => Buffers = 0
         /\ Opened => Buffers = CASE pc[Consdrv] = "send_buf" -> 0
                                  [] pc[Consdrv] = "recv_buf" -> 1
                                  [] OTHER -> 2
         /\ InUse => Buffers = 2
<1>1. ASSUME Out \in Seq(Written), Out # <<>> PROVE Head(Out).p.cmd # "use"
  <2>1. Head(Out) \in Written
    BY <1>1, HeadTailProperties
  <2>2. QED
    BY <2>1 DEF Written
<1>2. QED
  BY <1>1 DEF Buffers, Asks, Asked, Opened, InUse, Opens

(* A write in the flow does not change whether the use request is there.   *)
LEMMA WritesKeepBuffers ==
  ASSUME TypeOK, NEW x \in Payload, x.cmd = "write", Requests(x), Running',
         (Early' <=> Early), pc'[Consdrv] = pc[Consdrv]
  PROVE  Buffers' = Buffers
<1> DEFINE m == [sender |-> Command, p |-> x]
<1>1. Out \in Seq(Message) /\ Out' = Append(Out, m)
  BY FlowsTyped DEF Requests
<1>2. m \in Message
  BY ThreadsOfConsole DEF Message
<1>3. m.p.cmd = "write"
  OBVIOUS
<1> HIDE DEF m
<1>4. /\ Append(Out, m) # <<>>
      /\ Head(Append(Out, m)) = IF Out = <<>> THEN m ELSE Head(Out)
  <2>1. Append(Out, m) \in Seq(Message) /\ Len(Append(Out, m)) = Len(Out) + 1
    BY <1>1, <1>2, AppendProperties
  <2>2. Append(Out, m)[1] = IF Len(Out) = 0 THEN m ELSE Out[1]
    BY <1>1, <1>2, AppendProperties, LenProperties
  <2>3. Len(Out) \in Nat /\ (Len(Out) = 0 <=> Out = <<>>)
    BY <1>1, LenProperties, EmptySeq
  <2>4. QED
    BY <1>1, <2>1, <2>2, <2>3
<1>5. QED
  BY <1>1, <1>3, <1>4 DEF Buffers
LEMMA CommandHolds ==
  ASSUME TypeOK, Running, Running', NEW C, Alphabet(C), TextInv(C), WorkInv, FitsInv,
         StageInv, HeldInv, CommandDoes
  PROVE  HeldInv'
<1> USE ThreadsOfConsole
<1>1. In \in Seq(Message) /\ Out \in Seq(Message)
  BY FlowsTyped
<1>2. /\ Lined \in Nat /\ Buffers \in Nat
      /\ \A k : Cnt(Out, k) \in Nat /\ Lining(k) \in Nat
      /\ \A k \in Pool : held[k] \in Nat
  BY HeldTerms
<1>3. UNCHANGED <<req, hpc>> /\ \A k : Freeing(k)' = Freeing(k)
  BY DEF CommandDoes, handlerVars, Freeing
<1>4. \A k \in Pool : held[k] = Cnt(Out, k) + Lining(k) + Freeing(k) + Carries(k)
  BY DEF HeldInv
<1>5. ASSUME NEW l, NEW m, Goes(Command, l, m)
      PROVE  /\ pc[Command] = l /\ pc'[Command] = m
             /\ pc'[Consdrv] = pc[Consdrv]
  BY <1>5 DEF Goes, Moved
<1>6. \A k : Freeing(k) \in Nat /\ Carries(k) \in Nat
  BY DEF Freeing, Carries, One
<1>7. ASSUME UNCHANGED <<In, Out, line>>, pc'[Consdrv] = pc[Consdrv],
             Early' <=> Early
      PROVE  \A k : Cnt(Out, k)' = Cnt(Out, k) /\ Lining(k)' = Lining(k)
  <2>1. Lined' = Lined /\ Buffers' = Buffers
    BY <1>3, <1>7 DEF Lined, Buffers
  <2>2. QED
    BY <1>7, <2>1 DEF Lining, Cnt, Here, LineBlock, Block, PoolOf
<1>8. CASE Goes(Command, "use_alloc", "use_send") /\ FlowsStay /\ Allocs(PoolOf(3))
           /\ UNCHANGED <<line, todo>>
  <2>1. \A k : Cnt(Out, k)' = Cnt(Out, k) /\ Lining(k)' = Lining(k)
    BY <1>5, <1>7, <1>8 DEF FlowsStay, Early
  <2>2. \A k \in Pool : held'[k] = held[k] + One(k = PoolOf(3))
    BY <1>8, HeldChanges
  <2>3. \A k : Carries(k) = 0 /\ Carries(k)' = One(k = PoolOf(3))
    BY <1>5, <1>8 DEF Carries, One, PoolOf
  <2>4. QED
    BY <1>2, <1>3, <1>4, <1>6, <2>1, <2>2, <2>3 DEF HeldInv, One
<1>9. CASE Goes(Command, "alloc", "send") /\ FlowsStay
           /\ Allocs(PoolOf(Len(Head(todo)) + 2)) /\ UNCHANGED <<line, todo>>
  <2> DEFINE k0 == PoolOf(Len(Head(todo)) + 2)
  <2>1. \A k : Cnt(Out, k)' = Cnt(Out, k) /\ Lining(k)' = Lining(k)
    BY <1>5, <1>7, <1>9 DEF FlowsStay, Early
  <2>2. \A k \in Pool : held'[k] = held[k] + One(k = k0)
    BY <1>9, HeldChanges
  <2>3. \A k : Carries(k) = 0 /\ Carries(k)' = One(k = k0)
    BY <1>5, <1>9 DEF Carries, One, PoolOf
  <2> HIDE DEF k0
  <2>4. QED
    BY <1>2, <1>3, <1>4, <1>6, <2>1, <2>2, <2>3 DEF HeldInv, One
<1>10. ASSUME NEW x \in Payload, Requests(x), Holds, UNCHANGED line,
              \A k : Carries(k) = One(Block(x) = k) /\ Carries(k)' = 0,
              Buffers' = Buffers
       PROVE  HeldInv'
  <2> DEFINE m == [sender |-> Command, p |-> x]
  <2>1. m \in Message /\ Block(m.p) = Block(x)
    BY DEF Message
  <2>2. Out' = Append(Out, m) /\ In' = In
    BY <1>10 DEF Requests
  <2> HIDE DEF m
  <2>3. \A k : Cnt(Append(Out, m), k) = Cnt(Out, k) + One(Block(x) = k)
    BY <1>1, <2>1, CntAppend DEF Is
  <2>4. \A k : Cnt(Out, k)' = Cnt(Append(Out, m), k)
    BY <2>2 DEF Cnt, Here, Block, PoolOf
  <2>5. \A k : Lining(k)' = Lining(k)
    BY <1>3, <1>10, <2>2 DEF Lining, Lined, LineBlock, PoolOf
  <2>6. \A k \in Pool : held'[k] = held[k]
    BY <1>10, HeldChanges
  <2>7. QED
    BY <1>2, <1>3, <1>4, <1>6, <1>10, <2>3, <2>4, <2>5, <2>6, OneType DEF HeldInv
<1>11. CASE Goes(Command, "use_send", "alloc") /\ Requests(Use) /\ Holds
            /\ UNCHANGED <<line, todo>>
  <2>1. Use \in Payload /\ Block(Use) = PoolOf(3)
    BY DEF Alphabet, Use, Block
  <2>2. \A k : Carries(k) = One(Block(Use) = k) /\ Carries(k)' = 0
    BY <1>5, <1>11, <2>1 DEF Carries, One
  <2>3. Buffers = 0
    BY <1>5, <1>11 DEF Buffers, Early
  <2>4. Buffers' = 0
    <3> DEFINE m == [sender |-> Command, p |-> Use]
    <3>1. Out = <<>>
      BY <1>5, <1>11 DEF StageInv, Asks, Asked, Opened, InUse, Early
    <3>2. Out' = <<m>>
      BY <1>11, <3>1 DEF Requests
    <3>3. <<m>> # <<>> /\ Head(<<m>>) = m /\ m.p.cmd = "use"
      BY DEF Use
    <3> HIDE DEF m
    <3>4. QED
      BY <3>2, <3>3 DEF Buffers
  <2>5. QED
    BY <1>10, <1>11, <2>1, <2>2, <2>3, <2>4
<1>12. CASE /\ Goes(Command, "send", IF Tail(todo) # <<>> THEN "alloc"
                                     ELSE IF line = NULL THEN "recv" ELSE "free")
            /\ Requests(Write(Head(todo))) /\ Holds /\ line' = line
  <2>1. Head(todo) \in Seq(C)
    BY <1>5, <1>12, HeadTailProperties DEF TextInv, WorkInv
  <2>2. Write(Head(todo)) \in Payload /\ Write(Head(todo)).cmd = "write"
    BY <2>1 DEF Alphabet, Write
  <2>3. Block(Write(Head(todo))) = PoolOf(Len(Head(todo)) + 2)
    BY DEF Write, Block
  <2>4. \A k : Carries(k) = One(Block(Write(Head(todo))) = k) /\ Carries(k)' = 0
    BY <1>5, <1>12, <2>3 DEF Carries, One
  <2>5. Buffers' = Buffers
    BY <1>5, <1>12, <2>2, WritesKeepBuffers DEF Early
  <2>6. QED
    BY <1>10, <1>12, <2>2, <2>4, <2>5
<1>13. CASE Goes(Command, "recv", "got") /\ FlowsStay /\ Holds
            /\ UNCHANGED <<line, todo>>
  <2>1. \A k : Cnt(Out, k)' = Cnt(Out, k) /\ Lining(k)' = Lining(k)
    BY <1>5, <1>7, <1>13 DEF FlowsStay, Early
  <2>2. \A k \in Pool : held'[k] = held[k]
    BY <1>13, HeldChanges
  <2>3. \A k : Carries(k) = 0 /\ Carries(k)' = 0
    BY <1>5, <1>13 DEF Carries, One
  <2>4. QED
    BY <1>3, <1>4, <2>1, <2>2, <2>3 DEF HeldInv
<1>14. CASE /\ Goes(Command, "got", "alloc")
            /\ Takes(Command, In) /\ In' = Tail(In) /\ Out' = Out /\ Holds
            /\ line' = Head(In).p
  <2>1. Len(In) \in Nat /\ Len(Tail(In)) = Len(In) - 1 /\ Head(In) \in Message
    BY <1>1, <1>14, HeadTailProperties, LenProperties DEF Takes
  <2>2. line' # NULL /\ line = NULL
    BY <1>5, <1>14, <2>1, MessageParts, ConsoleAssumption DEF WorkInv
  <2>3. Lined' = Lined
    <3>1. One(line # NULL) = 0 /\ One(line # NULL)' = 1
      BY <2>2 DEF One
    <3>2. One(hpc = "post")' = One(hpc = "post") /\ One(hpc = "post") \in Nat
      BY <1>3 DEF One
    <3>3. Len(In') = Len(In) - 1
      BY <1>14, <2>1
    <3>4. QED
      BY <2>1, <3>1, <3>2, <3>3 DEF Lined
  <2>4. Buffers' = Buffers
    BY <1>5, <1>14 DEF Buffers, Early
  <2>5. \A k : Cnt(Out, k)' = Cnt(Out, k) /\ Lining(k)' = Lining(k)
    BY <1>14, <2>3, <2>4 DEF Lining, Cnt, Here, LineBlock, Block, PoolOf
  <2>6. \A k \in Pool : held'[k] = held[k]
    BY <1>14, HeldChanges
  <2>7. \A k : Carries(k) = 0 /\ Carries(k)' = 0
    BY <1>5, <1>14 DEF Carries, One
  <2>8. QED
    BY <1>3, <1>4, <2>5, <2>6, <2>7 DEF HeldInv
<1>15. CASE Goes(Command, "free", "alloc") /\ FlowsStay /\ Frees(LineBlock) /\ line' = NULL
  <2>1. Len(In) \in Nat
    BY <1>1, LenProperties
  <2>2. line # NULL
    BY <1>5, <1>15 DEF WorkInv
  <2>3. Lined = Lined' + 1 /\ Lined' \in Nat
    BY <1>3, <1>15, <2>1, <2>2 DEF Lined, One, FlowsStay
  <2>4. Buffers' = Buffers
    BY <1>5, <1>15 DEF Buffers, Early, FlowsStay
  <2>5. \A k : /\ Cnt(Out, k)' = Cnt(Out, k)
                /\ Lining(k) = Lining(k)' + One(k = LineBlock)
                /\ Lining(k)' \in Nat
    <3>1. \A k : Cnt(Out, k)' = Cnt(Out, k)
      BY <1>15 DEF Cnt, Here, Block, PoolOf, FlowsStay
    <3>2. ASSUME NEW k
          PROVE  Lining(k) = Lining(k)' + One(k = LineBlock) /\ Lining(k)' \in Nat
      <4>1. Lining(k)' = IF k = LineBlock THEN Lined' + Buffers' ELSE 0
        BY DEF Lining, LineBlock, PoolOf
      <4>2. Lining(k) = IF k = LineBlock THEN Lined + Buffers ELSE 0
        BY DEF Lining
      <4>3. One(k = LineBlock) = IF k = LineBlock THEN 1 ELSE 0
        BY DEF One
      <4>4. Lined + Buffers = (Lined' + Buffers') + 1 /\ Lined' + Buffers' \in Nat
        <5>1. Lined' \in Nat /\ Buffers' \in Nat
          BY <1>2, <2>3, <2>4
        <5>2. Lined + Buffers = (Lined' + 1) + Buffers'
          BY <2>3, <2>4
        <5>3. \A a, b \in Nat : (a + 1) + b = (a + b) + 1 /\ a + b \in Nat
          OBVIOUS
        <5>4. QED
          BY <5>1, <5>2, <5>3, Zenon
      <4>5. QED
        BY <4>1, <4>2, <4>3, <4>4
    <3>3. QED
      BY <3>1, <3>2
  <2>6. \A k \in Pool : held'[k] = held[k] - One(k = LineBlock)
    BY <1>15, HeldChanges
  <2>7. \A k : Carries(k) = 0 /\ Carries(k)' = 0
    BY <1>5, <1>15 DEF Carries, One
  <2>8. QED
    BY <1>2, <1>3, <1>4, <1>6, <2>5, <2>6, <2>7, OneType DEF HeldInv
<1>16. QED
  BY <1>8, <1>9, <1>11, <1>12, <1>13, <1>14, <1>15 DEF CommandDoes
LEMMA ConsdrvHolds ==
  ASSUME TypeOK, Running, Running', WorkInv, FitsInv, StageInv, HeldInv, ConsdrvDoes
  PROVE  HeldInv'
<1> USE ThreadsOfConsole
<1>1. In \in Seq(Message) /\ Out \in Seq(Message)
  BY FlowsTyped
<1>2. /\ Lined \in Nat /\ Buffers \in Nat
      /\ \A k : Cnt(Out, k) \in Nat /\ Lining(k) \in Nat
      /\ \A k \in Pool : held[k] \in Nat
  BY HeldTerms
<1>3. /\ UNCHANGED <<todo, line, hpc>> /\ In' = In
      /\ pc'[Command] = pc[Command]
  BY DEF ConsdrvDoes, handlerVars, FlowsStay, Goes, Moved
<1>4. \A k \in Pool : held[k] = Cnt(Out, k) + Lining(k) + Freeing(k) + Carries(k)
  BY DEF HeldInv
<1>5. ASSUME NEW l, NEW m, Goes(Consdrv, l, m)
      PROVE  pc[Consdrv] = l /\ pc'[Consdrv] = m
  BY <1>5 DEF Goes, Moved
<1>6. \A k : Freeing(k) \in Nat /\ Carries(k) \in Nat
  BY DEF Freeing, Carries, One
<1>7. (\A k : Carries(k)' = Carries(k)) /\ Lined' = Lined
  BY <1>3 DEF Carries, Lined, PoolOf
<1>8. /\ Asks \/ Asked => Buffers = 0
      /\ Opened => Buffers = CASE pc[Consdrv] = "send_buf" -> 0
                               [] pc[Consdrv] = "recv_buf" -> 1
                               [] OTHER -> 2
      /\ InUse => Buffers = 2
      /\ Asks \/ Asked \/ Opened \/ InUse
  BY BuffersAre DEF StageInv
(* The buffers are allocated. *)
<1>9. ASSUME NEW l \in {"send_buf", "recv_buf"}, NEW m \in {"recv_buf", "serial_init"},
             Goes(Consdrv, l, m), l = "send_buf" <=> m = "recv_buf",
             FlowsStay, Allocs(LineBlock), req' = req
      PROVE  HeldInv'
  <2>1. pc[Consdrv] = l /\ pc'[Consdrv] = m
    BY <1>5, <1>9
  <2>2. Opened
    BY <1>8, <2>1 DEF Asks, Asked, InUse, Opens
  <2>3. ~Early /\ ~Early'
    BY <1>3, <2>2 DEF Opened, Early
  <2>4. Out # <<>> => Head(Out).p.cmd # "use"
    <3>1. Out # <<>> => Head(Out) \in Written
      BY <2>2, HeadTailProperties DEF Opened
    <3>2. QED
      BY <3>1 DEF Written
  <2>5. Buffers' = Buffers + 1
    BY <1>9, <2>1, <2>3, <2>4 DEF Buffers, FlowsStay
  <2>6. \A k : Cnt(Out, k)' = Cnt(Out, k) /\ Freeing(k)' = Freeing(k)
    BY <1>9 DEF Freeing, Cnt, Here, Block, PoolOf, FlowsStay
  <2>7. ASSUME NEW k PROVE Lining(k)' = Lining(k) + One(k = LineBlock)
    <3>1. Lining(k)' = IF k = LineBlock THEN Lined' + Buffers' ELSE 0
      BY DEF Lining, LineBlock, PoolOf
    <3>2. Lining(k) = IF k = LineBlock THEN Lined + Buffers ELSE 0
      BY DEF Lining
    <3>3. One(k = LineBlock) = IF k = LineBlock THEN 1 ELSE 0
      BY DEF One
    <3>4. QED
      BY <1>2, <1>7, <2>5, <3>1, <3>2, <3>3
  <2>8. \A k \in Pool : held'[k] = held[k] + One(k = LineBlock)
    BY <1>9, HeldChanges
  <2>9. QED
    BY <1>2, <1>4, <1>6, <1>7, <2>6, <2>7, <2>8, OneType DEF HeldInv
(* A request is taken. *)
<1>10. ASSUME Takes(Consdrv, Out), Out' = Tail(Out), Holds, req = NULL,
              req' = Head(Out).p, Buffers' = Buffers
       PROVE  HeldInv'
  <2>1. Head(Out) \in Message /\ Head(Out).p # NULL
    BY <1>1, <1>10, HeadTailProperties, MessageParts, ConsoleAssumption DEF Takes
  <2>2. \A k : Cnt(Out, k) = Cnt(Tail(Out), k) + Is(Head(Out), k)
    BY <1>1, <1>10, CntTail DEF Takes
  <2>3. \A k : Cnt(Out, k)' = Cnt(Tail(Out), k)
    BY <1>10 DEF Cnt, Here, Block, PoolOf
  <2>4. \A k : Freeing(k) = 0 /\ Freeing(k)' = Is(Head(Out), k)
    BY <1>10, <2>1 DEF Freeing, Is, One, Block, PoolOf
  <2>5. Tail(Out) \in Seq(Message)
    BY <1>1, <1>10, HeadTailProperties DEF Takes
  <2>6. \A k : Cnt(Tail(Out), k) \in Nat
    BY <2>5, HereIsFinite
  <2>7. \A k : Lining(k)' = Lining(k)
    BY <1>7, <1>10 DEF Lining, LineBlock, PoolOf
  <2>8. \A k \in Pool : held'[k] = held[k]
    BY <1>10, HeldChanges
  <2>9. \A k : Is(Head(Out), k) \in Nat
    BY DEF Is, One
  <2>10. QED
    BY <1>2, <1>4, <1>6, <1>7, <2>2, <2>3, <2>4, <2>6, <2>7, <2>8, <2>9 DEF HeldInv
<1>11. CASE /\ Goes(Consdrv, "got", "send_buf")
            /\ Takes(Consdrv, Out) /\ Out' = Tail(Out) /\ In' = In /\ Holds
            /\ req' = Head(Out).p /\ req'.cmd = "use"
  <2>1. req = NULL
    BY <1>5, <1>11 DEF WorkInv
  <2>2. Buffers = 0
    BY <1>11 DEF Buffers, Takes
  <2>3. Buffers' = 0
    BY <1>5, <1>11 DEF Buffers
  <2>4. QED
    BY <1>10, <1>11, <2>1, <2>2, <2>3
<1>12. CASE /\ Goes(Consdrv, "got", "copy")
            /\ Takes(Consdrv, Out) /\ Out' = Tail(Out) /\ In' = In /\ Holds
            /\ req' = Head(Out).p /\ req'.cmd = "write"
  <2>1. req = NULL
    BY <1>5, <1>12 DEF WorkInv
  <2>2. InUse
    BY <1>5, <1>8, <1>12 DEF Asks, Asked, Opened, Opens, Takes
  <2>3. Tail(Out) \in Seq(Written)
    BY <1>12, <2>2, HeadTailProperties DEF InUse, Takes
  <2>4. Tail(Out) # <<>> => Head(Tail(Out)).p.cmd # "use"
    <3>1. Tail(Out) # <<>> => Head(Tail(Out)) \in Written
      BY <2>3, HeadTailProperties
    <3>2. QED
      BY <3>1 DEF Written
  <2>5. Buffers' = 2
    BY <1>3, <1>5, <1>12, <2>2, <2>4 DEF Buffers, InUse, Early
  <2>6. QED
    BY <1>8, <1>10, <1>12, <2>1, <2>2, <2>5
(* A request is freed. *)
<1>13. CASE Goes(Consdrv, "free", "recv") /\ FlowsStay /\ Frees(Block(req)) /\ req' = NULL
  <2>1. req # NULL
    BY <1>5, <1>13 DEF WorkInv
  <2>2. Buffers' = Buffers
    BY <1>3, <1>5, <1>13 DEF Buffers, Early, FlowsStay
  <2>3. \A k : Cnt(Out, k)' = Cnt(Out, k) /\ Lining(k)' = Lining(k)
    BY <1>7, <1>13, <2>2 DEF Lining, LineBlock, Cnt, Here, Block, PoolOf, FlowsStay
  <2>4. \A k : Freeing(k)' = 0 /\ Freeing(k) = One(k = Block(req))
    BY <1>13, <2>1 DEF Freeing, One
  <2>5. \A k \in Pool : held'[k] = held[k] - One(k = Block(req))
    BY <1>13, HeldChanges
  <2>6. QED
    BY <1>2, <1>4, <1>6, <1>7, <2>3, <2>4, <2>5, OneType DEF HeldInv
(* Everything else. *)
<1>14. ASSUME FlowsStay, Holds, req' = req, Buffers' = Buffers
       PROVE  HeldInv'
  <2>1. \A k : /\ Cnt(Out, k)' = Cnt(Out, k) /\ Lining(k)' = Lining(k)
               /\ Freeing(k)' = Freeing(k)
    BY <1>7, <1>14 DEF Lining, LineBlock, Cnt, Here, Block, PoolOf, FlowsStay, Freeing
  <2>2. \A k \in Pool : held'[k] = held[k]
    BY <1>14, HeldChanges
  <2>3. QED
    BY <1>4, <1>7, <2>1, <2>2 DEF HeldInv
<1>15. CASE /\ \/ Goes(Consdrv, "setintr", "recv")
               \/ Goes(Consdrv, "recv", "got")
               \/ Goes(Consdrv, "serial_init", "free")
               \/ \E m \in {"kick", "unmask"} : Goes(Consdrv, "copy", m)
               \/ Goes(Consdrv, "kick", "unmask")
               \/ Goes(Consdrv, "unmask", "free")
            /\ FlowsStay /\ Holds /\ req' = req
  <2>1. {pc[Consdrv], pc'[Consdrv]} \cap {"send_buf", "recv_buf"} = {}
    BY <1>5, <1>15
  <2>2. Buffers' = Buffers
    BY <1>3, <1>15, <2>1 DEF Buffers, Early, FlowsStay
  <2>3. QED
    BY <1>14, <1>15, <2>2
<1>16. QED
  BY <1>9, <1>11, <1>12, <1>13, <1>15 DEF ConsdrvDoes

LEMMA OutsideHolds ==
  ASSUME TypeOK, Running, Running', RegsInv, StageInv, HeldInv, HandlerDoes \/ OthersDo
  PROVE  HeldInv'
<1>1. In \in Seq(Message) /\ Out \in Seq(Message)
  BY FlowsTyped
<1>2. /\ Lined \in Nat /\ Buffers \in Nat
      /\ \A k : Cnt(Out, k) \in Nat /\ Lining(k) \in Nat
      /\ \A k \in Pool : held[k] \in Nat
  BY HeldTerms
<1>3. /\ UNCHANGED <<req, todo, line, Out>>
      /\ pc'[Command] = pc[Command] /\ pc'[Consdrv] = pc[Consdrv]
  BY DEF HandlerDoes, OthersDo, FlowsStay
<1>4. \A k \in Pool : held[k] = Cnt(Out, k) + Lining(k) + Freeing(k) + Carries(k)
  BY DEF HeldInv
<1>5. \A k : Freeing(k) \in Nat /\ Carries(k) \in Nat
  BY DEF Freeing, Carries, One
<1>6. /\ Buffers' = Buffers
      /\ \A k : /\ Cnt(Out, k)' = Cnt(Out, k) /\ Freeing(k)' = Freeing(k)
               /\ Carries(k)' = Carries(k)
  BY <1>3 DEF Buffers, Early, Cnt, Here, Block, PoolOf, Freeing, Carries
<1>7. ASSUME NEW d \in Nat, Lined' = Lined + d,
             \A k \in Pool : held'[k] = held[k] + (IF k = LineBlock THEN d ELSE 0)
      PROVE  HeldInv'
  <2>1. ASSUME NEW k PROVE Lining(k)' = Lining(k) + (IF k = LineBlock THEN d ELSE 0)
    <3>1. Lining(k)' = IF k = LineBlock THEN Lined' + Buffers' ELSE 0
      BY DEF Lining, LineBlock, PoolOf
    <3>2. Lining(k) = IF k = LineBlock THEN Lined + Buffers ELSE 0
      BY DEF Lining
    <3>3. QED
      BY <1>2, <1>6, <1>7, <3>1, <3>2
  <2> DEFINE e(k) == IF k = LineBlock THEN d ELSE 0
  <2>2. \A k : e(k) \in Nat
    OBVIOUS
  <2>3. \A k : Lining(k)' = Lining(k) + e(k)
    BY <2>1
  <2>4. \A k \in Pool : held'[k] = held[k] + e(k)
    BY <1>7
  <2> HIDE DEF e
  <2>5. QED
    BY <1>2, <1>4, <1>5, <1>6, <2>2, <2>3, <2>4 DEF HeldInv
<1>8. CASE FlowsStay /\ Holds /\ (hpc = "post" <=> hpc' = "post")
  <2>1. Lined' = Lined + 0
    <3>1. Lined' = Lined
      BY <1>3, <1>8 DEF Lined, One, FlowsStay
    <3>2. QED
      BY <1>2, <3>1
  <2>2. \A k \in Pool : held'[k] = held[k] + (IF k = LineBlock THEN 0 ELSE 0)
    BY <1>2, <1>8, HeldChanges
  <2>3. QED
    BY <1>7, <2>1, <2>2
<1>9. CASE Serves("store", "post") /\ FlowsStay /\ Allocs(LineBlock)
  <2>1. Lined' = Lined + 1
    <3>1. Len(In) \in Nat /\ One(line # NULL) \in Nat
      BY <1>1, LenProperties DEF One
    <3>2. Len(In)' = Len(In) /\ One(line # NULL)' = One(line # NULL)
      BY <1>3, <1>9 DEF FlowsStay
    <3>3. One(hpc = "post") = 0 /\ One(hpc = "post")' = 1
      BY <1>9 DEF Serves, One
    <3>4. QED
      BY <3>1, <3>2, <3>3 DEF Lined
  <2>2. \A k \in Pool : held'[k] = held[k] + (IF k = LineBlock THEN 1 ELSE 0)
    BY <1>9, HeldChanges DEF One
  <2>3. QED
    BY <1>7, <2>1, <2>2
<1>10. CASE /\ Serves("post", "send") /\ Holds
            /\ In' = Append(In, [sender |-> NULL, p |-> Line(recv_buf)])
  <2>1. Lined' = Lined + 0
    <3>1. Len(In) \in Nat /\ One(line # NULL) \in Nat
      BY <1>1, LenProperties DEF One
    <3>2. Len(In)' = Len(In) + 1 /\ One(line # NULL)' = One(line # NULL)
      BY <1>1, <1>3, <1>10
    <3>3. One(hpc = "post") = 1 /\ One(hpc = "post")' = 0
      BY <1>10 DEF Serves, One
    <3>4. QED
      BY <3>1, <3>2, <3>3 DEF Lined
  <2>2. \A k \in Pool : held'[k] = held[k] + (IF k = LineBlock THEN 0 ELSE 0)
    BY <1>2, <1>10, HeldChanges
  <2>3. QED
    BY <1>7, <2>1, <2>2
<1>11. CASE HandlerDoes
  <2>1. CASE hpc = "post"
    BY <1>10, <1>11, <2>1 DEF HandlerDoes, Serves, RegsInv
  <2>2. CASE hpc = "store" /\ hpc' = "post"
    BY <1>9, <1>11, <2>2 DEF HandlerDoes, Serves
  <2>3. CASE hpc # "post" /\ hpc' # "post"
    BY <1>8, <1>11, <2>3 DEF HandlerDoes, Serves
  <2>4. QED
    BY <1>11, <2>1, <2>2, <2>3 DEF HandlerDoes, Serves
<1>12. CASE OthersDo
  BY <1>8, <1>12 DEF OthersDo, handlerVars
<1>13. QED
  BY <1>11, <1>12

LEMMA HeldStep ==
  ASSUME TypeOK, RegsInv, NEW C, Alphabet(C), TextInv(C), WorkInv, FitsInv, StageInv,
         HeldInv, DoesStep
  PROVE  HeldInv'
<1> SUFFICES ASSUME Running' PROVE HeldInv'
  BY DEF HeldInv
<1>1. Running
  BY DEF DoesStep, CommandDoes, ConsdrvDoes, HandlerDoes, OthersDo, Goes, Serves, Running
<1>2. QED
  BY <1>1, CommandHolds, ConsdrvHolds, OutsideHolds DEF DoesStep

-------------------------------------------------------------------------------
(***************************************************************************)
(* The invariant of the console.                                           *)
(***************************************************************************)
PcFunction == pc = [t \in {Idle, Consdrv, Command} |-> pc[t]]

(* The line that command_main() works at is one that was typed.            *)
LineIsTyped == line # NULL => line.str \in Lines

ConsInv(C) ==
  /\ IInv /\ BlocksConserved /\ ThreadInv /\ PcFunction
  /\ TextInv(C) /\ RegsInv /\ WorkInv /\ FitsInv
  /\ StageInv /\ LineInv /\ HeldInv /\ LineIsTyped

LEMMA FlowsInit == ConsInit => ThreadInv /\ In = <<>> /\ Out = <<>> /\ pc[Command] = "use_alloc"
<1> SUFFICES ASSUME ConsInit PROVE ThreadInv /\ In = <<>> /\ Out = <<>> /\ pc[Command] = "use_alloc"
  OBVIOUS
<1> USE ThreadsOfConsole
<1>1. /\ pc[Idle] = "run_consdrv" /\ pc[Consdrv] = "setintr" /\ pc[Command] = "use_alloc"
      /\ DOMAIN pc = {Idle, Consdrv, Command}
  BY DEF ConsInit
<1>2. \A b \in MsgBox : receiver[b] = NULL /\ msgs[b] = <<>>
  BY DEF ConsInit, Init
<1>3. live = {Idle}
  BY DEF ConsInit, Init, Idle
<1>4. BoxInv("input", Command) /\ BoxInv("output", Consdrv)
  BY <1>1, <1>2, Boxes, NullIsNoThread DEF BoxInv
<1>5. In = <<>> /\ Out = <<>>
  BY <1>1, <1>2, Boxes DEF In, Out, Flow
<1>6. PcInv /\ StartInv
  BY <1>1, <1>3 DEF PcInv, StartInv
<1>7. QED
  BY <1>1, <1>4, <1>5, <1>6 DEF ThreadInv

LEMMA ConsInitInv ==
  ASSUME NEW C, Alphabet(C), ConsInit
  PROVE  ConsInv(C)
<1>1. Init
  BY DEF ConsInit
<1>2. IInv /\ BlocksConserved
  BY <1>1, InitIInv, InitBalanced
<1>3. ThreadInv /\ In = <<>> /\ Out = <<>> /\ pc[Command] = "use_alloc"
  BY FlowsInit
<1>4. pc[Consdrv] = "setintr" /\ PcFunction
  BY ThreadsOfConsole DEF ConsInit, PcFunction
<1>5. TextInv(C)
  <2>1. /\ todo = <<Prompt>> /\ recv_buf = <<>> /\ typing = <<>> /\ ~rdrf /\ hpc = "end"
        /\ typed = <<>> /\ received = <<>>
    BY DEF ConsInit
  <2>2. <<Prompt>> \in Seq(Seq(C))
    BY DEF Alphabet
  <2>3. Len(<<>>) = 0 /\ MaxLines \in Nat
    BY ConsoleAssumption
  <2>4. \A S : <<>> \in Seq(S)
    OBVIOUS
  <2>5. QED
    BY <1>3, <2>1, <2>2, <2>3, <2>4 DEF TextInv, HasCh
<1>6. RegsInv
  BY DEF ConsInit, RegsInv
<1>7. WorkInv
  <2>1. todo # <<>> /\ line = NULL /\ req = NULL
    BY DEF ConsInit
  <2>2. QED
    BY <1>3, <1>4, <2>1 DEF WorkInv
<1>8. FitsInv
  <2>1. line = NULL /\ req = NULL /\ hpc = "end"
    BY DEF ConsInit
  <2>2. QED
    BY <1>3, <2>1 DEF FitsInv
<1>9. Asks
  BY <1>3, <1>4 DEF ConsInit, Asks, Early, Fresh
<1>10. LineInv
  <2>1. received = <<>> /\ typed = <<>> /\ hpc = "end" /\ ~rdrf /\ typing = <<>>
        /\ recv_buf = <<>>
    BY DEF ConsInit
  <2>2. Ended = FALSE /\ Stored = <<>> /\ Coming = <<>> /\ Arrived = 0
    BY <1>3, <2>1 DEF Ended, Stored, Coming, Arrived, HasCh
  <2>3. QED
    BY <1>3, <2>1, <2>2 DEF LineInv, Delivery, Keyed
<1>11. HeldInv
  <2>1. \A k \in Pool : held[k] = 0
    BY <1>1 DEF Init
  <2>2. line = NULL /\ req = NULL /\ hpc = "end"
    BY DEF ConsInit
  <2>3. Lined = 0 /\ Buffers = 0
    BY <1>3, <2>2 DEF Lined, Buffers, Early, One
  <2>4. \A k : /\ Cnt(Out, k) = 0 /\ Lining(k) = 0 /\ Freeing(k) = 0
               /\ Carries(k) = 0
    BY <1>3, <2>2, <2>3, CntOfNone DEF Lining, Freeing, Carries, One
  <2>5. QED
    BY <2>1, <2>4 DEF HeldInv
<1>12. LineIsTyped
  BY DEF ConsInit, LineIsTyped
<1>13. QED
  BY <1>2, <1>3, <1>4, <1>5, <1>6, <1>7, <1>8, <1>9, <1>10, <1>11, <1>12
     DEF ConsInv, StageInv

LEMMA PcStep ==
  ASSUME PcFunction, PcInv, [ConsNext]_cvars
  PROVE  PcFunction'
<1>1. CASE \E t, l, m : Moves(t, l, m)
  BY <1>1 DEF Moves, PcFunction
<1>2. CASE pc' = pc
  BY <1>2 DEF PcFunction
<1>3. CASE consdrv_intrproc \/ serial_intr \/ Transmit \/ Type \/ UNCHANGED cvars
  BY <1>2, <1>3 DEF consdrv_intrproc, intr_recv, intr_kick, intr_store, intr_post,
     intr_send, intr_return, serial_intr, Transmit, Type, threadVars, cvars
<1>4. CASE command_main
  BY <1>1, <1>4 DEF command_main, send_use, send_write, command_recv, command_got,
     command_free
<1>5. CASE consdrv_main
  BY <1>1, <1>5 DEF consdrv_main, consdrv_init, consdrv_recv, consdrv_use, consdrv_mask,
     consdrv_write, consdrv_free
<1>6. CASE start_threads \/ idle_sleep
  BY <1>1, <1>6 DEF start_threads, idle_sleep
<1>7. QED
  BY <1>3, <1>4, <1>5, <1>6 DEF ConsNext, Processor

LEMMA LinedIsTyped ==
  ASSUME NEW C, Alphabet(C), ConsInv(C), Running, In # <<>>
  PROVE  Len(received) < Len(typed) /\ Head(In).p.str \in Lines
<1>1. /\ In \in Seq(Texts(C)) /\ typed \in Seq(Lines) /\ received \in Seq(Seq(C))
  BY DEF ConsInv, TextInv
<1>2. /\ Delivery(received, In, typed)
      /\ Len(typed) = Arrived + (IF Ended THEN 1 ELSE 0) + (IF Coming = <<>> THEN 0 ELSE 1)
  BY DEF ConsInv, LineInv, Keyed
<1>3. Len(In) \in Nat \ {0} /\ Len(received) \in Nat
  BY <1>1, LenProperties, EmptySeq
<1>4. Len(received) + Len(In) <= Len(typed)
  <2> DEFINE a == IF Ended THEN 1 ELSE 0
             b == IF Coming = <<>> THEN 0 ELSE 1
  <2>1. a \in Nat /\ b \in Nat
    OBVIOUS
  <2> HIDE DEF a, b
  <2>2. Len(typed) = Len(received) + Len(In) + a + b
    BY <1>2 DEF Arrived, a, b
  <2>3. QED
    BY <1>3, <2>1, <2>2
<1>5. Len(typed) \in Nat
  BY <1>1, LenProperties
<1>6. Len(received) < Len(typed)
  BY <1>3, <1>4, <1>5
<1>7. Head(In).p.str = typed[Len(received) + 1]
  <2>1. 1 \in 1 .. Len(In) /\ Head(In) = In[1]
    BY <1>3
  <2>2. QED
    BY <1>2, <2>1 DEF Delivery
<1>8. Len(received) + 1 \in 1 .. Len(typed)
  BY <1>3, <1>5, <1>6
<1>9. typed[Len(received) + 1] \in Lines
  BY <1>1, <1>8, ElementOfSeq
<1>10. QED
  BY <1>6, <1>7, <1>9

LEMMA ConsStep ==
  ASSUME ~WakeReceivers, NEW C, Alphabet(C), ConsInv(C), [ConsNext]_cvars
  PROVE  ConsInv(C)' /\ [Next]_vars /\ DoesStep
<1>1. /\ IInv /\ BlocksConserved /\ ThreadInv /\ PcFunction
      /\ TextInv(C) /\ RegsInv /\ WorkInv /\ FitsInv
      /\ StageInv /\ LineInv /\ HeldInv /\ LineIsTyped /\ TypeOK
  BY DEF ConsInv, IInv
<1>2. [Next]_vars
  BY <1>1, ConsoleIsUser
<1>3. IInv' /\ BlocksConserved'
  BY <1>1, <1>2, NextIInv, NextBalanced
<1>4. ThreadInv' /\ DoesStep
  <2>1. CASE command_main
    BY <1>1, <2>1, CommandDoesSo DEF DoesStep
  <2>2. CASE consdrv_main
    BY <1>1, <2>2, ConsdrvDoesSo DEF DoesStep
  <2>3. CASE serial_intr \/ consdrv_intrproc
    BY <1>1, <2>3, HandlerDoesSo DEF DoesStep
  <2>4. CASE start_threads \/ idle_sleep \/ Transmit \/ Type \/ UNCHANGED cvars
    BY <1>1, <2>4, OthersDoSo DEF DoesStep
  <2>5. QED
    BY <2>1, <2>2, <2>3, <2>4 DEF ConsNext, Processor
<1>5. PcFunction'
  BY <1>1, PcStep DEF ThreadInv
<1>6. Running /\ In # <<>> => Len(received) < Len(typed)
  BY LinedIsTyped
<1>7. TextInv(C)'
  BY <1>1, <1>4, <1>6, TextStep
<1>8. RegsInv' /\ WorkInv' /\ FitsInv'
  BY <1>1, <1>4, RegsStep, WorkStep, FitsStep
<1>9. StageInv' /\ LineInv' /\ HeldInv'
  BY <1>1, <1>4, StageStep, LinesStep, HeldStep
<1>10. LineIsTyped'
  <2>1. CASE pc[Command] = "got" /\ CommandDoes
    <3>1. Takes(Command, In) /\ line' = Head(In).p /\ Running
      BY <2>1 DEF CommandDoes, Goes, Moved, Running
    <3>2. QED
      BY <3>1, LinedIsTyped DEF LineIsTyped, Takes
  <2>2. CASE line' = line \/ line' = NULL
    BY <1>1, <2>2 DEF LineIsTyped
  <2>3. QED
    BY <1>4, <2>1, <2>2 DEF DoesStep, CommandDoes, ConsdrvDoes, HandlerDoes, OthersDo,
       Goes, Moved
<1>11. QED
  BY <1>2, <1>3, <1>4, <1>5, <1>7, <1>8, <1>9, <1>10 DEF ConsInv

(***************************************************************************)
(* The threads and the handler of the console never use the kernel in a    *)
(* way that module Kozos leaves out: whatever is proved of its Spec holds  *)
(* of the console.                                                         *)
(***************************************************************************)
LEMMA ConsAlways ==
  ASSUME ~WakeReceivers, NEW C, Alphabet(C)
  PROVE  ConsSpec => []ConsInv(C)
<1>1. ConsInit => ConsInv(C)
  BY ConsInitInv
<1>2. ConsInv(C) /\ [ConsNext]_cvars => ConsInv(C)'
  BY ConsStep
<1>3. QED
  BY <1>1, <1>2, PTL DEF ConsSpec

THEOREM ConsoleUsesKernel ==
  ASSUME ~WakeReceivers, NEW C, Alphabet(C)
  PROVE  ConsSpec => Spec
<1>1. ConsInit => Init
  BY DEF ConsInit
<1>2. ConsInv(C) /\ [ConsNext]_cvars => [Next]_vars
  BY ConsStep
<1>3. QED
  BY <1>1, <1>2, ConsAlways, PTL DEF ConsSpec, Spec

(***************************************************************************)
(* Whatever is typed and however fast, the variables have the types of the *)
(* code.                                                                   *)
(***************************************************************************)
THEOREM ConsoleTyping ==
  ASSUME ~WakeReceivers, NEW C, Alphabet(C)
  PROVE  ConsSpec => []ConsTypeOK
<1>1. ASSUME ConsInv(C) PROVE ConsTypeOK
  <2> USE ThreadsOfConsole
  <2>1. TypeOK /\ PcInv /\ PcFunction /\ TextInv(C) /\ RegsInv /\ WorkInv
    BY <1>1 DEF ConsInv, IInv, ThreadInv
  <2> DEFINE P == {"run_consdrv", "run_command", "chpri", "enable", "sleep",
                   "setintr", "recv", "got", "send_buf", "recv_buf", "serial_init",
                   "copy", "kick", "unmask", "free",
                   "use_alloc", "use_send", "alloc", "send"}
  <2>2. \A t \in {Idle, Consdrv, Command} : pc[t] \in P
    BY <2>1 DEF PcInv
  <2>3. pc \in [{Idle, Consdrv, Command} -> P]
    BY <2>1, <2>2 DEF PcFunction
  <2>4. \A i \in 1 .. Len(recv_buf) : recv_buf[i] \notin {"\r", "\n"}
    BY <2>1, ElementOfSeq DEF TextInv
  <2>5. Len(typed) \in 0 .. MaxLines /\ Len(received) \in 0 .. MaxLines
    <3>1. Len(typed) \in Nat /\ Len(received) \in Nat
      BY <2>1, LenProperties DEF TextInv
    <3>2. Len(typed) <= MaxLines /\ Len(received) <= Len(typed)
      BY <2>1 DEF TextInv
    <3>3. QED
      BY <3>1, <3>2, ConsoleAssumption
  <2>6. QED
    BY <2>1, <2>3, <2>4, <2>5 DEF ConsTypeOK, RegsInv, WorkInv
<1>2. QED
  BY <1>1, ConsAlways, PTL

(***************************************************************************)
(* When both threads wait, the two buffers of the console are all that is  *)
(* held, and every other block is free.                                    *)
(***************************************************************************)
THEOREM NothingLeaks ==
  ASSUME ~WakeReceivers, NEW C, Alphabet(C)
  PROVE  ConsSpec => []NoLeak
<1>1. ASSUME ConsInv(C), AllWait
      PROVE  /\ held = [k \in Pool |-> IF k = LineBlock THEN 2 ELSE 0]
             /\ free = [k \in Pool |-> BlockNum[k] - held[k]]
  <2> USE ThreadsOfConsole
  <2>1. /\ TypeOK /\ NoMissedMessage /\ BlocksConserved /\ ThreadInv /\ WorkInv /\ RegsInv
        /\ StageInv /\ HeldInv
    BY <1>1 DEF ConsInv, IInv, WaitInv
  <2>2. mode = "user" /\ receiver["output"] = Consdrv /\ receiver["input"] = Command
    BY <1>1 DEF AllWait
  <2>3. Running /\ hpc = "end"
    BY <2>1, <2>2 DEF Running, RegsInv
  <2>4. /\ pc[Command] = "got" /\ pc[Consdrv] = "got"
        /\ param[Command] = NULL /\ param[Consdrv] = NULL
    BY <2>1, <2>2 DEF ThreadInv, BoxInv
  <2>5. \A b \in MsgBox : msgs[b] = <<>>
    BY <2>1, <2>2, Boxes, NullIsNoThread DEF NoMissedMessage
  <2>6. In = <<>> /\ Out = <<>>
    BY <2>4, <2>5, Boxes DEF In, Out, Flow
  <2>7. req = NULL /\ line = NULL
    BY <2>1, <2>4 DEF WorkInv
  <2>8. Lined = 0 /\ Buffers = 2
    BY <2>3, <2>4, <2>6, <2>7 DEF Lined, One, Buffers, Early
  <2>9. ASSUME NEW k \in Pool PROVE held[k] = IF k = LineBlock THEN 2 ELSE 0
    <3>1. held[k] = Cnt(Out, k) + Lining(k) + Freeing(k) + Carries(k)
      BY <2>1, <2>3 DEF HeldInv
    <3>2. Cnt(Out, k) = 0 /\ Freeing(k) = 0 /\ Carries(k) = 0
      BY <2>4, <2>6, <2>7, CntOfNone DEF Freeing, Carries, One
    <3>3. Lining(k) = IF k = LineBlock THEN 2 ELSE 0
      BY <2>8 DEF Lining
    <3>4. QED
      BY <3>1, <3>2, <3>3
  <2>10. held \in [Pool -> Nat] /\ free \in [Pool -> Nat]
    BY <2>1 DEF TypeOK
  <2>11. Total(msgs, MsgBox) = 0
    BY <2>5, TotalOfNone, KozosAssumption
  <2>12. ASSUME NEW k \in Pool PROVE free[k] = BlockNum[k] - held[k]
    <3>1. Balanced(free, held, msgs)
      BY <2>1, ConservedIsBalanced
    <3>2. free[k] + held[k] + 0 = BlockNum[k]
      BY <2>11, <3>1 DEF Balanced, Waiting
    <3>3. QED
      BY <2>10, <3>2
  <2>13. QED
    BY <2>9, <2>10, <2>12
<1>2. ConsInv(C) => NoLeak
  BY <1>1 DEF NoLeak, LineBlock
<1>3. QED
  BY <1>2, ConsAlways, PTL
(***************************************************************************)
(* command_main() gets the lines in the order in which they were typed,    *)
(* each once and whole, however fast they come.                            *)
(***************************************************************************)
LEMMA UnderWay ==
  ASSUME NEW C, Alphabet(C), ConsInv(C), Running
  PROVE  /\ Delivered \in Seq(Seq(C)) /\ Queued \in Seq(Seq(C))
         /\ Delivered \o Queued \in Seq(Seq(C))
         /\ Len(Delivered \o Queued) = Len(In)
         /\ \A i \in 1 .. Len(In) : (Delivered \o Queued)[i] = In[i].p.str
<1> USE ThreadsOfConsole
<1> DEFINE q == msgs["input"]
           m == param[Command]
<1>1. /\ In \in Seq(Texts(C)) /\ q \in Seq(Message)
      /\ m # NULL => m \in Message
  <2>1. TypeOK /\ "input" \in MsgBox
    BY Boxes DEF ConsInv, IInv
  <2>2. QED
    BY <2>1, FlowType DEF ConsInv, TextInv
<1>2. \A i \in 1 .. Len(In) : In[i].p.str \in Seq(C)
  <2>1. \A i \in 1 .. Len(In) : In[i] \in Texts(C)
    BY <1>1, ElementOfSeq
  <2>2. QED
    BY <2>1 DEF Texts
<1>3. Queued = [i \in 1 .. Len(q) |-> q[i].p.str] /\ Len(q) \in Nat
  BY <1>1, LenProperties DEF Queued
<1>4. CASE ~(pc[Command] = "got" /\ m # NULL)
  <2>1. In = q /\ Delivered = <<>>
    BY <1>4 DEF In, Flow, Delivered
  <2>2. Queued \in Seq(Seq(C)) /\ Len(Queued) = Len(q)
    BY <1>2, <1>3, <2>1
  <2>3. Delivered \o Queued = Queued
    BY <2>1, <2>2, ConcatEmptySeq
  <2>4. QED
    BY <1>3, <2>1, <2>2, <2>3
<1>5. CASE pc[Command] = "got" /\ m # NULL
  <2>1. In = <<m>> \o q /\ Delivered = <<m.p.str>>
    BY <1>5 DEF In, Flow, Delivered
  <2> DEFINE a == <<m>>
             b == <<m.p.str>>
  <2>2. a \in Seq(Message) /\ Len(a) = 1 /\ a[1] = m
    BY <1>1, <1>5
  <2>3. /\ Len(In) = 1 + Len(q)
        /\ In[1] = m
        /\ \A i \in 1 .. Len(q) : In[i + 1] = q[i]
    <3> HIDE DEF a, m, q
    <3>1. /\ Len(a \o q) = Len(a) + Len(q)
          /\ \A i \in 1 .. Len(a) + Len(q) :
               (a \o q)[i] = IF i <= Len(a) THEN a[i] ELSE q[i - Len(a)]
      BY <1>1, <2>2, ConcatProperties, Zenon
    <3>2. In = a \o q
      BY <2>1 DEF a
    <3>3. QED
      BY <1>3, <2>2, <3>1, <3>2
  <2>4. m.p.str \in Seq(C)
    BY <1>2, <1>3, <2>3
  <2>5. \A i \in 1 .. Len(q) : q[i].p.str \in Seq(C)
    <3> SUFFICES ASSUME NEW i \in 1 .. Len(q) PROVE q[i].p.str \in Seq(C)
      OBVIOUS
    <3>1. PICK j : j = i + 1
      OBVIOUS
    <3>2. j \in 1 .. Len(In) /\ In[j] = q[i]
      BY <1>3, <2>3, <3>1
    <3>3. QED
      BY <1>2, <3>2
  <2>6. Queued \in Seq(Seq(C)) /\ Len(Queued) = Len(q)
        /\ \A i \in 1 .. Len(q) : Queued[i] = q[i].p.str
    BY <1>3, <2>5
  <2>7. b \in Seq(Seq(C)) /\ Len(b) = 1 /\ b[1] = m.p.str
    BY <2>4
  <2>8. /\ b \o Queued \in Seq(Seq(C))
        /\ Len(b \o Queued) = 1 + Len(q)
        /\ \A i \in 1 .. 1 + Len(q) :
             (b \o Queued)[i] = IF i <= 1 THEN b[i] ELSE Queued[i - 1]
    <3> HIDE DEF b, m, q
    <3>1. /\ b \o Queued \in Seq(Seq(C))
          /\ Len(b \o Queued) = Len(b) + Len(Queued)
          /\ \A i \in 1 .. Len(b) + Len(Queued) :
               (b \o Queued)[i] = IF i <= Len(b) THEN b[i] ELSE Queued[i - Len(b)]
      BY <2>6, <2>7, ConcatProperties, Zenon
    <3>2. QED
      BY <2>6, <2>7, <3>1
  <2>9. ASSUME NEW i \in 1 .. Len(In) PROVE (b \o Queued)[i] = In[i].p.str
    <3> HIDE DEF b, m, q, a
    <3>1. CASE i = 1
      BY <1>3, <2>3, <2>7, <2>8, <3>1
    <3>2. CASE i # 1
      <4>1. PICK j : j = i - 1
        OBVIOUS
      <4>2. j \in 1 .. Len(q) /\ i = j + 1
        BY <1>3, <2>3, <3>2, <4>1
      <4>3. In[i] = q[j]
        BY <2>3, <4>2
      <4>4. (b \o Queued)[i] = Queued[j]
        BY <1>3, <2>8, <4>1, <4>2
      <4>5. QED
        BY <2>6, <4>2, <4>3, <4>4
    <3>3. QED
      BY <3>1, <3>2
  <2>10. QED
    BY <2>1, <2>3, <2>6, <2>7, <2>8, <2>9
<1>6. QED
  BY <1>4, <1>5

LEMMA InOrder ==
  ASSUME NEW C, Alphabet(C), ConsInv(C)
  PROVE  LinesInOrder
<1> SUFFICES ASSUME Running PROVE LinesInOrder
  BY DEF LinesInOrder, Running
<1> DEFINE way == Delivered \o Queued
           lines == received \o Delivered \o Queued
<1>1. /\ Delivered \in Seq(Seq(C)) /\ Queued \in Seq(Seq(C))
      /\ way \in Seq(Seq(C)) /\ Len(way) = Len(In)
      /\ \A i \in 1 .. Len(In) : way[i] = In[i].p.str
  BY UnderWay
<1>2. received \in Seq(Seq(C)) /\ typed \in Seq(Seq(C))
  <2>1. TextInv(C) /\ Lines \subseteq Seq(C)
    BY DEF ConsInv, Alphabet
  <2>2. QED
    BY <2>1, SeqMonotonic DEF TextInv
<1>3. lines = received \o way
  <2>1. Delivered \in Seq(Seq(C)) /\ Queued \in Seq(Seq(C))
    BY <1>1
  <2>2. received \in Seq(Seq(C))
    BY <1>2
  <2>3. (received \o Delivered) \o Queued = received \o (Delivered \o Queued)
    BY <2>1, <2>2, ConcatAssociative
  <2>4. QED
    BY <2>3
<1>4. /\ Delivery(received, In, typed)
      /\ Keyed(Arrived, Ended, Stored, Coming, typed)
  BY DEF ConsInv, LineInv
<1>5. Len(received) \in Nat /\ Len(In) \in Nat /\ Len(typed) \in Nat
  <2>1. In \in Seq(Texts(C))
    BY DEF ConsInv, TextInv
  <2>2. QED
    BY <1>2, <2>1, LenProperties
<1> HIDE DEF way, lines
<1>6. /\ lines \in Seq(Seq(C)) /\ Len(lines) = Len(received) + Len(In)
      /\ \A i \in 1 .. Len(received) + Len(In) :
           lines[i] = IF i <= Len(received) THEN received[i] ELSE way[i - Len(received)]
  <2>1. /\ received \o way \in Seq(Seq(C))
        /\ Len(received \o way) = Len(received) + Len(way)
        /\ \A i \in 1 .. Len(received) + Len(way) :
             (received \o way)[i] = IF i <= Len(received) THEN received[i]
                                    ELSE way[i - Len(received)]
    BY <1>1, <1>2, ConcatProperties, Zenon
  <2>2. QED
    BY <1>1, <1>3, <2>1
<1>7. ASSUME NEW i \in 1 .. Len(lines) PROVE lines[i] = typed[i]
  <2>1. CASE i <= Len(received)
    <3>1. i \in 1 .. Len(received)
      BY <1>5, <1>6, <2>1
    <3>2. lines[i] = received[i]
      BY <1>6, <2>1
    <3>3. QED
      BY <1>4, <3>1, <3>2 DEF Delivery
  <2>2. CASE i > Len(received)
    <3>1. PICK j : j = i - Len(received)
      OBVIOUS
    <3>2. j \in 1 .. Len(In) /\ i = Len(received) + j
      BY <1>5, <1>6, <2>2, <3>1
    <3>3. lines[i] = way[j]
      BY <1>5, <1>6, <2>2, <3>1
    <3>4. QED
      BY <1>1, <1>4, <3>2, <3>3 DEF Delivery
  <2>3. QED
    BY <1>5, <1>6, <2>1, <2>2
<1>8. /\ Len(lines) <= Len(typed)
      /\ ~Ended /\ Coming = <<>> => Len(lines) = Len(typed)
  <2> DEFINE a == IF Ended THEN 1 ELSE 0
             b == IF Coming = <<>> THEN 0 ELSE 1
  <2>1. a \in Nat /\ b \in Nat /\ (~Ended /\ Coming = <<>> => a = 0 /\ b = 0)
    OBVIOUS
  <2>2. Len(typed) = Len(lines) + a + b
    BY <1>4, <1>6 DEF Keyed, Arrived
  <2> HIDE DEF a, b
  <2>3. Len(lines) \in Nat
    BY <1>5, <1>6
  <2>4. QED
    BY <2>1, <2>2, <2>3
<1>9. IsPrefix(lines, typed)
  <2> DEFINE n == Len(lines)
             s == SubSeq(lines, 1, n)
             t == SubSeq(typed, 1, n)
  <2>1. n \in Nat /\ \A i \in 1 .. n : lines[i] \in Seq(C) /\ typed[i] \in Seq(C)
    <3>1. \A i \in 1 .. n : lines[i] \in Seq(C)
      BY <1>6, ElementOfSeq
    <3>2. QED
      BY <1>5, <1>6, <1>7, <3>1
  <2> HIDE DEF n
  <2>2. /\ s \in Seq(Seq(C)) /\ Len(s) = n
        /\ \A i \in 1 .. n : s[i] = lines[i]
    BY <2>1, SubSeqProperties
  <2>3. /\ t \in Seq(Seq(C)) /\ Len(t) = n
        /\ \A i \in 1 .. n : t[i] = typed[i]
    BY <2>1, SubSeqProperties
  <2> HIDE DEF s, t
  <2>4. \A i \in 1 .. Len(s) : s[i] = t[i]
    BY <1>7, <2>2, <2>3 DEF n
  <2>5. s = t
    BY <2>2, <2>3, <2>4, SeqEqual
  <2>6. QED
    BY <1>8, <2>5 DEF IsPrefix, n, s, t
<1>10. typing = <<>> /\ ~rdrf /\ mode = "user" => lines = typed
  <2> SUFFICES ASSUME typing = <<>>, ~rdrf, mode = "user" PROVE lines = typed
    OBVIOUS
  <2>1. ~Ended /\ Coming = <<>>
    BY DEF ConsInv, RegsInv, Ended, HasCh, Coming
  <2>2. Len(lines) = Len(typed)
    BY <1>8, <2>1
  <2>3. QED
    BY <1>2, <1>6, <1>7, <2>2, SeqEqual
<1>11. QED
  BY <1>9, <1>10 DEF LinesInOrder, lines

THEOREM LinesArriveInOrder ==
  ASSUME ~WakeReceivers, NEW C, Alphabet(C)
  PROVE  ConsSpec => []LinesInOrder
BY InOrder, ConsAlways, PTL

(***************************************************************************)
(* Lines shorter than the receive buffer never overrun it, nor does the    *)
(* NUL that command_main() puts behind a line: however fast they come, the *)
(* buffer never holds more than one.                                       *)
(***************************************************************************)
LinesFit == \A l \in Lines : Len(l) < CONS_BUFFER_SIZE

LEMMA StoredFits ==
  ASSUME NEW C, Alphabet(C), ConsInv(C), Running, LinesFit
  PROVE  Len(recv_buf) <= CONS_BUFFER_SIZE
<1> DEFINE D == C \cup {"\r"}
           n == Arrived + 1
<1>1. ThreadInv /\ TypeOK /\ TextInv(C) /\ CONS_BUFFER_SIZE \in Nat
  BY ConsoleAssumption DEF ConsInv, IInv
<1>2. /\ Stored \in Seq(D) /\ Coming \in Seq(D) /\ recv_buf \in Seq(D)
      /\ typed \in Seq(Seq(D)) /\ Arrived \in Nat /\ Ended \in BOOLEAN
  BY <1>1, LineTypes
<1>3. Keyed(Arrived, Ended, Stored, Coming, typed)
  BY DEF ConsInv, LineInv
<1>4. Len(recv_buf) <= Len(Stored) /\ Len(recv_buf) \in Nat /\ Len(Stored) \in Nat
      /\ (Ended => Stored = recv_buf)
  <2>1. Stored = recv_buf \/ Stored = Append(recv_buf, ch)
    BY DEF Stored
  <2>2. Len(recv_buf) \in Nat /\ Len(Stored) \in Nat
    BY <1>2, LenProperties
  <2>3. Stored = Append(recv_buf, ch) => Len(Stored) = Len(recv_buf) + 1
    BY <1>2
  <2>4. Ended => Stored = recv_buf
    BY DEF Ended, Stored, HasCh
  <2>5. QED
    BY <2>1, <2>2, <2>3, <2>4
<1>5. ASSUME NEW i \in 1 .. Len(typed) PROVE Len(typed[i]) < CONS_BUFFER_SIZE
  <2>1. typed[i] \in Lines
    BY <1>1, ElementOfSeq DEF TextInv
  <2>2. QED
    BY <2>1 DEF LinesFit
<1> DEFINE a == IF Ended THEN 1 ELSE 0
           b == IF Coming = <<>> THEN 0 ELSE 1
<1>6. /\ a \in Nat /\ b \in Nat /\ (Ended => a = 1) /\ (Coming # <<>> => b = 1)
      /\ Len(typed) = Arrived + a + b
  BY <1>3 DEF Keyed
<1> HIDE DEF a, b
<1>7. Ended \/ Coming # <<>> => n \in 1 .. Len(typed)
  BY <1>2, <1>6
<1>8. CASE Ended
  <2>1. Stored = typed[n]
    BY <1>3, <1>8 DEF Keyed
  <2>2. Len(Stored) < CONS_BUFFER_SIZE
    BY <1>5, <1>7, <1>8, <2>1
  <2>3. QED
    BY <1>1, <1>4, <2>2
<1>9. CASE ~Ended /\ Coming # <<>>
  <2>1. Stored \o Coming = Append(typed[n], "\r")
    BY <1>3, <1>9 DEF Keyed
  <2>2. typed[n] \in Seq(D)
    BY <1>2, <1>7, <1>9, ElementOfSeq
  <2> HIDE DEF n
  <2>3. Len(Stored \o Coming) = Len(Stored) + Len(Coming)
    BY <1>2, ConcatProperties
  <2>4. Len(Append(typed[n], "\r")) = Len(typed[n]) + 1
    BY <2>2
  <2>5. Len(Coming) \in Nat \ {0} /\ Len(typed[n]) \in Nat
    BY <1>2, <1>9, <2>2, LenProperties, EmptySeq
  <2>6. Len(Stored) <= Len(typed[n])
    BY <1>4, <2>1, <2>3, <2>4, <2>5
  <2>7. Len(typed[n]) < CONS_BUFFER_SIZE
    BY <1>5, <1>7, <1>9
  <2>8. QED
    BY <1>1, <1>4, <2>5, <2>6, <2>7
<1>10. CASE ~Ended /\ Coming = <<>>
  <2>1. Stored = <<>>
    BY <1>3, <1>10 DEF Keyed
  <2>2. QED
    BY <1>1, <1>4, <2>1
<1>11. QED
  BY <1>2, <1>8, <1>9, <1>10
THEOREM LinesFitTheBuffer ==
  ASSUME ~WakeReceivers, NEW C, Alphabet(C), LinesFit
  PROVE  ConsSpec => []RecvBufferFits
<1> DEFINE RecvInv == Len(recv_buf) <= CONS_BUFFER_SIZE
<1>1. Len(<<>>) <= CONS_BUFFER_SIZE
  BY ConsoleAssumption
<1>2. ConsInit => RecvInv
  BY <1>1 DEF ConsInit
<1>3. ConsInv(C) /\ Running => RecvInv
  BY StoredFits
<1>4. ConsInv(C) /\ RecvInv /\ [ConsNext]_cvars => RecvInv' \/ Running'
  <2> SUFFICES ASSUME ConsInv(C), RecvInv, [ConsNext]_cvars PROVE RecvInv' \/ Running'
    OBVIOUS
  <2>1. DoesStep
    BY ConsStep
  <2>2. CASE recv_buf' = recv_buf
    BY <2>2
  <2>3. CASE recv_buf' = <<>>
    BY <1>1, <2>3
  <2>4. CASE mode = "intr" /\ mode' = mode
    BY <2>4 DEF Running
  <2>5. QED
    BY <2>1, <2>2, <2>3, <2>4
       DEF DoesStep, CommandDoes, ConsdrvDoes, HandlerDoes, OthersDo, Serves
<1>5. ConsInv(C) /\ RecvInv => RecvBufferFits
  BY DEF ConsInv, LineIsTyped, LinesFit, RecvBufferFits
<1>6. QED
  BY <1>2, <1>3, <1>4, <1>5, ConsAlways, PTL DEF ConsSpec

(***************************************************************************)
(* The patient typist: he types when everything is printed and the idle    *)
(* thread runs.  First the threads: who lives, how urgent he is, and that  *)
(* everybody is ready or waits for a message.                              *)
(***************************************************************************)
Starting == pc[Idle] \in {"run_consdrv", "run_command", "chpri"}

LifeInv ==
  /\ Idle \in live /\ live \subseteq {Idle, Consdrv, Command}
  /\ pc[Idle] \notin {"run_consdrv", "run_command"} => live = {Idle, Consdrv, Command}
  /\ Starting => current = Idle /\ mode = "user" /\ pc[Command] = "use_alloc"

PrioInv ==
  /\ priority[Idle] = IF Starting THEN 0 ELSE 3
  /\ Consdrv \in live => priority[Consdrv] = 1
  /\ Command \in live => priority[Command] = 2

Awake == \A t \in live : t \in rq.ready \/ \E b \in MsgBox : receiver[b] = t

(* No message is ever kept in a box: its receiver waits already. *)
NoBacklog == \A b \in MsgBox : msgs[b] = <<>>

Lively == Running /\ LifeInv /\ PrioInv /\ Awake /\ NoBacklog

(* schedule() finds somebody when anybody is ready. *)
LEMMA SomebodyRuns ==
  ASSUME IInv', NEW t \in rq'.ready, schedule
  PROVE  mode' = "user"
<1>1. /\ priority' \in [Thread -> Priority] /\ rq' \in Ready
      /\ Consistent(rq', priority')
  BY DEF IInv, TypeOK, QueueInv, ReadyQueueConsistent
<1>2. t \in Thread /\ priority'[t] \in Priority
  BY <1>1 DEF Ready
<1>3. PICK i \in 1 .. Len(rq'.que[priority'[t]]) : rq'.que[priority'[t]][i] = t
  BY <1>1 DEF Consistent, ReadyAreQueued
<1>4. rq'.que[priority'[t]] # <<>>
  BY <1>3
<1>5. QED
  BY <1>2, <1>4 DEF schedule

(* What a step of a thread or the handler may do to the threads. *)
KeepsAwake ==
  /\ UNCHANGED <<live, priority>>
  /\ \A t \in rq.ready : t \in rq'.ready \/ \E b \in MsgBox : receiver'[b] = t
  /\ \A b \in MsgBox : receiver[b] # NULL =>
       receiver'[b] = receiver[b] \/ receiver[b] \in rq'.ready
  /\ NoBacklog'

LEMMA CallKeepsAwake ==
  ASSUME IInv, NoBacklog, mode = "user",
         \/ Computes \/ INTR_ENABLE \/ INTR_DISABLE \/ thread_setintr
         \/ \E k : thread_kzmalloc(k) \/ thread_kmfree(k)
  PROVE  KeepsAwake
<1>1. UNCHANGED <<live, priority, receiver, msgs>>
  BY DEF Computes, INTR_ENABLE, INTR_DISABLE, thread_setintr, thread_kzmalloc,
     thread_kmfree, vars, tcbVars, boxVars
<1>2. rq' = rq \/ rq' = Requeued
  BY DEF Computes, INTR_ENABLE, INTR_DISABLE, thread_setintr, thread_kzmalloc,
     thread_kmfree, vars
<1>3. rq'.ready = rq.ready
  BY <1>2, CallerQueues DEF IInv
<1>4. QED
  BY <1>1, <1>3 DEF KeepsAwake, NoBacklog

(* A message goes to the thread that waits for it. *)
LEMMA SendKeepsAwake ==
  ASSUME IInv, NoBacklog, HasBlock(MsgPool), NEW Q \in Ready, Consistent(Q, priority),
         Q.ready = rq.ready, NEW P \in [Thread -> Received], NEW m \in Message,
         NEW b \in MsgBox, receiver[b] # NULL, thread_send(Q, P, m, b),
         UNCHANGED <<live, priority>>
  PROVE  KeepsAwake
<1>1. /\ TypeOK /\ NoMissedMessage /\ receiver \in [MsgBox -> Thread \cup {NULL}]
      /\ msgs \in [MsgBox -> Seq(Message)]
  BY DEF IInv, WaitInv, TypeOK
<1>2. /\ rq'.ready = rq.ready \cup {receiver[b]}
      /\ receiver' = [receiver EXCEPT ![b] = NULL]
  BY <1>1, SendEffect
<1>3. msgs' = [msgs EXCEPT ![b] = Tail(Append(msgs[b], m))]
  BY DEF thread_send, recvmsg
<1>4. msgs[b] = <<>> /\ Tail(Append(<<>>, m)) = <<>>
  BY DEF NoBacklog
<1>5. NoBacklog'
  BY <1>1, <1>3, <1>4 DEF NoBacklog
<1>6. QED
  BY <1>1, <1>2, <1>5 DEF KeepsAwake

LEMMA KzSendKeepsAwake ==
  ASSUME IInv, NoBacklog, HasBlock(MsgPool), NEW b \in MsgBox, receiver[b] # NULL,
         NEW x \in Payload, kz_send(b, x)
  PROVE  KeepsAwake /\ schedule
<1>1. mode = "user" /\ UNCHANGED <<live, priority>> /\ schedule
      /\ thread_send(Requeued, NewParam, [sender |-> current, p |-> x], b)
  BY DEF kz_send, kz_syscall, tcbVars
<1>2. /\ Requeued \in Ready /\ Consistent(Requeued, priority)
      /\ Requeued.ready = rq.ready /\ current \in Thread
  BY <1>1, CallerQueues DEF IInv
<1>3. NewParam \in [Thread -> Received]
  BY <1>2 DEF IInv, TypeOK, NewParam, Received
<1>4. [sender |-> current, p |-> x] \in Message
  BY <1>2 DEF Message
<1>5. QED
  BY <1>1, <1>2, <1>3, <1>4, SendKeepsAwake

LEMMA KxSendKeepsAwake ==
  ASSUME IInv, NoBacklog, HasBlock(MsgPool), NEW b \in MsgBox, receiver[b] # NULL,
         NEW x \in Payload, kx_send(b, x)
  PROVE  KeepsAwake /\ mode' = mode
<1>1. /\ UNCHANGED <<live, priority>> /\ mode' = mode
      /\ thread_send(rq, param, [sender |-> NULL, p |-> x], b)
  BY DEF kx_send, tcbVars
<1>2. /\ rq \in Ready /\ Consistent(rq, priority) /\ param \in [Thread -> Received]
  BY QueuesNow DEF IInv, TypeOK
<1>3. [sender |-> NULL, p |-> x] \in Message
  BY DEF Message
<1>4. QED
  BY <1>1, <1>2, <1>3, SendKeepsAwake

(* A thread that waits for a message waits in the box. *)
LEMMA RecvKeepsAwake ==
  ASSUME IInv, NoBacklog, NEW b \in MsgBox, receiver[b] = NULL, thread_recv(b)
  PROVE  KeepsAwake /\ schedule
<1>1. /\ mode = "user" /\ receiver' = [receiver EXCEPT ![b] = current] /\ rq' = Taken
      /\ schedule /\ UNCHANGED <<msgs, live, priority>>
  BY DEF thread_recv, kz_syscall, tcbVars, NoBacklog
<1>2. Taken.ready = rq.ready \ {current} /\ receiver \in [MsgBox -> Thread \cup {NULL}]
  BY <1>1, CallerQueues DEF IInv, TypeOK
<1>3. QED
  BY <1>1, <1>2 DEF KeepsAwake, NoBacklog

(* So nobody is forgotten, and schedule() finds somebody. *)
LEMMA LivelyStays ==
  ASSUME IInv', ThreadInv', Lively, KeepsAwake, schedule \/ Running',
         pc[Idle] \in {"enable", "sleep"}, pc'[Idle] \in {"enable", "sleep"}
  PROVE  Lively'
<1>1. Awake'
  <2> SUFFICES ASSUME NEW t \in live
               PROVE  t \in rq'.ready \/ \E b \in MsgBox : receiver'[b] = t
    BY DEF KeepsAwake, Awake
  <2>1. CASE t \in rq.ready
    BY <2>1 DEF KeepsAwake
  <2>2. ASSUME NEW b \in MsgBox, receiver[b] = t
        PROVE  t \in rq'.ready \/ receiver'[b] = t
    <3>1. t # NULL
      BY ThreadsOfConsole DEF Lively, LifeInv
    <3>2. QED
      BY <2>2, <3>1 DEF KeepsAwake
  <2>3. QED
    BY <2>1, <2>2 DEF Lively, Awake
<1>2. LifeInv' /\ PrioInv' /\ NoBacklog'
  BY DEF Lively, LifeInv, PrioInv, KeepsAwake, Starting
<1>3. Idle \in rq'.ready
  BY <1>1, <1>2, Boxes, ThreadsOfConsole DEF ThreadInv, BoxInv, LifeInv, Awake
<1>4. Running'
  BY <1>3, SomebodyRuns DEF Lively, Running
<1>5. QED
  BY <1>1, <1>2, <1>4 DEF Lively

(* The first thread of the queues is at least as urgent as any ready one.  *)
LEMMA FirstIsUrgent ==
  ASSUME NEW Q \in Ready, NEW prio \in [Thread -> Priority], NEW c \in Thread,
         IsFirst(Q, prio, c), ReadyAreQueued(Q, prio), NEW t \in Q.ready
  PROVE  prio[c] <= prio[t]
<1>1. t \in Thread /\ prio[t] \in Priority /\ prio[c] \in Priority
  BY DEF Ready
<1>2. PICK i \in 1 .. Len(Q.que[prio[t]]) : Q.que[prio[t]][i] = t
  BY DEF ReadyAreQueued
<1>3. Q.que[prio[t]] # <<>>
  BY <1>2
<1>4. ~(prio[t] < prio[c])
  BY <1>1, <1>3 DEF IsFirst
<1>5. QED
  BY <1>1, <1>4, TableAssumption DEF Priority

LEMMA PutReady ==
  ASSUME NEW Q \in Ready, NEW prio, NEW t \in Thread
  PROVE  putcurrent(Q, prio, t).ready = Q.ready \cup {t}
BY NullIsNoThread DEF putcurrent, Ready

(* kz_run(): the new thread is the next one, and ready. *)
LEMMA RunMakes ==
  ASSUME IInv, ThreadInv, Lively, NEW p, current = Idle, thread_run(p),
         NEW t, t = IF pc[Idle] = "run_consdrv" THEN Consdrv ELSE Command,
         pc[Idle] \in {"run_consdrv", "run_command"}
  PROVE  /\ live' = live \cup {t} /\ t \notin live /\ schedule
         /\ priority' = [priority EXCEPT ![t] = p]
         /\ rq'.ready = rq.ready \cup {t} /\ UNCHANGED boxVars
<1>0. mode = "user" /\ schedule /\ UNCHANGED boxVars
  BY DEF thread_run, kz_syscall
<1>1. live = IF pc[Idle] = "run_consdrv" THEN {Idle} ELSE {Idle, Consdrv}
  BY DEF ThreadInv, StartInv
<1>2. live # Thread
  BY <1>1, ThreadsOfConsole
<1>3. PICK u \in Thread \ live :
        /\ \A s \in 0 .. u - 1 : s \in live
        /\ live' = live \cup {u}
        /\ priority' = [priority EXCEPT ![u] = p]
        /\ rq' = putcurrent(putcurrent(Cleared(Taken, u), priority, current), priority', u)
  BY <1>2 DEF thread_run
<1>4. u = t
  <2>1. u \in Nat /\ u # 0
    BY <1>1 DEF Thread, Idle
  <2>2. CASE pc[Idle] = "run_consdrv"
    <3>1. ~(1 \in 0 .. u - 1)
      BY <1>1, <1>3, <2>2 DEF Idle
    <3>2. QED
      BY <2>1, <2>2, <3>1 DEF Consdrv
  <2>3. CASE pc[Idle] # "run_consdrv"
    <3>1. ~(2 \in 0 .. u - 1) /\ u # 1
      BY <1>1, <1>3, <2>3 DEF Idle, Consdrv
    <3>2. QED
      BY <2>1, <2>3, <3>1 DEF Command
  <2>4. QED
    BY <2>2, <2>3
<1>5. /\ Taken \in Ready /\ Taken.ready = rq.ready \ {current} /\ current \in rq.ready
      /\ current \in Thread
  BY <1>0, CallerQueues DEF IInv
<1>6. u \notin rq.ready
  BY <1>3 DEF IInv, WaitInv, ReadyAreLive
<1>7. Cleared(Taken, u) = Taken
  BY <1>5, <1>6, ClearedUnready
<1>8. /\ putcurrent(Taken, priority, current) \in Ready
      /\ putcurrent(Taken, priority, current).ready = rq.ready
  BY <1>0, CallerQueues DEF IInv, Requeued
<1>9. rq'.ready = rq.ready \cup {u}
  BY <1>3, <1>7, <1>8, PutReady
<1>10. QED
  BY <1>0, <1>3, <1>4, <1>9

LEMMA StartKeepsLively ==
  ASSUME IInv, IInv', ThreadInv, ThreadInv', Lively, start_threads \/ idle_sleep
  PROVE  Lively'
<1> USE ThreadsOfConsole
<1>1. current = Idle /\ mode = "user"
  BY DEF start_threads, idle_sleep, Moves, thread_run, thread_chpri, kz_syscall,
     INTR_ENABLE, Computes
<1>2. CASE start_threads /\ pc[Idle] \in {"run_consdrv", "run_command"}
  <2>1. PICK p \in {1, 2} :
          /\ thread_run(p)
          /\ p = IF pc[Idle] = "run_consdrv" THEN 1 ELSE 2
          /\ pc'[Idle] = IF pc[Idle] = "run_consdrv" THEN "run_command" ELSE "chpri"
          /\ pc'[Command] = pc[Command]
    BY <1>2 DEF start_threads, Moves, ThreadInv, PcInv
  <2> DEFINE t == IF pc[Idle] = "run_consdrv" THEN Consdrv ELSE Command
  <2>2. /\ live' = live \cup {t} /\ t \notin live /\ schedule
        /\ priority' = [priority EXCEPT ![t] = p]
        /\ rq'.ready = rq.ready \cup {t} /\ UNCHANGED boxVars
    BY <1>1, <1>2, <2>1, RunMakes
  <2>3. live = IF pc[Idle] = "run_consdrv" THEN {Idle} ELSE {Idle, Consdrv}
    BY <1>2 DEF ThreadInv, StartInv
  <2>4. priority \in [Thread -> Priority] /\ rq \in Ready
    BY DEF IInv, TypeOK
  <2>5. Starting /\ Starting'
    BY <1>2, <2>1 DEF Starting
  <2>6. /\ priority'[Idle] = 0
        /\ Consdrv \in live' => priority'[Consdrv] = 1
        /\ Command \in live' => priority'[Command] = 2
    BY <2>1, <2>2, <2>3, <2>4, <2>5 DEF Lively, PrioInv
  <2>7. Awake' /\ NoBacklog'
    BY <2>2 DEF Lively, Awake, NoBacklog, boxVars
  <2>8. Idle \in rq'.ready
    BY <1>1, <2>2, CallerQueues DEF IInv
  <2>9. mode' = "user"
    BY <2>2, <2>8, SomebodyRuns
  <2>10. current' = Idle
    <3>1. /\ rq' \in Ready /\ priority' \in [Thread -> Priority]
          /\ IsFirst(rq', priority', current') /\ ReadyAreQueued(rq', priority')
          /\ rq'.ready \subseteq live'
      BY <2>9 DEF IInv, TypeOK, QueueInv, RunsFirst, ReadyQueueConsistent, Consistent,
         WaitInv, ReadyAreLive
    <3>2. current' \in live' /\ current' \in Thread
      BY <3>1 DEF IsFirst, Ready
    <3>3. priority'[current'] <= 0
      BY <2>6, <2>8, <3>1, <3>2, FirstIsUrgent
    <3>4. QED
      BY <2>2, <2>3, <2>6, <3>2, <3>3
  <2>11. LifeInv'
    BY <1>2, <2>1, <2>2, <2>3, <2>5, <2>9, <2>10 DEF Lively, LifeInv
  <2>12. QED
    BY <2>5, <2>6, <2>7, <2>9, <2>11 DEF Lively, PrioInv, Running
<1>3. CASE start_threads /\ pc[Idle] = "chpri"
  <2>1. thread_chpri(3) /\ pc'[Idle] = "enable"
    BY <1>3 DEF start_threads, Moves, ThreadInv, PcInv
  <2>2. /\ priority' = [priority EXCEPT ![Idle] = 3] /\ schedule
        /\ rq' = putcurrent(Taken, priority', current)
        /\ UNCHANGED <<live, receiver, msgs>>
    BY <1>1, <2>1 DEF thread_chpri, boxVars
  <2>3. /\ Taken \in Ready /\ Taken.ready = rq.ready \ {current} /\ current \in rq.ready
        /\ current \in Thread
    BY <1>1, CallerQueues DEF IInv
  <2>4. rq'.ready = rq.ready
    <3>1. putcurrent(Taken, priority', current).ready = Taken.ready \cup {current}
      BY <2>3, PutReady
    <3>2. Taken.ready \cup {current} = rq.ready
      BY <2>3
    <3>3. QED
      BY <2>2, <3>1, <3>2
  <2>5. mode' = "user"
    BY <2>2, <2>3, <2>4, SomebodyRuns
  <2>6. ~Starting'
    BY <2>1 DEF Starting
  <2>7. LifeInv'
    BY <1>3, <2>1, <2>2, <2>6 DEF Lively, LifeInv
  <2>8. PrioInv'
    BY <2>2, <2>6 DEF Lively, PrioInv, IInv, TypeOK
  <2>9. Awake' /\ NoBacklog'
    BY <2>2, <2>4 DEF Lively, Awake, NoBacklog
  <2>10. QED
    BY <2>5, <2>7, <2>8, <2>9 DEF Lively, Running
<1>4. CASE (start_threads /\ pc[Idle] = "enable") \/ idle_sleep
  <2>1. /\ INTR_ENABLE \/ Computes
        /\ pc[Idle] \in {"enable", "sleep"} /\ pc'[Idle] \in {"enable", "sleep"}
    BY <1>4 DEF start_threads, idle_sleep, Moves, ThreadInv, PcInv
  <2>2. KeepsAwake /\ Running'
    BY <1>1, <2>1, CallKeepsAwake DEF Lively, INTR_ENABLE, Computes, vars, Running
  <2>3. QED
    BY <2>1, <2>2, LivelyStays
<1>5. QED
  BY <1>2, <1>3, <1>4 DEF start_threads, Moves

-------------------------------------------------------------------------------
(***************************************************************************)
(* Who waits while another one runs.                                       *)
(***************************************************************************)
ConsdrvRests ==
  /\ pc[Consdrv] = "got" /\ receiver["output"] = Consdrv /\ Out = <<>> /\ req = NULL

CommandRests ==
  /\ pc[Command] = "got" /\ receiver["input"] = Command /\ In = <<>> /\ line = NULL

LEMMA UrgentWaits ==
  ASSUME IInv, ThreadInv, Lively, mode = "user",
         NEW t \in {Consdrv, Command}, t \in live, ~(priority[current] <= priority[t])
  PROVE  receiver[BoxOf(t)] = t
<1>1. /\ rq \in Ready /\ priority \in [Thread -> Priority] /\ current \in Thread
      /\ IsFirst(rq, priority, current) /\ ReadyAreQueued(rq, priority)
  BY CallerQueues DEF IInv, TypeOK, QueueInv, RunsFirst, ReadyQueueConsistent, Consistent
<1>2. t \notin rq.ready
  BY <1>1, FirstIsUrgent
<1>3. PICK b \in MsgBox : receiver[b] = t
  BY <1>2 DEF Lively, Awake
<1>4. QED
  BY <1>3, Boxes, ThreadsOfConsole DEF ThreadInv, BoxInv, BoxOf

LEMMA WaitersRest ==
  ASSUME IInv, ThreadInv, WorkInv
  PROVE  /\ receiver["output"] = Consdrv => ConsdrvRests
         /\ receiver["input"] = Command => CommandRests
<1> USE ThreadsOfConsole
<1>1. ASSUME receiver["output"] = Consdrv PROVE ConsdrvRests
  <2>1. pc[Consdrv] = "got" /\ param[Consdrv] = NULL /\ msgs["output"] = <<>>
    BY <1>1, Boxes DEF ThreadInv, BoxInv, IInv, WaitInv, NoMissedMessage
  <2>2. QED
    BY <1>1, <2>1 DEF ConsdrvRests, Out, Flow, WorkInv
<1>2. ASSUME receiver["input"] = Command PROVE CommandRests
  <2>1. pc[Command] = "got" /\ param[Command] = NULL /\ msgs["input"] = <<>>
    BY <1>2, Boxes DEF ThreadInv, BoxInv, IInv, WaitInv, NoMissedMessage
  <2>2. QED
    BY <1>2, <2>1 DEF CommandRests, In, Flow, WorkInv
<1>3. QED
  BY <1>1, <1>2

(* command_main() runs only while consdrv_main() has nothing to do.        *)
LEMMA CommandAlone ==
  ASSUME IInv, ThreadInv, WorkInv, Lively, mode = "user", current = Command
  PROVE  ConsdrvRests
<1> USE ThreadsOfConsole
<1>1. Command \in live
  BY CallerIsLive
<1>2. Consdrv \in live
  BY <1>1 DEF Lively, LifeInv, ThreadInv, StartInv
<1>3. priority[Consdrv] = 1 /\ priority[Command] = 2
  BY <1>1, <1>2 DEF Lively, PrioInv
<1>4. receiver[BoxOf(Consdrv)] = Consdrv
  BY <1>2, <1>3, UrgentWaits
<1>5. QED
  BY <1>4, WaitersRest DEF BoxOf

(* The idle thread runs only while both have nothing to do.                *)
LEMMA IdleAlone ==
  ASSUME IInv, ThreadInv, WorkInv, Lively, mode = "user", current = Idle, ~Starting
  PROVE  ConsdrvRests /\ CommandRests
<1> USE ThreadsOfConsole
<1>1. Command \in live /\ Consdrv \in live
  BY DEF Lively, LifeInv, Starting
<1>2. priority[Consdrv] = 1 /\ priority[Command] = 2 /\ priority[Idle] = 3
  BY <1>1 DEF Lively, PrioInv
<1>3. receiver[BoxOf(Consdrv)] = Consdrv /\ receiver[BoxOf(Command)] = Command
  BY <1>1, <1>2, UrgentWaits
<1>4. QED
  BY <1>3, WaitersRest DEF BoxOf

LEMMA StartIsFresh ==
  ASSUME StageInv, Lively, Starting
  PROVE  Fresh /\ mode = "user" /\ current = Idle
BY DEF StageInv, Lively, LifeInv, Starting, Asks, Asked, Opened, InUse, Early

(* So nobody has anything to do when the typist types.                     *)
LEMMA QuietRests ==
  ASSUME IInv, ThreadInv, WorkInv, StageInv, Lively, Quiet, rie
  PROVE  ConsdrvRests /\ CommandRests
BY IdleAlone, StartIsFresh DEF Quiet, Fresh

(***************************************************************************)
(* One thing at a time: one request, one line, and nothing under way while *)
(* a character comes.                                                      *)
(***************************************************************************)
Rest ==
  Out = <<>> /\ In = <<>> /\ pc[Command] = "got" /\ pc[Consdrv] = "got"

RestInv == Coming # <<>> \/ hpc \in {"kick", "store", "post"} => Rest

OneRequest ==
  Len(Out) + One(req # NULL) + One(pc[Command] \in {"use_send", "send"}) <= 1

OneLine == Len(typed) + One(line # NULL) <= Len(received) + 1

(* command_main() has nothing to write while it waits for a line, and its  *)
(* requests have room in a block.                                          *)
Fits(strs) == \A i \in 1 .. Len(strs) : PoolOf(Len(strs[i]) + 2) \in Pool

TodoInv == Fits(todo) /\ (pc[Command] \in {"recv", "got", "free"} => todo = <<>>)

Orderly == RestInv /\ OneRequest /\ OneLine /\ TodoInv

(***************************************************************************)
(* What every step does to the output.                                     *)
(***************************************************************************)
outVars == <<send_buf, tdre, tdr, wire>>

(* send_string(), send_char(), and a character that has been shifted out. *)
Prints(str) == send_buf' = send_buf \o Encode(str) /\ UNCHANGED <<tdre, tdr, wire>>
Loads  == send_char /\ UNCHANGED wire
Shifts == /\ ~tdre /\ tdre' = TRUE /\ tdr' = NULL /\ UNCHANGED send_buf
          /\ wire' = IF tdr # NULL THEN Append(wire, tdr) ELSE wire

CommandOutputs == CommandDoes /\ ConsdrvRests /\ UNCHANGED outVars

ConsdrvOutputs ==
  /\ ConsdrvDoes
  /\ \/ /\ pc[Consdrv] \in {"setintr", "serial_init"}
        /\ send_buf' = <<>> /\ (tdre' = tdre \/ ~tdre')
        /\ UNCHANGED <<tdr, wire>>
     \/ /\ pc[Consdrv] = "copy" /\ Prints(req.str)
        /\ pc'[Consdrv] = "kick" => send_buf' # <<>>
     \/ pc[Consdrv] = "kick" /\ Loads
     \/ /\ pc[Consdrv] \notin {"setintr", "serial_init", "copy", "kick"}
        /\ UNCHANGED outVars

HandlerOutputs ==
  /\ HandlerDoes
  /\ \/ /\ mode = "intr" /\ hpc = "enter" /\ Prints(<<Newline(rdr)>>)
        /\ rdrf /\ ~rdrf' /\ (hpc' = "kick" => send_buf' # <<>>)
     \/ /\ Serves("kick", "store") \/ (Serves("send", "end") /\ send_buf # <<>>)
        /\ Loads /\ rdrf' = rdrf
     \/ /\ hpc # "kick" /\ hpc' # "kick" /\ rdrf' = rdrf
        /\ hpc = "send" => ~tdre \/ send_buf = <<>>
        /\ UNCHANGED outVars

OthersOutput ==
  /\ OthersDo /\ UNCHANGED <<rdrf, rdr, typistVars>>
  /\ UNCHANGED outVars \/ Shifts

KeyOutput ==
  /\ OthersDo /\ Rest /\ Quiet /\ rie /\ ~rdrf /\ rdrf'
  /\ UNCHANGED <<outVars, vars>>

OutputDoes ==
  CommandOutputs \/ ConsdrvOutputs \/ HandlerOutputs \/ OthersOutput \/ KeyOutput

LEMMA ConsdrvPrints ==
  ASSUME ConsdrvDoes, PcInv, consdrv_main
  PROVE  ConsdrvOutputs
<1>1. CASE consdrv_init
  BY <1>1 DEF consdrv_init, Moves, devVars, ConsdrvOutputs
<1>2. CASE consdrv_recv
  BY <1>2 DEF consdrv_recv, Moves, devVars, consVars, ConsdrvOutputs, outVars
<1>3. CASE consdrv_use
  BY <1>3 DEF consdrv_use, Moves, devVars, consVars, ConsdrvOutputs, outVars
<1>4. CASE consdrv_mask
  BY <1>4 DEF consdrv_mask, Moves, devVars, consVars, ConsdrvOutputs, outVars
<1>5. CASE consdrv_write
  <2> USE ThreadsOfConsole DEF PcInv
  <2>1. CASE /\ Moves(Consdrv, "copy", IF Kicks(req.str) THEN "kick" ELSE "unmask")
             /\ send_string(req.str) /\ UNCHANGED <<tdre, tdr, wire>>
    BY <2>1 DEF Moves, send_string, Kicks, ConsdrvOutputs, Prints
  <2>2. CASE Moves(Consdrv, "kick", "unmask") /\ send_char /\ wire' = wire
    BY <2>2 DEF Moves, ConsdrvOutputs, Loads
  <2>3. CASE Moves(Consdrv, "unmask", "free") /\ UNCHANGED outVars
    BY <2>3 DEF Moves, ConsdrvOutputs
  <2>4. QED
    BY <1>5, <2>1, <2>2, <2>3 DEF consdrv_write, outVars
<1>6. CASE consdrv_free
  BY <1>6 DEF consdrv_free, Moves, devVars, consVars, ConsdrvOutputs, outVars
<1>7. QED
  BY <1>1, <1>2, <1>3, <1>4, <1>5, <1>6 DEF consdrv_main

LEMMA HandlerPrints ==
  ASSUME HandlerDoes, RegsInv, serial_intr \/ consdrv_intrproc
  PROVE  HandlerOutputs
<1> USE DEF HandlerOutputs, outVars, Serves
<1>1. CASE serial_intr
  BY <1>1 DEF serial_intr, thread_intr, RegsInv, consVars, devVars
<1>2. CASE intr_recv
  <2>1. CASE /\ rdrf /\ ch' = Newline(rdr) /\ rdrf' = FALSE
             /\ HandlerMoves("enter", IF Kicks(<<ch'>>) THEN "kick" ELSE "store")
             /\ send_string(<<ch'>>) /\ UNCHANGED <<tdre, tdr, wire>>
    BY <2>1 DEF HandlerMoves, send_string, Kicks, Prints
  <2>2. CASE /\ \E m \in {"send", "end"} : HandlerMoves("enter", m)
             /\ rdrf' = rdrf /\ UNCHANGED outVars
    BY <2>2 DEF HandlerMoves
  <2>3. QED
    BY <1>2, <2>1, <2>2 DEF intr_recv
<1>3. CASE intr_kick
  BY <1>3 DEF intr_kick, HandlerMoves, Loads
<1>4. CASE intr_store
  BY <1>4 DEF intr_store, HandlerMoves, devVars
<1>5. CASE intr_post
  BY <1>5 DEF intr_post, HandlerMoves, devVars
<1>6. CASE intr_send
  <2>1. CASE HandlerMoves("send", "end") /\ send_buf # <<>> /\ rdrf' = rdrf /\ Loads
    BY <2>1 DEF HandlerMoves
  <2>2. CASE /\ HandlerMoves("send", "end") /\ rdrf' = rdrf
             /\ (~tdre \/ send_buf = <<>>) /\ UNCHANGED outVars
    BY <2>2 DEF HandlerMoves
  <2>3. QED
    BY <1>6, <2>1, <2>2 DEF intr_send, Loads
<1>7. CASE intr_return
  BY <1>7 DEF intr_return, handlerVars, devVars, consVars
<1>8. QED
  BY <1>1, <1>2, <1>3, <1>4, <1>5, <1>6, <1>7 DEF consdrv_intrproc

LEMMA OutputDoesSo ==
  ASSUME Patient, NEW C, Alphabet(C), ConsInv(C), Lively, [ConsNext]_cvars
  PROVE  OutputDoes
<1>1. /\ IInv /\ ThreadInv /\ TextInv(C) /\ RegsInv /\ WorkInv /\ FitsInv /\ StageInv
      /\ TypeOK /\ PcInv
  BY DEF ConsInv, IInv, ThreadInv
<1>2. CASE command_main
  <2>1. CommandDoes
    BY <1>1, <1>2, CommandDoesSo
  <2>2. mode = "user"
    BY <2>1 DEF CommandDoes, Goes
  <2>3. current = Command
    BY <1>2 DEF command_main, send_use, send_write, command_recv, command_got,
       command_free, Moves
  <2>4. UNCHANGED outVars
    BY <1>2 DEF command_main, send_use, send_write, command_recv, command_got,
       command_free, consVars, devVars, outVars
  <2>5. QED
    BY <1>1, <2>1, <2>2, <2>3, <2>4, CommandAlone DEF OutputDoes, CommandOutputs
<1>3. CASE consdrv_main
  BY <1>1, <1>3, ConsdrvDoesSo, ConsdrvPrints DEF OutputDoes
<1>4. CASE serial_intr \/ consdrv_intrproc
  BY <1>1, <1>4, HandlerDoesSo, HandlerPrints DEF OutputDoes
<1>5. CASE start_threads \/ idle_sleep \/ Transmit \/ Type \/ UNCHANGED cvars
  <2>1. OthersDo
    BY <1>1, <1>5, OthersDoSo
  <2>2. CASE Type
    <3>1. Quiet /\ rie
      BY <2>2 DEF Type
    <3>2. Rest
      BY <1>1, <3>1, QuietRests DEF Quiet, ConsdrvRests, CommandRests, Rest
    <3>3. UNCHANGED outVars /\ UNCHANGED vars /\ rdrf' = TRUE /\ ~rdrf
      BY <2>2 DEF Type, consVars, outVars
    <3>4. QED
      BY <2>1, <3>1, <3>2, <3>3 DEF OutputDoes, KeyOutput
  <2>3. CASE Transmit
    BY <2>1, <2>3 DEF Transmit, consVars, typistVars, OutputDoes, OthersOutput, Shifts
  <2>4. CASE start_threads \/ idle_sleep \/ UNCHANGED cvars
    BY <2>1, <2>4 DEF start_threads, idle_sleep, cvars, devVars, consVars, typistVars,
       outVars, OutputDoes, OthersOutput
  <2>5. QED
    BY <1>5, <2>2, <2>3, <2>4
<1>6. QED
  BY <1>2, <1>3, <1>4, <1>5 DEF ConsNext, Processor

(* What the steps of a patient typist's console do to the rest of it. *)
TypesOnlyAtRest == UNCHANGED <<rdrf, rdr, typistVars>> \/ (Rest /\ mode = "user")

PatientDoes ==
  \/ CommandDoes /\ ConsdrvRests
  \/ ConsdrvDoes
  \/ HandlerDoes
  \/ OthersDo /\ TypesOnlyAtRest

LEMMA PatientDoesSo ==
  ASSUME OutputDoes PROVE PatientDoes
BY DEF OutputDoes, CommandOutputs, ConsdrvOutputs, HandlerOutputs, OthersOutput, KeyOutput,
   Quiet, PatientDoes, TypesOnlyAtRest

LEMMA FlowLengths ==
  ASSUME TypeOK
  PROVE  /\ Out \in Seq(Message) /\ In \in Seq(Message)
         /\ Len(Out) \in Nat /\ Len(In) \in Nat
         /\ (Len(Out) = 0 <=> Out = <<>>) /\ (Len(In) = 0 <=> In = <<>>)
BY FlowsTyped, LenProperties, EmptySeq

LEMMA RequestsOne ==
  ASSUME IInv, ThreadInv, WorkInv, Running, Running', OneRequest, PatientDoes
  PROVE  OneRequest'
<1> USE ThreadsOfConsole
<1>0. /\ Out \in Seq(Message) /\ Len(Out) \in Nat /\ (Len(Out) = 0 <=> Out = <<>>)
  BY FlowLengths DEF IInv
<1>1. CASE CommandDoes /\ ConsdrvRests
  <2>1. Out = <<>> /\ req = NULL /\ req' = NULL /\ Len(<<>>) = 0
    BY <1>1 DEF CommandDoes, ConsdrvRests
  <2>2. CASE \E x : Requests(x) /\ pc'[Command] \notin {"use_send", "send"}
    <3>1. PICK m : Out' = Append(<<>>, m)
      BY <2>1, <2>2 DEF Requests
    <3>2. Len(Out') = 1
      BY <3>1
    <3>3. /\ One(req # NULL)' = 0
          /\ One(pc[Command] \in {"use_send", "send"})' = 0
      BY <2>1, <2>2 DEF One
    <3>4. QED
      BY <3>2, <3>3 DEF OneRequest
  <2>3. CASE Out' = Out
    <3>1. Len(Out') = 0 /\ One(req # NULL)' = 0
      BY <1>0, <2>1, <2>3 DEF One
    <3>2. One(pc[Command] \in {"use_send", "send"})' \in {0, 1}
      BY DEF One
    <3>3. QED
      BY <3>1, <3>2 DEF OneRequest
  <2>4. QED
    BY <1>1, <2>2, <2>3 DEF CommandDoes, Goes, Moved, FlowsStay
<1>2. CASE ConsdrvDoes
  <2>1. pc'[Command] = pc[Command]
    BY <1>2 DEF ConsdrvDoes, Goes, Moved
  <2>2. CASE Out' = Tail(Out) /\ Out # <<>> /\ pc[Consdrv] = "got"
    <3>1. req = NULL /\ Len(Tail(Out)) = Len(Out) - 1
      BY <1>0, <2>2 DEF WorkInv
    <3>2. One(req # NULL) = 0 /\ One(req # NULL)' \in {0, 1}
      BY <3>1 DEF One
    <3>3. QED
      BY <1>0, <2>1, <2>2, <3>1, <3>2, OneType DEF OneRequest
  <2>3. CASE Out' = Out /\ (req' = req \/ req' = NULL)
    <3>1. One(req # NULL)' <= One(req # NULL)
      BY <2>3 DEF One
    <3>2. QED
      BY <1>0, <2>1, <2>3, <3>1, OneType DEF OneRequest
  <2>4. QED
    BY <1>2, <2>2, <2>3 DEF ConsdrvDoes, Goes, Moved, FlowsStay, Takes
<1>3. CASE HandlerDoes \/ OthersDo
  <2>1. Out' = Out /\ req' = req /\ pc'[Command] = pc[Command]
    BY <1>3 DEF HandlerDoes, OthersDo, FlowsStay
  <2>2. QED
    BY <2>1 DEF OneRequest
<1>4. QED
  BY <1>1, <1>2, <1>3 DEF PatientDoes

(* Every line that was begun has been received, lies in the box, ends the  *)
(* receive buffer or is still being typed.                                 *)
LEMMA LinesCounted ==
  ASSUME IInv, ThreadInv, NEW C, Alphabet(C), TextInv(C), LineInv, Running
  PROVE  /\ Len(typed) = Len(received) + Len(In) + One(Ended) + One(Coming # <<>>)
         /\ Len(typed) \in Nat /\ Len(received) \in Nat /\ Len(In) \in Nat
         /\ Delivery(received, In, typed)
<1>1. Keyed(Arrived, Ended, Stored, Coming, typed) /\ Delivery(received, In, typed)
  BY DEF LineInv
<1>2. Len(typed) \in Nat /\ Len(received) \in Nat
  BY LenProperties DEF TextInv
<1>3. Len(In) \in Nat
  BY FlowLengths DEF IInv
<1>4. (IF Ended THEN 1 ELSE 0) = One(Ended)
      /\ (IF Coming = <<>> THEN 0 ELSE 1) = One(Coming # <<>>)
  BY DEF One
<1>5. QED
  BY <1>1, <1>2, <1>3, <1>4 DEF Keyed, Arrived

LEMMA LinesOne ==
  ASSUME IInv, ThreadInv, NEW C, Alphabet(C), TextInv(C), RegsInv, WorkInv, LineInv,
         Running, OneLine, PatientDoes
  PROVE  OneLine'
<1> USE ThreadsOfConsole
<1>0. /\ Len(typed) = Len(received) + Len(In) + One(Ended) + One(Coming # <<>>)
      /\ Len(typed) \in Nat /\ Len(received) \in Nat /\ Len(In) \in Nat
  BY LinesCounted
<1>1. CASE UNCHANGED <<line, received, typed>>
  BY <1>1 DEF OneLine
<1>2. CASE typed' = typed /\ received' = received /\ line' = NULL
  <2>1. One(line # NULL)' = 0 /\ One(line # NULL) \in {0, 1}
    BY <1>2 DEF One
  <2>2. QED
    BY <1>0, <1>2, <2>1 DEF OneLine
<1>3. ASSUME CommandDoes, pc[Command] = "got", typed' = typed PROVE OneLine'
  <2>1. received' = Append(received, line'.str) /\ line = NULL
    BY <1>3 DEF CommandDoes, Goes, Moved, WorkInv
  <2>2. Len(received') = Len(received) + 1
    <3>1. \E S : received \in Seq(S)
      BY DEF TextInv
    <3>2. QED
      BY <2>1, <3>1
  <2>3. One(line # NULL) = 0 /\ One(line # NULL)' \in {0, 1}
    BY <2>1 DEF One
  <2>4. QED
    BY <1>0, <1>3, <2>2, <2>3 DEF OneLine
<1>4. ASSUME OthersDo, Rest, mode = "user", typed' # typed PROVE OneLine'
  <2>1. PICK l \in Lines : typed' = Append(typed, l) /\ typing = <<>> /\ ~rdrf
    BY <1>4 DEF OthersDo, typistVars
  <2>2. Len(typed') = Len(typed) + 1
    BY <2>1 DEF TextInv
  <2>3. line' = NULL /\ received' = received
    BY <1>4 DEF OthersDo, Rest, WorkInv
  <2>4. Coming = <<>> /\ ~Ended /\ Len(In) = 0
    BY <1>4, <2>1 DEF Coming, Ended, HasCh, RegsInv, Rest
  <2>5. QED
    BY <1>0, <2>2, <2>3, <2>4 DEF OneLine, One
<1>5. QED
  BY <1>1, <1>2, <1>3, <1>4 DEF PatientDoes, TypesOnlyAtRest, CommandDoes, ConsdrvDoes,
     HandlerDoes, OthersDo, Goes, Moved, typistVars

LEMMA RestStays ==
  ASSUME IInv, ThreadInv, NEW C, Alphabet(C), TextInv(C), RegsInv, WorkInv, LineInv,
         Running, OneLine, RestInv, PatientDoes
  PROVE  RestInv'
<1> USE ThreadsOfConsole
<1> DEFINE Key == Coming # <<>> \/ hpc \in {"kick", "store", "post"}
<1>1. CASE CommandDoes
  <2>1. Coming' = Coming /\ hpc' = hpc
    BY <1>1 DEF CommandDoes, Coming, devVars, typistVars, handlerVars
  <2>2. ~Key
    BY <1>1 DEF RestInv, Rest, CommandDoes, Goes, Moved, Takes
  <2>3. QED
    BY <2>1, <2>2 DEF RestInv
<1>2. CASE ConsdrvDoes
  <2>1. hpc' = hpc /\ (Coming' = Coming \/ (Coming' = typing /\ ~rdrf'))
    BY <1>2 DEF ConsdrvDoes, Coming, devVars, typistVars, handlerVars
  <2>2. Coming = <<>> => typing = <<>>
    <3>1. CASE rdrf
      <4>1. typing \in Seq(C \cup {"\r"}) /\ rdr \in C \cup {"\r"}
        BY <3>1 DEF TextInv
      <4>2. <<rdr>> \o typing # <<>>
        BY <4>1, HeadTailOfPair
      <4>3. QED
        BY <3>1, <4>2 DEF Coming
    <3>2. QED
      BY <3>1 DEF Coming
  <2>3. ~Key
    BY <1>2 DEF RestInv, Rest, ConsdrvDoes, Goes, Moved, Takes
  <2>4. QED
    BY <2>1, <2>2, <2>3 DEF RestInv
<1>3. CASE HandlerDoes
  <2>1. CASE Serves("enter", "kick") \/ Serves("enter", "store")
    <3>1. rdrf /\ rdr \in C \cup {"\r"} /\ typing \in Seq(C \cup {"\r"})
      BY <1>3, <2>1 DEF HandlerDoes, Serves, TextInv
    <3>2. Coming # <<>>
      BY <3>1, HeadTailOfPair DEF Coming
    <3>3. Rest /\ FlowsStay /\ pc' = pc
      BY <1>3, <2>1, <3>2 DEF HandlerDoes, Serves, RestInv
    <3>4. QED
      BY <3>3 DEF RestInv, Rest, FlowsStay
  <2>2. CASE Serves("post", "send")
    <3>1. Coming' = Coming /\ hpc' = "send"
      BY <1>3, <2>2 DEF HandlerDoes, Serves, Coming, typistVars
    <3>2. Ended
      BY <2>2 DEF Serves, Ended
    <3>3. Coming = <<>>
      <4>1. /\ Len(typed) = Len(received) + Len(In) + One(Ended) + One(Coming # <<>>)
            /\ Len(typed) \in Nat /\ Len(received) \in Nat /\ Len(In) \in Nat
        BY LinesCounted
      <4>2. QED
        BY <3>2, <4>1 DEF OneLine, One
    <3>4. QED
      BY <3>1, <3>3 DEF RestInv
  <2>3. CASE FlowsStay /\ Coming' = Coming
             /\ (hpc' \in {"kick", "store", "post"} => hpc \in {"kick", "store", "post"})
    <3>1. pc' = pc
      BY <1>3 DEF HandlerDoes
    <3>2. QED
      BY <2>3, <3>1 DEF RestInv, Rest, FlowsStay
  <2>4. QED
    BY <1>3, <2>1, <2>2, <2>3 DEF HandlerDoes, Serves, Coming, typistVars
<1>4. CASE OthersDo /\ TypesOnlyAtRest
  <2>1. FlowsStay /\ hpc' = hpc /\ pc'[Command] = pc[Command] /\ pc'[Consdrv] = pc[Consdrv]
    BY <1>4 DEF OthersDo, handlerVars
  <2>2. CASE UNCHANGED <<rdrf, rdr, typistVars>>
    BY <2>1, <2>2 DEF RestInv, Rest, FlowsStay, Coming, typistVars
  <2>3. CASE Rest
    BY <2>1, <2>3 DEF RestInv, Rest, FlowsStay
  <2>4. QED
    BY <1>4, <2>2, <2>3 DEF TypesOnlyAtRest
<1>5. QED
  BY <1>1, <1>2, <1>3, <1>4 DEF PatientDoes

(* Every string that is written has a block.                               *)
StringsFit ==
  /\ PoolOf(Len(Prompt) + 2) \in Pool
  /\ \A l \in Lines : Fits(Answer(l))

LEMMA TodoStays ==
  ASSUME StringsFit, NEW C, Alphabet(C), ConsInv(C), Running, TodoInv, PatientDoes
  PROVE  TodoInv'
<1> USE ThreadsOfConsole
<1>0. todo \in Seq(Seq(C)) /\ WorkInv
  BY DEF ConsInv, TextInv
<1>1. CASE UNCHANGED todo /\ pc'[Command] = pc[Command]
  BY <1>1 DEF TodoInv
<1>2. CASE CommandDoes
  <2>1. CASE pc[Command] \in {"use_alloc", "use_send", "alloc", "recv"}
    BY <1>2, <2>1 DEF CommandDoes, Goes, Moved, TodoInv
  <2>2. CASE pc[Command] = "send"
    <3>1. todo # <<>> /\ todo' = Tail(todo)
          /\ (pc'[Command] \in {"recv", "got", "free"} => Tail(todo) = <<>>)
      BY <1>0, <1>2, <2>2 DEF CommandDoes, Goes, Moved, WorkInv
    <3>2. /\ Len(Tail(todo)) = Len(todo) - 1 /\ Len(todo) \in Nat
          /\ \A i \in 1 .. Len(todo) - 1 : Tail(todo)[i] = todo[i + 1]
      BY <1>0, <3>1, HeadTailProperties, LenProperties
    <3>3. ASSUME NEW i \in 1 .. Len(todo) - 1
          PROVE  PoolOf(Len(Tail(todo)[i]) + 2) \in Pool
      <4>1. PICK j \in 1 .. Len(todo) : j = i + 1
        BY <3>2
      <4>2. PoolOf(Len(todo[j]) + 2) \in Pool
        BY DEF TodoInv, Fits
      <4>3. QED
        BY <3>2, <4>1, <4>2
    <3>4. Fits(Tail(todo))
      BY <3>2, <3>3 DEF Fits
    <3>5. QED
      BY <3>1, <3>4 DEF TodoInv
  <2>3. CASE pc[Command] = "got"
    <3>1. Takes(Command, In) /\ todo' = Answer(Head(In).p.str) /\ pc'[Command] = "alloc"
      BY <1>2, <2>3 DEF CommandDoes, Goes, Moved
    <3>2. Head(In).p.str \in Lines
      BY <3>1, LinedIsTyped DEF Takes
    <3>3. QED
      BY <3>1, <3>2 DEF TodoInv, StringsFit
  <2>4. CASE pc[Command] = "free"
    <3>1. todo' = <<Prompt>> /\ pc'[Command] = "alloc"
      BY <1>2, <2>4 DEF CommandDoes, Goes, Moved
    <3>2. Fits(<<Prompt>>)
      BY DEF StringsFit, Fits
    <3>3. QED
      BY <3>1, <3>2 DEF TodoInv
  <2>5. QED
    BY <2>1, <2>2, <2>3, <2>4 DEF ConsInv, ThreadInv, PcInv
<1>3. QED
  BY <1>1, <1>2 DEF PatientDoes, ConsdrvDoes, HandlerDoes, OthersDo, Goes, Moved

(***************************************************************************)
(* The blocks that are needed.                                             *)
(***************************************************************************)
Requested ==
  Len(Out) + One(req # NULL) + One(pc[Command] \in {"use_send", "send"})

(* Room for a request and the message that carries it; in the pool of the  *)
(* lines, for a line and the two buffers of the console, too.              *)
PoolsSuffice ==
  /\ StringsFit /\ PoolOf(3) \in Pool /\ LineBlock \in Pool
  /\ \A k \in Pool :
       BlockNum[k] >= 1 + One(k = MsgPool) + (IF k = LineBlock THEN 3 ELSE 0)

LEMMA FreeIsRest ==
  ASSUME IInv, BlocksConserved, NoBacklog
  PROVE  \A k \in Pool : /\ free[k] \in Nat /\ held[k] \in Nat /\ BlockNum[k] \in Nat
                         /\ free[k] = BlockNum[k] - held[k]
<1> SUFFICES ASSUME NEW k \in Pool
             PROVE  /\ free[k] \in Nat /\ held[k] \in Nat /\ BlockNum[k] \in Nat
                    /\ free[k] = BlockNum[k] - held[k]
  OBVIOUS
<1>1. Total(msgs, MsgBox) = 0
  BY TotalOfNone, KozosAssumption DEF NoBacklog
<1>2. Balanced(free, held, msgs)
  BY ConservedIsBalanced
<1>3. free[k] + held[k] + 0 = BlockNum[k]
  BY <1>1, <1>2 DEF Balanced, Waiting
<1>4. free[k] \in Nat /\ held[k] \in Nat
  BY DEF IInv, TypeOK
<1>5. QED
  BY <1>3, <1>4

LEMMA RequestsHold ==
  ASSUME TypeOK, NEW k
  PROVE  /\ Requested \in Nat
         /\ Cnt(Out, k) \in Nat
         /\ Cnt(Out, k) + Freeing(k) + Carries(k) <= Requested
<1>1. /\ Out \in Seq(Message) /\ Len(Out) \in Nat
  BY FlowsTyped, LenProperties
<1>2. IsFiniteSet(1 .. Len(Out)) /\ Cardinality(1 .. Len(Out)) = Len(Out)
  BY <1>1, FS_Interval
<1>3. Here(Out, k) \in SUBSET (1 .. Len(Out))
  BY DEF Here
<1>4. Cnt(Out, k) <= Len(Out) /\ Cnt(Out, k) \in Nat
  BY <1>1, <1>2, <1>3, FS_Subset, HereIsFinite DEF Cnt
<1>5. Freeing(k) <= One(req # NULL)
  BY DEF Freeing, One
<1>6. Carries(k) <= One(pc[Command] \in {"use_send", "send"})
  BY DEF Carries, One
<1>7. Freeing(k) \in Nat /\ Carries(k) \in Nat
  BY DEF Freeing, Carries, One
<1>8. QED
  BY <1>1, <1>4, <1>5, <1>6, <1>7, OneType DEF Requested

LEMMA LinedOne ==
  ASSUME IInv, ThreadInv, NEW C, Alphabet(C), TextInv(C), LineInv, Running, OneLine
  PROVE  Lined <= 1
<1>1. /\ Len(typed) = Len(received) + Len(In) + One(Ended) + One(Coming # <<>>)
      /\ Len(typed) \in Nat /\ Len(received) \in Nat /\ Len(In) \in Nat
  BY LinesCounted
<1>2. One(hpc = "post") <= One(Ended)
  BY DEF One, Ended
<1>3. QED
  BY <1>1, <1>2, OneType DEF Lined, OneLine

LEMMA HasRoom ==
  ASSUME PoolsSuffice, NEW C, Alphabet(C), ConsInv(C), Lively, Orderly
  PROVE  /\ HasBlock(MsgPool)
         /\ Requested = 0 => \A k \in Pool : HasBlock(k)
         /\ pc[Consdrv] \in {"send_buf", "recv_buf"} => HasBlock(LineBlock)
<1>0. /\ IInv /\ TypeOK /\ BlocksConserved /\ ThreadInv /\ TextInv(C) /\ StageInv
      /\ LineInv /\ HeldInv /\ Running /\ OneLine /\ OneRequest
  BY DEF ConsInv, IInv, Lively, Orderly
<1>1. ASSUME NEW k \in Pool
      PROVE  /\ held[k] <= Requested + (IF k = LineBlock THEN 1 + Buffers ELSE 0)
             /\ held[k] \in Nat /\ BlockNum[k] \in Nat /\ Requested \in Nat
             /\ HasBlock(k) <=> held[k] < BlockNum[k]
  <2>1. held[k] = Cnt(Out, k) + Lining(k) + Freeing(k) + Carries(k)
    BY <1>0 DEF HeldInv
  <2>2. /\ Requested \in Nat /\ Cnt(Out, k) \in Nat
        /\ Cnt(Out, k) + Freeing(k) + Carries(k) <= Requested
    BY <1>0, RequestsHold
  <2>3. Lining(k) <= IF k = LineBlock THEN 1 + Buffers ELSE 0
    BY <1>0, LinedOne, HeldTerms DEF Lining
  <2>4. Freeing(k) \in Nat /\ Carries(k) \in Nat /\ Lining(k) \in Nat /\ Buffers \in Nat
    BY <1>0, HeldTerms, OneType DEF Freeing, Carries
  <2>5. /\ free[k] \in Nat /\ held[k] \in Nat /\ BlockNum[k] \in Nat
        /\ free[k] = BlockNum[k] - held[k]
    BY <1>0, FreeIsRest DEF Lively
  <2>6. HasBlock(k) <=> held[k] < BlockNum[k]
    BY <2>5 DEF HasBlock
  <2>7. QED
    BY <2>1, <2>2, <2>3, <2>4, <2>5, <2>6
<1>2. Requested <= 1 /\ Buffers \in {0, 1, 2}
  BY <1>0 DEF OneRequest, Requested, Buffers
<1>3. ASSUME NEW k \in Pool
      PROVE  /\ BlockNum[k] >= 1 + (IF k = LineBlock THEN 3 ELSE 0)
             /\ k = MsgPool => BlockNum[k] >= 2 + (IF k = LineBlock THEN 3 ELSE 0)
  <2>1. BlockNum[k] >= 1 + One(k = MsgPool) + (IF k = LineBlock THEN 3 ELSE 0)
    BY DEF PoolsSuffice
  <2>2. BlockNum[k] \in Nat
    BY <1>1
  <2>3. QED
    BY <2>1, <2>2 DEF One
<1>4. HasBlock(MsgPool)
  <2>1. MsgPool \in Pool
    BY KozosAssumption
  <2>2. QED
    BY <1>1, <1>2, <1>3, <2>1
<1>5. ASSUME Requested = 0, NEW k \in Pool PROVE HasBlock(k)
  BY <1>1, <1>2, <1>3, <1>5
<1>6. ASSUME pc[Consdrv] \in {"send_buf", "recv_buf"} PROVE HasBlock(LineBlock)
  <2>1. Opened
    BY <1>0, <1>6 DEF StageInv, Asks, Asked, InUse, Opens
  <2>2. Buffers <= 1
    BY <1>0, <1>6, <2>1, BuffersAre
  <2>3. LineBlock \in Pool
    BY DEF PoolsSuffice
  <2>4. QED
    BY <1>1, <1>2, <1>3, <2>2, <2>3
<1>7. QED
  BY <1>4, <1>5, <1>6

-------------------------------------------------------------------------------
LEMMA CommandLively ==
  ASSUME PoolsSuffice, NEW C, Alphabet(C), ConsInv(C), ConsInv(C)', Lively, Orderly,
         command_main
  PROVE  Lively'
<1> USE ThreadsOfConsole
<1>0. /\ IInv /\ IInv' /\ ThreadInv /\ ThreadInv' /\ WorkInv /\ TextInv(C) /\ Running
      /\ NoBacklog /\ todo \in Seq(Seq(C))
  BY DEF ConsInv, Lively, TextInv
<1>1. current = Command /\ pc'[Idle] = pc[Idle]
  BY <1>0 DEF command_main, send_use, send_write, command_recv, command_got,
     command_free, Moves, ThreadInv, PcInv
<1>2. mode = "user"
  BY DEF command_main, send_use, send_write, command_recv, command_got, command_free,
     thread_kzmalloc, thread_kmfree, kz_send, thread_recv, kz_syscall, Computes
<1>3. ConsdrvRests
  BY <1>0, <1>1, <1>2, CommandAlone
<1>4. pc[Idle] \in {"enable", "sleep"} /\ pc'[Idle] \in {"enable", "sleep"}
  BY <1>0, <1>1 DEF Lively, LifeInv, Starting, ThreadInv, PcInv
<1>5. /\ HasBlock(MsgPool)
      /\ pc[Command] \notin {"use_send", "send"} => \A k \in Pool : HasBlock(k)
  <2>1. pc[Command] \notin {"use_send", "send"} => Requested = 0
    <3>1. Len(Out) = 0 /\ One(req # NULL) = 0
      BY <1>3 DEF ConsdrvRests, One
    <3>2. QED
      BY <3>1 DEF Requested, One
  <2>2. QED
    BY <2>1, HasRoom
<1>6. KeepsAwake /\ (schedule \/ Running')
  <2>1. ASSUME NEW k, thread_kzmalloc(k), HasBlock(k)
        PROVE  KeepsAwake /\ schedule
    BY <1>0, <1>2, <2>1, CallKeepsAwake DEF thread_kzmalloc
  <2>2. ASSUME NEW x \in Payload, kz_send("output", x) PROVE KeepsAwake /\ schedule
    BY <1>0, <1>3, <1>5, <2>2, Boxes, KzSendKeepsAwake DEF ConsdrvRests
  <2>3. CASE send_use
    <3>1. PoolOf(3) \in Pool /\ Use \in Payload
      BY DEF PoolsSuffice, Alphabet
    <3>2. QED
      BY <1>5, <2>1, <2>2, <2>3, <3>1 DEF send_use, Moves
  <2>4. CASE send_write
    <3>1. todo # <<>>
      BY <1>0, <2>4 DEF send_write, Moves, WorkInv
    <3>2. 1 \in 1 .. Len(todo) /\ Head(todo) = todo[1] /\ Head(todo) \in Seq(C)
      BY <1>0, <3>1
    <3>3. PoolOf(Len(Head(todo)) + 2) \in Pool
      BY <3>2 DEF Orderly, TodoInv, Fits
    <3>4. Write(Head(todo)) \in Payload
      BY <3>2 DEF Alphabet
    <3>5. QED
      BY <1>5, <2>1, <2>2, <2>4, <3>3, <3>4 DEF send_write, Moves
  <2>5. CASE command_recv
    <3>1. receiver["input"] = NULL
      BY <1>0, <1>1, <1>2, CallerIsLive, Boxes DEF ThreadInv, BoxInv
    <3>2. QED
      BY <1>0, <2>5, <3>1, Boxes, RecvKeepsAwake DEF command_recv
  <2>6. CASE command_got
    BY <1>0, <1>2, <2>6, CallKeepsAwake DEF command_got, Computes, vars, Running
  <2>7. CASE command_free
    BY <1>0, <1>2, <2>7, CallKeepsAwake DEF command_free, thread_kmfree
  <2>8. QED
    BY <2>3, <2>4, <2>5, <2>6, <2>7 DEF command_main
<1>7. QED
  BY <1>0, <1>4, <1>6, LivelyStays

LEMMA ConsdrvLively ==
  ASSUME PoolsSuffice, NEW C, Alphabet(C), ConsInv(C), ConsInv(C)', Lively, Orderly,
         consdrv_main
  PROVE  Lively'
<1> USE ThreadsOfConsole
<1>0. /\ IInv /\ IInv' /\ ThreadInv /\ ThreadInv' /\ Running /\ NoBacklog
  BY DEF ConsInv, Lively
<1>1. current = Consdrv /\ pc'[Idle] = pc[Idle]
  BY <1>0 DEF consdrv_main, consdrv_init, consdrv_recv, consdrv_use, consdrv_mask,
     consdrv_write, consdrv_free, Moves, ThreadInv, PcInv
<1>2. mode = "user"
  BY DEF consdrv_main, consdrv_init, consdrv_recv, consdrv_use, consdrv_mask,
     consdrv_write, consdrv_free, thread_setintr, thread_kzmalloc, thread_kmfree,
     thread_recv, kz_syscall, Computes, INTR_ENABLE, INTR_DISABLE
<1>3. pc[Idle] \in {"enable", "sleep"} /\ pc'[Idle] \in {"enable", "sleep"}
  BY <1>0, <1>1 DEF Lively, LifeInv, Starting, ThreadInv, PcInv
<1>4. KeepsAwake /\ (schedule \/ Running')
  <2>1. ASSUME thread_setintr \/ \E k : thread_kmfree(k)
        PROVE  KeepsAwake /\ schedule
    BY <1>0, <1>2, <2>1, CallKeepsAwake DEF thread_setintr, thread_kmfree
  <2>2. ASSUME Computes \/ INTR_ENABLE \/ INTR_DISABLE PROVE KeepsAwake /\ Running'
    BY <1>0, <1>2, <2>2, CallKeepsAwake DEF Computes, INTR_ENABLE, INTR_DISABLE, vars,
       Running
  <2>3. ASSUME pc[Consdrv] \in {"send_buf", "recv_buf"}, thread_kzmalloc(LineBlock)
        PROVE  KeepsAwake /\ schedule
    <3>1. HasBlock(LineBlock)
      BY <2>3, HasRoom
    <3>2. QED
      BY <1>0, <1>2, <2>3, <3>1, CallKeepsAwake DEF thread_kzmalloc
  <2>4. CASE consdrv_recv
    <3>1. receiver["output"] = NULL
      BY <1>0, <1>1, <1>2, CallerIsLive, Boxes DEF ThreadInv, BoxInv
    <3>2. QED
      BY <1>0, <2>4, <3>1, Boxes, RecvKeepsAwake DEF consdrv_recv
  <2>5. QED
    BY <2>1, <2>2, <2>3, <2>4 DEF consdrv_main, consdrv_init, consdrv_use, consdrv_mask,
       consdrv_write, consdrv_free, Moves, LineBlock
<1>5. QED
  BY <1>0, <1>3, <1>4, LivelyStays

LEMMA HandlerLively ==
  ASSUME PoolsSuffice, NEW C, Alphabet(C), ConsInv(C), ConsInv(C)', Lively, Orderly,
         serial_intr \/ consdrv_intrproc
  PROVE  Lively'
<1> USE ThreadsOfConsole
<1>0. /\ IInv /\ IInv' /\ ThreadInv /\ ThreadInv' /\ RegsInv /\ StageInv /\ TextInv(C)
      /\ Running /\ NoBacklog
  BY DEF ConsInv, Lively
<1>1. pc' = pc
  BY DEF serial_intr, consdrv_intrproc, intr_recv, intr_kick, intr_store, intr_post,
     intr_send, intr_return, threadVars
<1>2. pc[Idle] \in {"enable", "sleep"}
  <2>1. ~Starting
    <3>1. CASE serial_intr
      BY <1>0, <3>1, StartIsFresh DEF serial_intr, Fresh
    <3>2. CASE consdrv_intrproc
      <4>1. mode = "intr"
        <5>1. hpc # "end" => mode = "intr"
          BY <1>0, <3>2 DEF consdrv_intrproc, intr_recv, intr_kick, intr_store, intr_post,
             intr_send, intr_return, HandlerMoves
        <5>2. QED
          BY <3>2, <5>1 DEF consdrv_intrproc, intr_recv, intr_kick, intr_store, intr_post,
             intr_send, intr_return, HandlerMoves, intr_end
      <4>2. QED
        BY <4>1 DEF Lively, LifeInv
    <3>3. QED
      BY <3>1, <3>2
  <2>2. QED
    BY <1>0, <2>1 DEF Starting, ThreadInv, PcInv
<1>3. KeepsAwake /\ (schedule \/ Running')
  <2>1. ASSUME UNCHANGED <<rq, live, priority, receiver, msgs>> PROVE KeepsAwake
    BY <1>0, <2>1 DEF KeepsAwake, NoBacklog
  <2>2. CASE serial_intr
    BY <2>1, <2>2 DEF serial_intr, thread_intr, tcbVars, boxVars, Running
  <2>3. CASE UNCHANGED vars
    BY <1>0, <2>1, <2>3 DEF vars, tcbVars, boxVars, Running
  <2>4. CASE intr_store
    <3>1. CASE kx_kmalloc(LineBlock) /\ hpc = "store"
      <4>1. Rest
        BY <3>1 DEF Orderly, RestInv
      <4>2. Requested = 0
        <5>1. req = NULL
          BY <4>1 DEF ConsInv, WorkInv, Rest
        <5>2. Len(Out) = 0 /\ One(req # NULL) = 0
              /\ One(pc[Command] \in {"use_send", "send"}) = 0
          BY <4>1, <5>1 DEF Rest, One
        <5>3. QED
          BY <5>2 DEF Requested
      <4>3. HasBlock(LineBlock)
        BY <4>2, HasRoom DEF PoolsSuffice
      <4>4. QED
        BY <1>0, <2>1, <3>1, <4>3 DEF kx_kmalloc, tcbVars, boxVars, Running
    <3>2. QED
      BY <2>3, <2>4, <3>1 DEF intr_store, HandlerMoves, LineBlock
  <2>5. CASE intr_post
    <3>1. Rest
      BY <2>5 DEF Orderly, RestInv, intr_post, HandlerMoves
    <3>2. receiver["input"] # NULL
      <4>1. param[Command] # NULL => In # <<>>
        <5>1. msgs["input"] \in Seq(Message) /\ param[Command] \in Message \cup {NULL}
          BY <1>0, Boxes DEF IInv, TypeOK, Received
        <5>2. QED
          BY <3>1, <5>1, HeadTailOfPair DEF Rest, In, Flow
      <4>2. QED
        BY <1>0, <3>1, <4>1 DEF Rest, ThreadInv, BoxInv
    <3>3. HasBlock(MsgPool)
      BY HasRoom
    <3>4. Line(recv_buf) \in Payload
      <4>1. C \ {"\r", "\n"} \subseteq C
        OBVIOUS
      <4>2. recv_buf \in Seq(C)
        BY <1>0, <4>1, SeqMonotonic DEF TextInv
      <4>3. QED
        BY <4>2 DEF Alphabet
    <3>5. KeepsAwake /\ mode' = mode
      BY <1>0, <2>5, <3>2, <3>3, <3>4, Boxes, KxSendKeepsAwake DEF intr_post
    <3>6. QED
      BY <1>0, <3>5 DEF Running
  <2>6. CASE intr_return
    BY <2>1, <2>6 DEF intr_return, intr_end, tcbVars, boxVars
  <2>7. QED
    BY <2>2, <2>3, <2>4, <2>5, <2>6 DEF consdrv_intrproc, intr_recv, intr_kick, intr_send
<1>4. QED
  BY <1>0, <1>1, <1>2, <1>3, LivelyStays

LEMMA LivelyStep ==
  ASSUME PoolsSuffice, NEW C, Alphabet(C), ConsInv(C), ConsInv(C)', Lively, Orderly,
         [ConsNext]_cvars
  PROVE  Lively'
<1>1. IInv /\ IInv' /\ ThreadInv /\ ThreadInv'
  BY DEF ConsInv
<1>2. CASE Transmit \/ Type \/ UNCHANGED cvars
  <2>1. UNCHANGED vars /\ pc' = pc
    BY <1>2 DEF Transmit, Type, cvars, threadVars
  <2>2. QED
    BY <2>1 DEF vars, tcbVars, boxVars, Lively, LifeInv, PrioInv, Awake, NoBacklog, Running,
       Starting
<1>3. QED
  BY <1>1, <1>2, CommandLively, ConsdrvLively, HandlerLively, StartKeepsLively
     DEF ConsNext, Processor

(***************************************************************************)
(* A patient typist never takes the system down.                           *)
(***************************************************************************)
PatientInv(C) == ConsInv(C) /\ Lively /\ Orderly

LEMMA PatientInit ==
  ASSUME StringsFit, NEW C, Alphabet(C), ConsInit
  PROVE  PatientInv(C)
<1> USE ThreadsOfConsole
<1>1. /\ pc[Idle] = "run_consdrv" /\ pc[Consdrv] = "setintr" /\ pc[Command] = "use_alloc"
      /\ mode = "user" /\ current = Idle /\ live = {Idle} /\ Idle \in rq.ready
      /\ priority[Idle] = 0
      /\ \A b \in MsgBox : msgs[b] = <<>>
  BY DEF ConsInit, Init, Idle, Consdrv, Command
<1>2. Lively
  BY <1>1 DEF Lively, Running, LifeInv, Starting, PrioInv, Awake, NoBacklog
<1>3. /\ In = <<>> /\ Out = <<>> /\ Len(Out) = 0 /\ Coming = <<>> /\ hpc = "end" /\ req = NULL
      /\ line = NULL /\ todo = <<Prompt>> /\ typed = <<>> /\ received = <<>>
  BY FlowsInit DEF ConsInit, Coming
<1>4. RestInv
  BY <1>3 DEF RestInv
<1>5. OneRequest
  <2>1. One(req # NULL) = 0 /\ One(pc[Command] \in {"use_send", "send"}) \in {0, 1}
    BY <1>3 DEF One
  <2>2. QED
    BY <1>3, <2>1 DEF OneRequest
<1>6. OneLine
  BY <1>3 DEF OneLine, One
<1>7. TodoInv
  BY <1>1, <1>3 DEF TodoInv, Fits, StringsFit
<1>8. QED
  BY <1>2, <1>4, <1>5, <1>6, <1>7, ConsInitInv DEF PatientInv, Orderly

LEMMA PatientStep ==
  ASSUME ~WakeReceivers, Patient, PoolsSuffice, NEW C, Alphabet(C), PatientInv(C),
         [ConsNext]_cvars
  PROVE  PatientInv(C)' /\ PatientDoes /\ DoesStep
<1>0. /\ ConsInv(C) /\ Lively /\ Orderly /\ StringsFit
      /\ IInv /\ ThreadInv /\ TextInv(C) /\ RegsInv /\ WorkInv /\ LineInv /\ Running
      /\ OneRequest /\ OneLine /\ RestInv /\ TodoInv
  BY DEF PatientInv, ConsInv, Lively, Orderly, PoolsSuffice
<1>1. ConsInv(C)' /\ DoesStep
  BY <1>0, ConsStep
<1>2. PatientDoes
  BY <1>0, OutputDoesSo, PatientDoesSo
<1>3. Lively'
  BY <1>0, <1>1, LivelyStep
<1>4. Running'
  BY <1>3 DEF Lively
<1>5. OneRequest'
  BY <1>0, <1>2, <1>4, RequestsOne
<1>6. OneLine'
  BY <1>0, <1>2, LinesOne
<1>7. RestInv'
  BY <1>0, <1>2, RestStays
<1>8. TodoInv'
  BY <1>0, <1>2, TodoStays
<1>9. QED
  BY <1>1, <1>2, <1>3, <1>5, <1>6, <1>7, <1>8 DEF PatientInv, Orderly

LEMMA PatientAlways ==
  ASSUME ~WakeReceivers, Patient, PoolsSuffice, NEW C, Alphabet(C)
  PROVE  ConsSpec => []PatientInv(C)
<1>1. ConsInit => PatientInv(C)
  BY PatientInit DEF PoolsSuffice
<1>2. PatientInv(C) /\ [ConsNext]_cvars => PatientInv(C)'
  BY PatientStep
<1>3. QED
  BY <1>1, <1>2, PTL DEF ConsSpec

(***************************************************************************)
(* A typist who types when everything is printed never takes the system    *)
(* down: every kz_kmalloc() of the threads and every kx_kmalloc() of the   *)
(* handler finds a block, and nobody gets lost from the ready queues and   *)
(* the message boxes at once, which would leave schedule() with no thread  *)
(* to run.  The pools need one block each, one more for messages and three *)
(* for the lines, and the strings must fit a block.                        *)
(***************************************************************************)
THEOREM NeverTakenDown ==
  ASSUME ~WakeReceivers, Patient, PoolsSuffice, NEW C, Alphabet(C)
  PROVE  ConsSpec => []NeverDown
<1>1. PatientInv(C) => NeverDown
  BY DEF PatientInv, Lively, Running, NeverDown
<1>2. QED
  BY <1>1, PatientAlways, PTL

(***************************************************************************)
(* What send_string() makes of strings.                                    *)
(***************************************************************************)
Code(c)  == IF c = "\n" THEN <<"\r", "\n">> ELSE <<c>>
Codes(s) == [i \in 1 .. Len(s) |-> Code(s[i])]

LEMMA EncodeFlattens == \A s : Encode(s) = FlattenSeq(Codes(s))
BY DEF Encode, Codes, Code

LEMMA CodeType ==
  ASSUME NEW D, {"\r", "\n"} \subseteq D, NEW c \in D
  PROVE  Code(c) \in Seq(D) /\ Len(Code(c)) \in 1 .. 2 /\ Code(c) # <<>>
BY DEF Code

LEMMA CodesType ==
  ASSUME NEW D, {"\r", "\n"} \subseteq D, NEW s \in Seq(D)
  PROVE  /\ Codes(s) \in Seq(Seq(D)) /\ Len(Codes(s)) = Len(s) /\ Len(s) \in Nat
         /\ \A i \in 1 .. Len(s) : Codes(s)[i] = Code(s[i])
<1>1. \A i \in 1 .. Len(s) : Code(s[i]) \in Seq(D)
  BY ElementOfSeq, CodeType
<1>2. QED
  BY <1>1 DEF Codes

LEMMA EncodeType ==
  ASSUME NEW D, {"\r", "\n"} \subseteq D, NEW s \in Seq(D)
  PROVE  Encode(s) \in Seq(D)
BY CodesType, FlattenType, EncodeFlattens

LEMMA EncodeNone == Encode(<<>>) = <<>>
<1>1. Codes(<<>>) = <<>>
  BY DEF Codes
<1>2. QED
  BY <1>1, EncodeFlattens, FlattenNone

LEMMA EncodeOne ==
  ASSUME NEW D, {"\r", "\n"} \subseteq D, NEW c \in D
  PROVE  Encode(<<c>>) = Code(c)
<1>1. Codes(<<c>>) = <<Code(c)>>
  BY DEF Codes
<1>2. QED
  BY <1>1, EncodeFlattens, FlattenOne, CodeType

LEMMA EncodeConcat ==
  ASSUME NEW D, {"\r", "\n"} \subseteq D, NEW s \in Seq(D), NEW t \in Seq(D)
  PROVE  Encode(s \o t) = Encode(s) \o Encode(t)
<1> DEFINE u == s \o t
           E == Seq(D)
<1>1. /\ u \in Seq(D) /\ Len(u) = Len(s) + Len(t)
      /\ \A i \in 1 .. Len(s) + Len(t) : u[i] = IF i <= Len(s) THEN s[i] ELSE t[i - Len(s)]
  BY ConcatProperties
<1>2. /\ Codes(s) \in Seq(E) /\ Codes(t) \in Seq(E) /\ Codes(u) \in Seq(E)
      /\ Len(Codes(s)) = Len(s) /\ Len(Codes(t)) = Len(t) /\ Len(Codes(u)) = Len(u)
      /\ Len(s) \in Nat /\ Len(t) \in Nat
      /\ \A i \in 1 .. Len(s) : Codes(s)[i] = Code(s[i])
      /\ \A i \in 1 .. Len(t) : Codes(t)[i] = Code(t[i])
      /\ \A i \in 1 .. Len(u) : Codes(u)[i] = Code(u[i])
  BY <1>1, CodesType
<1> HIDE DEF u, E
<1>3. /\ Codes(s) \o Codes(t) \in Seq(E)
      /\ Len(Codes(s) \o Codes(t)) = Len(s) + Len(t)
      /\ \A i \in 1 .. Len(s) + Len(t) :
           (Codes(s) \o Codes(t))[i] = IF i <= Len(s) THEN Codes(s)[i]
                                       ELSE Codes(t)[i - Len(s)]
  <2> DEFINE x == Codes(s)
             y == Codes(t)
  <2>1. x \in Seq(E) /\ y \in Seq(E) /\ Len(x) = Len(s) /\ Len(y) = Len(t)
    BY <1>2
  <2> HIDE DEF x, y
  <2>2. /\ x \o y \in Seq(E) /\ Len(x \o y) = Len(x) + Len(y)
        /\ \A i \in 1 .. Len(x) + Len(y) :
             (x \o y)[i] = IF i <= Len(x) THEN x[i] ELSE y[i - Len(x)]
    BY <2>1, ConcatProperties
  <2>3. QED
    BY <2>1, <2>2 DEF x, y
<1>4. ASSUME NEW i \in 1 .. Len(u)
      PROVE  Codes(u)[i] = (Codes(s) \o Codes(t))[i]
  <2>1. Codes(u)[i] = Code(u[i])
    BY <1>2
  <2>2. CASE i <= Len(s)
    BY <1>1, <1>2, <1>3, <2>1, <2>2
  <2>3. CASE ~(i <= Len(s))
    <3>1. PICK j \in 1 .. Len(t) : j = i - Len(s)
      <4>1. Len(s) \in Nat /\ Len(t) \in Nat /\ i \in 1 .. Len(s) + Len(t)
        BY <1>1, <1>2
      <4>2. i - Len(s) \in 1 .. Len(t)
        BY <2>3, <4>1
      <4>3. QED
        BY <4>2
    <3>2. u[i] = t[j] /\ (Codes(s) \o Codes(t))[i] = Codes(t)[j]
      BY <1>1, <1>2, <1>3, <2>3, <3>1
    <3>3. QED
      BY <1>2, <2>1, <3>1, <3>2
  <2>4. QED
    BY <2>2, <2>3
<1>5. Codes(u) = Codes(s) \o Codes(t)
  BY <1>1, <1>2, <1>3, <1>4, SeqEqual
<1>6. FlattenSeq(Codes(s) \o Codes(t)) = FlattenSeq(Codes(s)) \o FlattenSeq(Codes(t))
  BY <1>2, FlattenConcat DEF E
<1>7. QED
  BY <1>5, <1>6, EncodeFlattens DEF u

(* Only the newline is encoded. *)
LEMMA EncodePlain ==
  ASSUME NEW D, {"\r", "\n"} \subseteq D, NEW s \in Seq(D \ {"\n"})
  PROVE  Encode(s) = s
<1> DEFINE P == D \ {"\n"}
           N == {n \in Nat : \A u \in Seq(P) : Len(u) = n => Encode(u) = u}
<1>1. 0 \in N
  BY EmptySeq, EncodeNone
<1>2. ASSUME NEW n \in Nat, n \in N PROVE n + 1 \in N
  <2> SUFFICES ASSUME NEW u \in Seq(P), Len(u) = n + 1 PROVE Encode(u) = u
    OBVIOUS
  <2>1. u # <<>>
    OBVIOUS
  <2>2. PICK v \in Seq(P), c \in P : u = Append(v, c)
    <3> HIDE DEF P
    <3> QED BY <2>1, SequenceEmptyOrAppend
  <2>3. Encode(v) = v
    BY <1>2, <2>2
  <2> HIDE DEF N
  <2>4. v \in Seq(D) /\ c \in D /\ c # "\n" /\ <<c>> \in Seq(D)
    <3>1. P \subseteq D
      OBVIOUS
    <3> QED BY <3>1, SeqMonotonic
  <2>5. Encode(<<c>>) = <<c>>
    BY <2>4, EncodeOne DEF Code
  <2>6. u = v \o <<c>>
    BY <2>2, <2>4, AppendIsConcat
  <2>7. Encode(v \o <<c>>) = Encode(v) \o Encode(<<c>>)
    BY <2>4, EncodeConcat
  <2>8. QED
    BY <2>3, <2>5, <2>6, <2>7
<1>3. Nat \subseteq N
  <2> HIDE DEF N
  <2> QED BY <1>1, <1>2, SetInduction
<1>4. Len(s) \in N
  BY <1>3
<1> QED BY <1>4

(***************************************************************************)
(* One sequence behind the other, by a name that the provers do not expand.*)
(***************************************************************************)
Join(s, t) == s \o t

LEMMA JoinType == \A D : \A s, t \in Seq(D) : Join(s, t) \in Seq(D)
BY ConcatProperties DEF Join

LEMMA JoinLen ==
  \A D : \A s, t \in Seq(D) :
    /\ Len(s) \in Nat /\ Len(t) \in Nat
    /\ Len(Join(s, t)) = Len(s) + Len(t)
BY ConcatProperties DEF Join

LEMMA JoinNone == \A D : \A s \in Seq(D) : Join(s, <<>>) = s /\ Join(<<>>, s) = s
BY ConcatEmptySeq DEF Join

LEMMA JoinJoin ==
  \A D : \A s, t, u \in Seq(D) : Join(Join(s, t), u) = Join(s, Join(t, u))
BY Associates, Zenon DEF Join

LEMMA JoinHead ==
  \A D : \A s \in Seq(D) :
    s # <<>> => Head(s) \in D /\ Tail(s) \in Seq(D) /\ s = Join(<<Head(s)>>, Tail(s))
BY HeadTailProperties, PairOfHeadTail DEF Join

LEMMA JoinEncoded ==
  \A D : {"\r", "\n"} \subseteq D =>
    \A s, t \in Seq(D) : Encode(Join(s, t)) = Join(Encode(s), Encode(t))
BY EncodeConcat DEF Join

LEMMA JoinFlattened ==
  \A S : \A t \in Seq(Seq(S)) :
    t # <<>> => FlattenSeq(t) = Join(Head(t), FlattenSeq(Tail(t)))
<1> SUFFICES ASSUME NEW S, NEW t \in Seq(Seq(S)), t # <<>>
             PROVE  FlattenSeq(t) = Join(Head(t), FlattenSeq(Tail(t)))
  OBVIOUS
<1> DEFINE h == Head(t)
           u == Tail(t)
           E == Seq(S)
<1>1. h \in E /\ u \in Seq(E) /\ t = <<h>> \o u
  <2>1. t \in Seq(E)
    BY DEF E
  <2> HIDE DEF E
  <2>2. QED
    BY <2>1, HeadTailProperties, PairOfHeadTail
<1> HIDE DEF h, u
<1>2. <<h>> \in Seq(E)
  BY <1>1
<1>3. FlattenSeq(<<h>> \o u) = FlattenSeq(<<h>>) \o FlattenSeq(u)
  BY <1>1, <1>2, FlattenConcat DEF E
<1>4. FlattenSeq(<<h>>) = h
  BY <1>1, FlattenOne DEF E
<1>5. QED
  BY <1>1, <1>3, <1>4 DEF Join, h, u

(***************************************************************************)
(* What is under way from command_main() and the keys to the wire.         *)
(***************************************************************************)
Letters(C) == C \cup {"\r"}

(* The characters are told from an empty register, and the prompt is sent  *)
(* as it is.                                                               *)
Plain(C) == NULL \notin Letters(C) /\ Prompt \in Seq(C \ {"\n"})

(* The string c, the string p, the strings t and the encoded text r.       *)
Outgoing(c, p, t, r) ==
  Join(Encode(c), Join(Encode(p), Join(Encode(FlattenSeq(t)), r)))

Answered(l) == Join(Encode(FlattenSeq(Answer(l))), Prompt)

LEMMA LettersOf ==
  ASSUME NEW C, Alphabet(C), NEW D, D = Letters(C)
  PROVE  /\ {"\r", "\n"} \subseteq D /\ C \subseteq D
         /\ \A s \in Seq(C) : s \in Seq(D)
         /\ \A t \in Seq(Seq(C)) : FlattenSeq(t) \in Seq(D)
         /\ <<>> \in Seq(C) /\ <<>> \in Seq(D) /\ Prompt \in Seq(D)
<1>1. {"\r", "\n"} \subseteq D /\ C \subseteq D
  BY DEF Letters, Alphabet
<1>2. \A s \in Seq(C) : s \in Seq(D)
  BY <1>1, SeqMonotonic
<1>3. \A t \in Seq(Seq(C)) : FlattenSeq(t) \in Seq(D)
  BY <1>2, FlattenType
<1>4. QED
  BY <1>1, <1>2, <1>3, EmptySeq DEF Alphabet

LEMMA OutgoingType ==
  ASSUME NEW C, Alphabet(C), NEW D, D = Letters(C),
         NEW c \in Seq(C), NEW p \in Seq(C), NEW t \in Seq(Seq(C)), NEW r \in Seq(D)
  PROVE  /\ Encode(c) \in Seq(D) /\ Encode(p) \in Seq(D)
         /\ Encode(FlattenSeq(t)) \in Seq(D) /\ Join(Encode(FlattenSeq(t)), r) \in Seq(D)
         /\ Outgoing(c, p, t, r) \in Seq(D)
<1>1. Encode(c) \in Seq(D) /\ Encode(p) \in Seq(D) /\ Encode(FlattenSeq(t)) \in Seq(D)
  BY LettersOf, EncodeType
<1>2. QED
  BY <1>1, JoinType DEF Outgoing

(* The first string is printed, the string of a request is taken, and the  *)
(* first of the strings is posted.                                         *)
LEMMA OutgoingMoves ==
  ASSUME NEW C, Alphabet(C), NEW D, D = Letters(C),
         NEW c \in Seq(C), NEW p \in Seq(C), NEW t \in Seq(Seq(C)), NEW r \in Seq(D)
  PROVE  /\ Outgoing(c, p, t, r) = Join(Encode(c), Outgoing(<<>>, p, t, r))
         /\ Outgoing(<<>>, p, t, r) = Outgoing(p, <<>>, t, r)
         /\ t # <<>> => Outgoing(<<>>, <<>>, t, r) = Outgoing(<<>>, Head(t), Tail(t), r)
<1> DEFINE x == Encode(c)
           y == Encode(p)
           z == Encode(FlattenSeq(t))
<1>1. x \in Seq(D) /\ y \in Seq(D) /\ z \in Seq(D) /\ Join(z, r) \in Seq(D)
  BY OutgoingType
<1>2. Join(y, Join(z, r)) \in Seq(D)
  BY <1>1, JoinType
<1>3. Outgoing(c, p, t, r) = Join(Encode(c), Outgoing(<<>>, p, t, r))
  BY <1>1, <1>2, JoinNone, EncodeNone DEF Outgoing
<1>4. Outgoing(<<>>, p, t, r) = Outgoing(p, <<>>, t, r)
  BY <1>1, <1>2, JoinNone, EncodeNone DEF Outgoing
<1>5. ASSUME t # <<>>
      PROVE  Outgoing(<<>>, <<>>, t, r) = Outgoing(<<>>, Head(t), Tail(t), r)
  <2> DEFINE h == Head(t)
             u == Tail(t)
  <2>1. h \in Seq(C) /\ u \in Seq(Seq(C))
    <3> DEFINE E == Seq(C)
    <3>1. t \in Seq(E)
      OBVIOUS
    <3> HIDE DEF E
    <3>2. QED
      BY <1>5, <3>1, HeadTailProperties DEF E
  <2>2. FlattenSeq(t) = Join(h, FlattenSeq(u))
    BY <1>5, JoinFlattened
  <2> HIDE DEF h, u
  <2>3. h \in Seq(D) /\ FlattenSeq(u) \in Seq(D) /\ {"\r", "\n"} \subseteq D
    BY <2>1, LettersOf
  <2>4. z = Join(Encode(h), Encode(FlattenSeq(u)))
    BY <2>2, <2>3, JoinEncoded
  <2>5. Encode(h) \in Seq(D) /\ Encode(FlattenSeq(u)) \in Seq(D)
    BY <2>3, EncodeType
  <2>6. Join(z, r) = Join(Encode(h), Join(Encode(FlattenSeq(u)), r))
    BY <2>4, <2>5, JoinJoin
  <2>7. QED
    BY <1>1, <2>6, JoinNone, EncodeNone DEF Outgoing, h, u
<1>6. QED
  BY <1>3, <1>4, <1>5

(* The prompt becomes one of the strings. *)
LEMMA OutgoingPrompt ==
  ASSUME NEW C, Alphabet(C), Plain(C), NEW c, NEW p
  PROVE  Outgoing(c, p, <<>>, Prompt) = Outgoing(c, p, <<Prompt>>, <<>>)
<1> DEFINE D == Letters(C)
<1>1. Prompt \in Seq(D) /\ {"\r", "\n"} \subseteq D
  BY LettersOf
<1>2. Encode(Prompt) = Prompt
  <2>1. C \ {"\n"} \subseteq D \ {"\n"}
    BY DEF Letters
  <2>2. Prompt \in Seq(D \ {"\n"})
    BY <2>1, SeqMonotonic DEF Plain
  <2>3. QED
    BY <1>1, <2>2, EncodePlain
<1>3. FlattenSeq(<<Prompt>>) = Prompt
  BY <1>1, FlattenOne
<1>4. Join(Prompt, <<>>) = Prompt /\ Join(<<>>, Prompt) = Prompt
  BY <1>1, JoinNone
<1>5. QED
  BY <1>2, <1>3, <1>4, EncodeNone, FlattenNone DEF Outgoing

(* Nothing, or the answer to a line and the prompt. *)
LEMMA OutgoingNone == Outgoing(<<>>, <<>>, <<>>, <<>>) = <<>>
BY EmptySeq, JoinNone, EncodeNone, FlattenNone DEF Outgoing

LEMMA OutgoingAnswer ==
  ASSUME NEW C, Alphabet(C), NEW l \in Seq(C)
  PROVE  /\ Outgoing(<<>>, <<>>, Answer(l), Prompt) = Answered(l)
         /\ Answered(l) \in Seq(Letters(C))
<1> DEFINE D == Letters(C)
<1>1. Answer(l) \in Seq(Seq(C)) /\ Prompt \in Seq(D)
  BY AnswerType, LettersOf
<1>2. Answered(l) \in Seq(D)
  BY <1>1, LettersOf, OutgoingType DEF Answered
<1> HIDE DEF D
<1>3. QED
  BY <1>2, JoinNone, EncodeNone DEF Outgoing, Answered, D

(***************************************************************************)
(* The characters on their way to the wire.                                *)
(***************************************************************************)
(* In the transmitter; in the request that consdrv copies; in the request  *)
(* that it has not yet taken; and the prompt that follows the answer.      *)
Pending   == IF tdr = NULL THEN <<>> ELSE <<tdr>>
Copying   == IF pc[Consdrv] = "copy" THEN req.str ELSE <<>>
Posted    == IF Out # <<>> /\ Head(Out).p.cmd = "write" THEN Head(Out).p.str ELSE <<>>
Prompting == IF line # NULL THEN Prompt ELSE <<>>
Writes    == Outgoing(Copying, Posted, todo, Prompting)

(* What is echoed of the keys s; the key that is in the receiver; and the  *)
(* answer to a line that command_main() has not yet got, which is counted  *)
(* when the last key of the line has been pressed.                         *)
Shown(s) == [i \in 1 .. Len(s) |-> Newline(s[i])]
Echoed   == IF rdrf THEN Encode(<<Newline(rdr)>>) ELSE <<>>
Replies  == IF Len(received) < Len(typed) THEN Answered(typed[Len(typed)]) ELSE <<>>
Awaited    == IF typing = <<>> THEN Replies ELSE <<>>

(* What is on the wire or goes there from the send buffer, what is owed on *)
(* top of it, and what will be owed for the keys yet to be pressed.        *)
Sent    == Join(wire, Join(Pending, send_buf))
Due     == Join(Writes, Join(Echoed, Awaited))
Unkeyed == Join(Encode(Shown(typing)), IF typing = <<>> THEN <<>> ELSE Replies)

(* An empty transmitter holds nothing, whoever is about to send has        *)
(* something to send, and a console that is not open has nothing.          *)
DevInv ==
  /\ tdre => tdr = NULL
  /\ pc[Consdrv] = "kick" \/ hpc = "kick" => send_buf # <<>>
  /\ ~rie => send_buf = <<>>

CharInv(C) ==
  /\ wire \in Seq(Letters(C)) /\ send_buf \in Seq(Letters(C))
  /\ tdr \in Letters(C) \cup {NULL}
  /\ Copying \in Seq(C) /\ Posted \in Seq(C)

(* An open console is in use. *)
LEMMA OpenInUse ==
  ASSUME ThreadInv, Running, StageInv,
         rie \/ rdrf \/ pc[Consdrv] \in {"copy", "kick", "unmask"}
  PROVE  InUse /\ rie
BY DEF StageInv, Asks, Asked, Opened, InUse, Fresh, Opens

LEMMA DevStays ==
  ASSUME ThreadInv, RegsInv, RegsInv', Running, StageInv, MaskInv, MaskInv', DevInv,
         NEW C, CharInv(C), OutputDoes
  PROVE  DevInv'
<1> USE ThreadsOfConsole
<1>1. CASE CommandOutputs
  BY <1>1 DEF CommandOutputs, outVars, CommandDoes, Goes, Moved, handlerVars, devVars, DevInv
<1>2. CASE ConsdrvOutputs
  <2>1. hpc' # "kick" /\ ConsdrvDoes
    BY <1>2 DEF ConsdrvOutputs, ConsdrvDoes, Goes, handlerVars, RegsInv
  <2>2. (tdre' => tdr' = NULL) /\ (pc'[Consdrv] = "kick" => send_buf' # <<>>)
    <3>1. CASE pc[Consdrv] = "copy" /\ UNCHANGED <<tdre, tdr>>
               /\ (pc'[Consdrv] = "kick" => send_buf' # <<>>)
      BY <3>1 DEF DevInv
    <3>2. CASE pc[Consdrv] # "copy"
      BY <1>2, <2>1, <3>2 DEF ConsdrvOutputs, ConsdrvDoes, Goes, Moved, Loads, send_char,
         outVars, DevInv
    <3>3. QED
      BY <1>2, <3>1, <3>2 DEF ConsdrvOutputs, Prints
  <2>3. ~rie' => send_buf' = <<>>
    <3>1. CASE pc[Consdrv] \in {"copy", "kick"}
      <4>1. rie /\ rie' = rie
        BY <2>1, <3>1, OpenInUse DEF ConsdrvDoes, Goes, Moved, devVars
      <4>2. QED
        BY <4>1
    <3>2. CASE pc[Consdrv] \notin {"copy", "kick"}
      BY <1>2, <2>1, <3>2 DEF ConsdrvOutputs, ConsdrvDoes, Goes, Moved, outVars, devVars, DevInv
    <3>3. QED
      BY <3>1, <3>2
  <2>4. QED
    BY <2>1, <2>2, <2>3 DEF DevInv
<1>3. CASE HandlerOutputs
  <2>1. pc' = pc /\ rie' = rie
    BY <1>3 DEF HandlerOutputs, HandlerDoes
  <2>2. CASE /\ rdrf /\ Prints(<<Newline(rdr)>>) /\ mode = "intr"
             /\ hpc' = "kick" => send_buf' # <<>>
    <3>1. rie
      BY <2>2, OpenInUse
    <3>2. pc[Consdrv] # "kick"
      BY <2>2 DEF MaskInv, Masked
    <3>3. QED
      BY <2>1, <2>2, <3>1, <3>2 DEF DevInv, Prints
  <2>3. CASE Loads /\ mode = "intr" /\ hpc' # "kick" /\ send_buf # <<>>
    <3>1. rie
      BY <2>3 DEF DevInv
    <3>2. pc[Consdrv] # "kick"
      BY <2>3 DEF MaskInv, Masked
    <3>3. QED
      BY <2>1, <2>3, <3>1, <3>2 DEF DevInv, Loads, send_char
  <2>4. CASE hpc' # "kick" /\ UNCHANGED outVars
    BY <2>1, <2>4 DEF outVars, DevInv
  <2>5. QED
    BY <1>3, <2>2, <2>3, <2>4 DEF HandlerOutputs, Serves, DevInv
<1>4. CASE OthersOutput \/ KeyOutput
  BY <1>4 DEF OthersOutput, KeyOutput, outVars, Shifts, OthersDo, handlerVars, DevInv
<1>5. QED
  BY <1>1, <1>2, <1>3, <1>4 DEF OutputDoes

(***************************************************************************)
(* How the strings of command_main() move.                                 *)
(***************************************************************************)
WritesStay == UNCHANGED <<Copying, Posted, todo, Prompting>>

Posts ==
  /\ Posted = <<>> /\ todo # <<>> /\ Posted' = Head(todo) /\ todo' = Tail(todo)
  /\ Copying = <<>> /\ UNCHANGED <<Copying, Prompting>>

NoWrites == Copying = <<>> /\ Posted = <<>> /\ todo = <<>> /\ Prompting = <<>>

Answers ==
  /\ In # <<>> /\ NoWrites
  /\ todo' = Answer(Head(In).p.str) /\ Prompting' = Prompt
  /\ received' = Append(received, Head(In).p.str)
  /\ UNCHANGED <<Copying, Posted>>

Reprompts ==
  /\ todo = <<>> /\ Prompting = Prompt
  /\ todo' = <<Prompt>> /\ Prompting' = <<>>
  /\ UNCHANGED <<Copying, Posted>>

Fetches ==
  /\ Copying = <<>> /\ Copying' = Posted /\ Posted' = <<>>
  /\ UNCHANGED <<todo, Prompting>>

Copies == Copying' = <<>> /\ UNCHANGED <<Posted, todo, Prompting>>

LEMMA CommandMoves ==
  ASSUME TypeOK, ThreadInv, WorkInv, TodoInv, Running', NEW C, Alphabet(C), TextInv(C),
         CommandDoes, ConsdrvRests
  PROVE  \/ WritesStay /\ received' = received
         \/ Posts /\ received' = received
         \/ Answers /\ pc[Command] = "got"
         \/ Reprompts /\ received' = received
<1> USE ThreadsOfConsole
<1>1. pc[Consdrv] = "got" /\ pc'[Consdrv] = "got" /\ Out = <<>>
  BY DEF ConsdrvRests, CommandDoes, Goes, Moved
<1>2. Copying = <<>> /\ Copying' = <<>> /\ Posted = <<>>
  BY <1>1 DEF Copying, Posted
<1>3. CASE FlowsStay /\ UNCHANGED <<line, todo, received>>
  <2>1. Posted' = Posted
    BY <1>3 DEF FlowsStay, Posted
  <2>2. QED
    BY <1>2, <1>3, <2>1 DEF WritesStay, Prompting
<1>4. CASE Requests(Use) /\ UNCHANGED <<line, todo, received>>
  <2>1. Use \in Payload /\ Use.cmd = "use"
    BY EmptySeq DEF Alphabet, Use
  <2>2. Posted' = <<>>
    BY <1>1, <1>4, <2>1, OutGrows DEF Posted
  <2>3. QED
    BY <1>2, <1>4, <2>2 DEF WritesStay, Prompting
<1>5. CASE /\ pc[Command] = "send" /\ Requests(Write(Head(todo)))
           /\ todo' = Tail(todo) /\ UNCHANGED <<line, received>>
  <2>1. todo # <<>> /\ todo \in Seq(Seq(C))
    BY <1>5 DEF WorkInv, TextInv
  <2>2. Head(todo) \in Seq(C)
    <3> DEFINE E == Seq(C)
    <3>1. todo \in Seq(E)
      BY <2>1
    <3> HIDE DEF E
    <3>2. QED
      BY <2>1, <3>1, HeadTailProperties DEF E
  <2>3. /\ Write(Head(todo)) \in Payload /\ Write(Head(todo)).cmd = "write"
        /\ Write(Head(todo)).str = Head(todo)
    BY <2>2 DEF Alphabet, Write
  <2>4. Out' # <<>> /\ Head(Out').p = Write(Head(todo))
    BY <1>1, <1>5, <2>3, OutGrows
  <2>5. Posted' = Head(todo)
    BY <2>3, <2>4 DEF Posted
  <2>6. QED
    BY <1>2, <1>5, <2>1, <2>5 DEF Posts, Prompting
<1>6. CASE /\ pc[Command] = "got" /\ Takes(Command, In) /\ Out' = Out
           /\ line' = Head(In).p /\ todo' = Answer(line'.str)
           /\ received' = Append(received, line'.str)
  <2>1. todo = <<>> /\ line = NULL
    BY <1>6 DEF TodoInv, WorkInv
  <2>2. line' # NULL
    <3>1. Head(In) \in Message
      BY <1>6 DEF Takes
    <3>2. QED
      BY <1>6, <3>1, MessageParts, ConsoleAssumption
  <2>3. Posted' = Posted
    BY <1>6 DEF Posted
  <2>4. Prompting = <<>> /\ Prompting' = Prompt
    BY <2>1, <2>2 DEF Prompting
  <2>5. QED
    BY <1>2, <1>6, <2>1, <2>3, <2>4 DEF Answers, NoWrites, Takes
<1>7. CASE /\ pc[Command] = "free" /\ FlowsStay
           /\ line' = NULL /\ todo' = <<Prompt>> /\ UNCHANGED received
  <2>1. todo = <<>> /\ line # NULL
    BY <1>7 DEF TodoInv, WorkInv
  <2>2. Posted' = Posted
    BY <1>7 DEF FlowsStay, Posted
  <2>3. QED
    BY <1>2, <1>7, <2>1, <2>2 DEF Reprompts, Prompting
<1>8. QED
  BY <1>3, <1>4, <1>5, <1>6, <1>7 DEF CommandDoes, Goes, Moved

LEMMA ConsdrvMoves ==
  ASSUME TypeOK, ThreadInv, WorkInv, OneRequest, ConsdrvDoes
  PROVE  \/ pc[Consdrv] = "copy" /\ Copies /\ Copying = req.str
         \/ pc[Consdrv] = "got" /\ (WritesStay \/ Fetches)
         \/ pc[Consdrv] \notin {"copy", "got"} /\ WritesStay
<1> USE ThreadsOfConsole
<1>1. UNCHANGED <<todo, Prompting>>
  BY DEF ConsdrvDoes, Prompting
<1>2. CASE FlowsStay /\ pc[Consdrv] # "copy" /\ pc'[Consdrv] # "copy" /\ pc[Consdrv] # "got"
  <2>1. Posted' = Posted /\ Copying' = Copying
    BY <1>2 DEF FlowsStay, Posted, Copying
  <2>2. QED
    BY <1>1, <1>2, <2>1 DEF WritesStay
<1>3. CASE FlowsStay /\ pc[Consdrv] = "copy" /\ pc'[Consdrv] # "copy"
  BY <1>1, <1>3 DEF FlowsStay, Posted, Copying, Copies
<1>4. ASSUME pc[Consdrv] = "got", Takes(Consdrv, Out), Out' = Tail(Out)
      PROVE  Out' = <<>> /\ Posted' = <<>> /\ Copying = <<>>
  <2>1. Len(Out) <= 1
    <3>1. One(req # NULL) \in {0, 1} /\ One(pc[Command] \in {"use_send", "send"}) \in {0, 1}
      BY DEF One
    <3>2. Len(Out) \in Nat
      BY FlowLengths
    <3>3. QED
      BY <3>1, <3>2 DEF OneRequest
  <2>2. Tail(Out) \in Seq(Message) /\ Len(Tail(Out)) = Len(Out) - 1 /\ Len(Out) \in Nat
    BY <1>4, FlowLengths, HeadTailProperties DEF Takes
  <2>3. Out' = <<>>
    BY <1>4, <2>1, <2>2, LenProperties, EmptySeq
  <2>4. QED
    BY <1>4, <2>3 DEF Posted, Copying
<1>5. CASE /\ Goes(Consdrv, "got", "send_buf") /\ Takes(Consdrv, Out) /\ Out' = Tail(Out)
           /\ req' = Head(Out).p /\ req'.cmd = "use"
  BY <1>1, <1>4, <1>5 DEF Goes, Moved, Posted, Copying, WritesStay
<1>6. CASE /\ Goes(Consdrv, "got", "copy") /\ Takes(Consdrv, Out) /\ Out' = Tail(Out)
           /\ req' = Head(Out).p /\ req'.cmd = "write"
  <2>1. Copying' = Posted
    BY <1>6 DEF Goes, Moved, Posted, Copying, Takes
  <2>2. QED
    BY <1>1, <1>4, <1>6, <2>1 DEF Fetches, Goes, Moved
<1>7. QED
  BY <1>2, <1>3, <1>5, <1>6 DEF ConsdrvDoes, Goes, Moved

LEMMA OutsideMoves ==
  ASSUME HandlerDoes \/ OthersDo
  PROVE  WritesStay
<1>1. CASE HandlerDoes
  BY <1>1 DEF HandlerDoes, FlowsStay, WritesStay, Posted, Copying, Prompting, Serves
<1>2. CASE OthersDo
  BY <1>2 DEF OthersDo, FlowsStay, WritesStay, Posted, Copying, Prompting
<1>3. QED
  BY <1>1, <1>2

LEMMA NewlineType ==
  ASSUME NEW C, Alphabet(C), NEW c \in Letters(C)
  PROVE  Newline(c) \in Letters(C)
BY DEF Newline, Letters, Alphabet

(* The output is made of characters. *)
LEMMA CharsStay ==
  ASSUME TypeOK, ThreadInv, RegsInv, WorkInv, TodoInv, OneRequest, Running', DevInv,
         NEW C, Alphabet(C), TextInv(C), TextInv(C)', CharInv(C), OutputDoes
  PROVE  CharInv(C)'
<1> DEFINE D == Letters(C)
<1>1. {"\r", "\n"} \subseteq D /\ Prompt \in Seq(D)
  BY LettersOf
<1>2. wire \in Seq(D) /\ send_buf \in Seq(D) /\ tdr \in D \cup {NULL}
  BY DEF CharInv
<1>3. Copying' \in Seq(C) /\ Posted' \in Seq(C)
  <2>1. /\ Copying \in Seq(C) /\ Posted \in Seq(C) /\ <<>> \in Seq(C)
        /\ todo # <<>> => Head(todo) \in Seq(C)
    <3> DEFINE E == Seq(C)
    <3>1. todo \in Seq(E)
      BY DEF TextInv
    <3> HIDE DEF E
    <3>2. QED
      BY <3>1, HeadTailProperties, EmptySeq DEF E, CharInv
  <2>2. WritesStay \/ Posts \/ Answers \/ Reprompts \/ Copies \/ Fetches
    BY CommandMoves, ConsdrvMoves, OutsideMoves DEF OutputDoes, CommandOutputs,
       ConsdrvOutputs, HandlerOutputs, OthersOutput, KeyOutput
  <2>3. QED
    BY <2>1, <2>2 DEF WritesStay, Posts, Answers, Reprompts, Copies, Fetches
<1>4. ASSUME NEW s \in Seq(D), Prints(s) PROVE CharInv(C)'
  <2>1. Encode(s) \in Seq(D)
    BY <1>1, EncodeType
  <2>2. send_buf' \in Seq(D)
    BY <1>2, <1>4, <2>1, ConcatProperties DEF Prints
  <2>3. QED
    BY <1>2, <1>3, <1>4, <2>2 DEF CharInv, Prints
<1>5. CASE Loads /\ send_buf # <<>>
  <2>1. send_buf' \in Seq(D) /\ tdr' \in D
    <3> HIDE DEF D
    <3> QED BY <1>2, <1>5, HeadTailProperties DEF Loads, send_char
  <2>2. QED
    BY <1>2, <1>3, <1>5, <2>1 DEF CharInv, Loads
<1>6. CASE Shifts
  <2>1. wire' \in Seq(D)
    <3> HIDE DEF D
    <3> QED BY <1>2, <1>6, AppendProperties DEF Shifts
  <2>2. QED
    BY <1>2, <1>3, <1>6, <2>1 DEF CharInv, Shifts
<1>7. CASE UNCHANGED outVars
  BY <1>2, <1>3, <1>7 DEF CharInv, outVars
<1>8. CASE send_buf' = <<>> /\ tdr' = tdr /\ wire' = wire
  BY <1>2, <1>3, <1>8, EmptySeq DEF CharInv
<1>9. CASE ConsdrvOutputs
  <2>1. pc[Consdrv] = "copy" => req.str \in Seq(D)
    <3>1. Copying \in Seq(D)
      BY LettersOf DEF CharInv
    <3>2. QED
      BY <3>1 DEF Copying
  <2>2. QED
    BY <1>4, <1>5, <1>7, <1>8, <1>9, <2>1 DEF ConsdrvOutputs, DevInv
<1>10. CASE HandlerOutputs
  <2>1. rdrf => <<Newline(rdr)>> \in Seq(D)
    <3>1. rdrf => Newline(rdr) \in D
      BY NewlineType DEF TextInv, Letters
    <3>2. QED
      BY <3>1
  <2>2. QED
    BY <1>4, <1>5, <1>7, <1>10, <2>1 DEF HandlerOutputs, Serves, DevInv
<1>11. QED
  BY <1>6, <1>7, <1>9, <1>10 DEF OutputDoes, CommandOutputs, OthersOutput,
     KeyOutput

(***************************************************************************)
(* Characters move towards the wire, and none of them gets lost.           *)
(***************************************************************************)
OutTypes(D) ==
  /\ wire \in Seq(D) /\ Pending \in Seq(D) /\ send_buf \in Seq(D)
  /\ Writes \in Seq(D) /\ Echoed \in Seq(D) /\ Awaited \in Seq(D) /\ Replies \in Seq(D)
  /\ Prompting \in Seq(D) /\ Join(Echoed, Awaited) \in Seq(D) /\ Due \in Seq(D)
  /\ Encode(Shown(typing)) \in Seq(D) /\ Unkeyed \in Seq(D)
  /\ Join(Pending, send_buf) \in Seq(D) /\ Sent \in Seq(D)

LEMMA ShownType ==
  ASSUME NEW C, Alphabet(C), NEW s \in Seq(Letters(C))
  PROVE  Shown(s) \in Seq(Letters(C)) /\ Encode(Shown(s)) \in Seq(Letters(C))
<1> DEFINE D == Letters(C)
<1>1. \A i \in 1 .. Len(s) : Newline(s[i]) \in D
  BY ElementOfSeq, NewlineType
<1>2. Shown(s) \in Seq(D)
  <2> HIDE DEF D
  <2> QED BY <1>1 DEF Shown
<1>3. QED
  BY <1>2, LettersOf, EncodeType

LEMMA OutTyped ==
  ASSUME ThreadInv, NEW C, Alphabet(C), TextInv(C), CharInv(C)
  PROVE  OutTypes(Letters(C))
<1> DEFINE D == Letters(C)
<1>1. Prompt \in Seq(D) /\ <<>> \in Seq(D) /\ {"\r", "\n"} \subseteq D
  BY LettersOf
<1>2. wire \in Seq(D) /\ send_buf \in Seq(D) /\ Pending \in Seq(D)
  BY <1>1 DEF CharInv, Pending
<1>3. Prompting \in Seq(D)
  BY <1>1 DEF Prompting
<1>4. Writes \in Seq(D)
  BY <1>3, OutgoingType DEF Writes, CharInv, TextInv
<1>5. Echoed \in Seq(D)
  <2>1. rdrf => <<Newline(rdr)>> \in Seq(D)
    <3>1. rdrf => Newline(rdr) \in D
      BY NewlineType DEF TextInv, Letters
    <3>2. QED
      BY <3>1
  <2>2. QED
    BY <1>1, <2>1, EncodeType DEF Echoed
<1>6. Replies \in Seq(D) /\ Awaited \in Seq(D)
  <2>1. Len(received) < Len(typed) => typed[Len(typed)] \in Seq(C)
    <3>1. Len(received) \in Nat /\ Len(typed) \in Nat /\ typed \in Seq(Lines)
      BY LenProperties DEF TextInv
    <3>2. Len(received) < Len(typed) => typed[Len(typed)] \in Lines
      BY <3>1, ElementOfSeq
    <3>3. QED
      BY <3>2 DEF Alphabet
  <2>2. QED
    BY <1>1, <2>1, OutgoingAnswer DEF Replies, Awaited
<1>7. Encode(Shown(typing)) \in Seq(D)
  <2>1. typing \in Seq(D)
    BY DEF TextInv, Letters
  <2>2. QED
    BY <2>1, ShownType
<1> HIDE DEF D
<1>8. Join(Pending, send_buf) \in Seq(D) /\ Join(Echoed, Awaited) \in Seq(D)
  BY <1>2, <1>5, <1>6, JoinType
<1>9. Sent \in Seq(D) /\ Due \in Seq(D)
  BY <1>2, <1>4, <1>8, JoinType DEF Sent, Due
<1>10. Unkeyed \in Seq(D)
  BY <1>1, <1>6, <1>7, JoinType DEF Unkeyed
<1>11. QED
  BY <1>2, <1>3, <1>4, <1>5, <1>6, <1>7, <1>8, <1>9, <1>10 DEF OutTypes, D

LEMMA RestWritesNone ==
  ASSUME ThreadInv, WorkInv, TodoInv, Rest
  PROVE  NoWrites /\ Writes = <<>>
<1>1. NoWrites
  BY DEF Rest, NoWrites, Copying, Posted, Prompting, TodoInv, WorkInv
<1>2. QED
  BY <1>1, OutgoingNone DEF NoWrites, Writes

(* The string of a request, as its characters go to the send buffer. *)
LEMMA JoinPrinted ==
  \A D : \A w, p, b, x, y \in Seq(D) :
    Join(Join(w, Join(p, Join(b, x))), y) = Join(Join(w, Join(p, b)), Join(x, y))
<1> SUFFICES ASSUME NEW D, NEW w \in Seq(D), NEW p \in Seq(D), NEW b \in Seq(D),
                    NEW x \in Seq(D), NEW y \in Seq(D)
             PROVE  Join(Join(w, Join(p, Join(b, x))), y)
                    = Join(Join(w, Join(p, b)), Join(x, y))
  OBVIOUS
<1>1. Join(p, b) \in Seq(D) /\ Join(w, Join(p, b)) \in Seq(D)
  BY JoinType
<1>2. Join(p, Join(b, x)) = Join(Join(p, b), x)
  BY JoinJoin
<1>3. Join(w, Join(Join(p, b), x)) = Join(Join(w, Join(p, b)), x)
  BY <1>1, JoinJoin
<1>4. QED
  BY <1>1, <1>2, <1>3, JoinJoin

LEMMA SentPrints ==
  ASSUME NEW D, OutTypes(D), NEW x \in Seq(D), NEW y \in Seq(D),
         send_buf' = Join(send_buf, x), UNCHANGED <<tdr, wire>>,
         Due = Join(x, y), Due' = y
  PROVE  Join(Sent, Due)' = Join(Sent, Due)
<1>1. wire \in Seq(D) /\ Pending \in Seq(D) /\ send_buf \in Seq(D)
  BY DEF OutTypes
<1>2. Sent' = Join(wire, Join(Pending, Join(send_buf, x)))
  BY DEF Sent, Pending
<1>3. QED
  BY <1>1, <1>2, JoinPrinted DEF Sent

LEMMA SentLoads ==
  ASSUME NEW D, OutTypes(D), NULL \notin D, DevInv, send_buf # <<>>, Loads, Due' = Due
  PROVE  Join(Sent, Due)' = Join(Sent, Due)
<1>1. send_buf \in Seq(D)
  BY DEF OutTypes
<1>2. Head(send_buf) \in D /\ send_buf = Join(<<Head(send_buf)>>, Tail(send_buf))
  BY <1>1, JoinHead
<1>3. Pending = <<>> /\ Pending' = <<Head(send_buf)>> /\ send_buf' = Tail(send_buf)
  BY <1>2 DEF DevInv, Loads, send_char, Pending
<1>4. Join(Pending, send_buf)' = Join(Pending, send_buf)
  BY <1>1, <1>2, <1>3, JoinNone
<1>5. QED
  BY <1>4 DEF Sent, Loads

LEMMA SentShifts ==
  ASSUME NEW D, OutTypes(D), NEW C, D = Letters(C), CharInv(C), Shifts, Due' = Due
  PROVE  /\ Join(Sent, Due)' = Join(Sent, Due)
         /\ Len(wire) <= Len(wire')
<1>1. /\ wire \in Seq(D) /\ Pending \in Seq(D) /\ send_buf \in Seq(D)
      /\ Len(wire) \in Nat /\ <<>> \in Seq(D)
  BY LenProperties, EmptySeq DEF OutTypes
<1>2. Pending' = <<>> /\ send_buf' = send_buf
  BY DEF Shifts, Pending
<1>3. CASE tdr = NULL
  BY <1>1, <1>2, <1>3 DEF Sent, Shifts, Pending
<1>4. CASE tdr # NULL
  <2>1. tdr \in D /\ Pending = <<tdr>>
    BY <1>4 DEF CharInv, Pending
  <2>2. wire' = Join(wire, <<tdr>>) /\ Len(wire') = Len(wire) + 1
    BY <1>1, <1>4, <2>1, AppendIsConcat, AppendProperties DEF Shifts, Join
  <2>3. <<tdr>> \in Seq(D)
    BY <2>1
  <2>4. Join(Join(wire, <<tdr>>), send_buf) = Join(wire, Join(<<tdr>>, send_buf))
    <3> DEFINE x == <<tdr>>
    <3>1. x \in Seq(D)
      BY <2>3
    <3> HIDE DEF x
    <3>2. Join(Join(wire, x), send_buf) = Join(wire, Join(x, send_buf))
      BY <1>1, <3>1, JoinJoin
    <3>3. QED
      BY <3>2 DEF x
  <2>5. Join(<<>>, send_buf) = send_buf
    BY <1>1, JoinNone
  <2>6. Sent' = Sent
    BY <1>2, <2>1, <2>2, <2>4, <2>5 DEF Sent
  <2>7. QED
    BY <1>1, <2>2, <2>6
<1>5. QED
  BY <1>3, <1>4

(* A step that presses no key moves characters on and loses none. *)
Conserved ==
  /\ Join(Sent, Due)' = Join(Sent, Due)
  /\ Unkeyed' = Unkeyed /\ typed' = typed /\ Len(wire) <= Len(wire')

LEMMA ConservedStill ==
  ASSUME UNCHANGED outVars, Due' = Due, NEW C, CharInv(C)
  PROVE  Join(Sent, Due)' = Join(Sent, Due) /\ Len(wire) <= Len(wire')
<1>1. Len(wire) \in Nat
  BY LenProperties DEF CharInv
<1>2. QED
  BY <1>1 DEF outVars, Sent, Pending

LEMMA RepliesStay ==
  ASSUME UNCHANGED <<received, typistVars>>
  PROVE  Awaited' = Awaited /\ Replies' = Replies /\ Unkeyed' = Unkeyed
BY DEF Awaited, Replies, Unkeyed, typistVars, Answered

(* The line that command_main() takes is the last one that was typed. *)
LEMMA LastLine ==
  ASSUME NEW C, Alphabet(C), ConsInv(C), Running, OneLine, In # <<>>
  PROVE  /\ Len(received) < Len(typed) /\ Len(typed) = Len(received) + 1
         /\ Len(received) \in Nat
         /\ typed[Len(typed)] = Head(In).p.str /\ Head(In).p.str \in Seq(C)
<1>1. /\ Delivery(received, In, typed) /\ Len(received) \in Nat /\ Len(typed) \in Nat
      /\ In \in Seq(Message) /\ Len(In) \in Nat
  BY LinesCounted, FlowLengths DEF ConsInv, IInv
<1>2. Len(received) < Len(typed) /\ Head(In).p.str \in Lines
  BY LinedIsTyped
<1>3. Len(typed) = Len(received) + 1
  <2>1. One(line # NULL) \in {0, 1}
    BY DEF One
  <2>2. QED
    BY <1>1, <1>2, <2>1 DEF OneLine
<1>4. Head(In) = In[1] /\ 1 \in 1 .. Len(In)
  BY <1>1, EmptySeq, LenProperties
<1>5. QED
  BY <1>1, <1>2, <1>3, <1>4 DEF Delivery, Alphabet

LEMMA CommandConserves ==
  ASSUME NEW C, Alphabet(C), Plain(C), PatientInv(C), Running', CharInv(C), CommandOutputs
  PROVE  Conserved
<1> USE ThreadsOfConsole
<1> DEFINE D == Letters(C)
<1>1. /\ ConsInv(C) /\ TypeOK /\ ThreadInv /\ TextInv(C) /\ WorkInv /\ TodoInv
      /\ RestInv /\ OneLine /\ Running /\ OutTypes(D)
  BY OutTyped DEF PatientInv, ConsInv, IInv, Orderly, Lively
<1>2. /\ Copying \in Seq(C) /\ Posted \in Seq(C) /\ todo \in Seq(Seq(C))
      /\ Prompting \in Seq(D) /\ Echoed \in Seq(D) /\ Awaited \in Seq(D) /\ Replies \in Seq(D)
  BY <1>1 DEF CharInv, TextInv, OutTypes
<1>3. UNCHANGED outVars /\ UNCHANGED typistVars /\ Echoed' = Echoed /\ typed' = typed
  BY DEF CommandOutputs, CommandDoes, devVars, typistVars, Echoed
<1>4. /\ received' = received => Awaited' = Awaited /\ Unkeyed' = Unkeyed
  BY <1>3, RepliesStay
<1>5. CASE WritesStay /\ received' = received
  <2>1. Due' = Due
    BY <1>3, <1>4, <1>5 DEF WritesStay, Due, Writes
  <2>2. QED
    BY <1>3, <1>4, <1>5, <2>1, ConservedStill DEF Conserved
<1>6. CASE Posts /\ received' = received
  <2>1. Writes' = Writes
    BY <1>2, <1>6, OutgoingMoves DEF Posts, Writes
  <2>2. Due' = Due
    BY <1>3, <1>4, <1>6, <2>1 DEF Due
  <2>3. QED
    BY <1>3, <1>4, <1>6, <2>2, ConservedStill DEF Conserved
<1>7. CASE Reprompts /\ received' = received
  <2>1. Writes' = Writes
    BY <1>7, OutgoingPrompt DEF Reprompts, Writes
  <2>2. Due' = Due
    BY <1>3, <1>4, <1>7, <2>1 DEF Due
  <2>3. QED
    BY <1>3, <1>4, <1>7, <2>2, ConservedStill DEF Conserved
<1>8. CASE Answers /\ pc[Command] = "got"
  <2> DEFINE l == Head(In).p.str
  <2>1. /\ Len(received) < Len(typed) /\ Len(typed) = Len(received) + 1
        /\ Len(received) \in Nat /\ typed[Len(typed)] = l /\ l \in Seq(C)
    BY <1>1, <1>8, LastLine DEF Answers
  <2>2. typing = <<>> /\ ~rdrf
    <3>1. Coming = <<>>
      BY <1>1, <1>8 DEF RestInv, Rest, Answers
    <3>2. QED
      BY <1>1, <3>1, HeadTailOfPair DEF Coming, TextInv
  <2>3. Awaited = Answered(l)
    BY <2>1, <2>2 DEF Awaited, Replies
  <2>4. Replies' = <<>> /\ Awaited' = <<>> /\ Unkeyed' = Unkeyed
    <3>1. Len(received') = Len(received) + 1
      BY <1>1, <1>8, <2>1, AppendProperties DEF Answers, TextInv
    <3>2. Replies' = <<>> /\ Awaited' = <<>>
      BY <1>3, <2>1, <3>1 DEF Replies, Awaited
    <3>3. QED
      BY <1>3, <2>2, <3>2 DEF Unkeyed, typistVars
  <2>5. Writes = <<>> /\ Writes' = Answered(l) /\ Answered(l) \in Seq(D)
    BY <1>8, <2>1, OutgoingNone, OutgoingAnswer DEF Answers, NoWrites, Writes
  <2>6. Echoed = <<>> /\ Echoed' = <<>>
    BY <1>3, <2>2 DEF Echoed
  <2>7. Due' = Due
    <3> DEFINE a == Answered(l)
    <3>1. a \in Seq(D)
      BY <2>5
    <3> HIDE DEF a
    <3>2. Join(<<>>, Join(<<>>, a)) = a /\ Join(a, Join(<<>>, <<>>)) = a
      BY <3>1, JoinNone, EmptySeq
    <3>3. Due = Join(<<>>, Join(<<>>, a)) /\ Due' = Join(a, Join(<<>>, <<>>))
      BY <2>3, <2>4, <2>5, <2>6 DEF Due, a
    <3>4. QED
      BY <3>2, <3>3
  <2>8. QED
    BY <1>3, <2>4, <2>7, ConservedStill DEF Conserved
<1>9. QED
  BY <1>1, <1>5, <1>6, <1>7, <1>8, CommandMoves DEF CommandOutputs

LEMMA ConsdrvConserves ==
  ASSUME NEW C, Alphabet(C), Plain(C), PatientInv(C), DevInv, CharInv(C), ConsdrvOutputs
  PROVE  Conserved
<1> USE ThreadsOfConsole
<1> DEFINE D == Letters(C)
<1>1. /\ ConsInv(C) /\ TypeOK /\ ThreadInv /\ TextInv(C) /\ WorkInv /\ OneRequest /\ StageInv
      /\ Running /\ OutTypes(D) /\ ConsdrvDoes
  BY OutTyped DEF PatientInv, ConsInv, IInv, Orderly, Lively, ConsdrvOutputs
<1>2. /\ Copying \in Seq(C) /\ Posted \in Seq(C) /\ todo \in Seq(Seq(C))
      /\ Prompting \in Seq(D) /\ Echoed \in Seq(D) /\ Awaited \in Seq(D)
      /\ Join(Echoed, Awaited) \in Seq(D)
  BY <1>1 DEF CharInv, TextInv, OutTypes
<1>3. UNCHANGED typistVars /\ Awaited' = Awaited /\ Unkeyed' = Unkeyed /\ typed' = typed
  BY <1>1, RepliesStay DEF ConsdrvDoes, typistVars
<1>4. pc[Consdrv] # "serial_init" => Echoed' = Echoed
  BY <1>1 DEF ConsdrvDoes, Goes, Moved, devVars, Echoed
<1>5. CASE pc[Consdrv] \in {"setintr", "serial_init"}
  <2>1. Fresh
    BY <1>1, <1>5 DEF StageInv, Asks, Asked, Opened, InUse, Opens
  <2>2. send_buf' = send_buf /\ Pending' = Pending /\ wire' = wire
    BY <1>5, <2>1 DEF ConsdrvOutputs, Fresh, DevInv, Pending
  <2>3. Echoed' = Echoed
    BY <1>1, <1>5, <2>1 DEF ConsdrvDoes, Goes, Moved, devVars, Echoed, Fresh
  <2>4. WritesStay
    BY <1>1, <1>5, ConsdrvMoves
  <2>5. Due' = Due
    BY <1>3, <2>3, <2>4 DEF Due, WritesStay, Writes
  <2>6. Join(Sent, Due)' = Join(Sent, Due)
    BY <2>2, <2>5 DEF Sent
  <2>7. Len(wire) \in Nat
    BY LenProperties DEF CharInv
  <2>8. QED
    BY <1>3, <2>2, <2>6, <2>7 DEF Conserved
<1>6. CASE pc[Consdrv] = "copy"
  <2>1. Copies /\ Copying = req.str /\ Prints(req.str)
    BY <1>1, <1>6, ConsdrvMoves DEF ConsdrvOutputs
  <2> DEFINE x == Encode(Copying)
             y == Join(Outgoing(<<>>, Posted, todo, Prompting), Join(Echoed, Awaited))
  <2>2. x \in Seq(D) /\ Outgoing(<<>>, Posted, todo, Prompting) \in Seq(D)
    BY <1>2, OutgoingType, EmptySeq
  <2>3. Writes = Join(x, Outgoing(<<>>, Posted, todo, Prompting))
    BY <1>2, OutgoingMoves DEF Writes
  <2>4. Due = Join(x, y) /\ y \in Seq(D)
    BY <1>2, <2>2, <2>3, JoinJoin, JoinType DEF Due
  <2>5. Due' = y
    BY <1>3, <1>4, <1>6, <2>1 DEF Due, Writes, Copies
  <2>6. send_buf' = Join(send_buf, x) /\ UNCHANGED <<tdr, wire>>
    BY <2>1 DEF Prints, Join
  <2> HIDE DEF x, y
  <2>7. Join(Sent, Due)' = Join(Sent, Due)
    BY <1>1, <2>2, <2>4, <2>5, <2>6, SentPrints
  <2>8. Len(wire) \in Nat
    BY LenProperties DEF CharInv
  <2>9. QED
    BY <1>3, <2>6, <2>7, <2>8 DEF Conserved
<1>7. CASE pc[Consdrv] \notin {"setintr", "serial_init", "copy"}
  <2>1. Writes' = Writes
    <3>1. WritesStay \/ Fetches
      BY <1>1, <1>7, ConsdrvMoves
    <3>2. QED
      BY <1>2, <3>1, OutgoingMoves DEF WritesStay, Fetches, Writes
  <2>2. Due' = Due
    BY <1>3, <1>4, <1>7, <2>1 DEF Due
  <2>3. CASE pc[Consdrv] = "kick"
    <3>1. Loads /\ send_buf # <<>>
      BY <2>3 DEF ConsdrvOutputs, DevInv
    <3>2. Join(Sent, Due)' = Join(Sent, Due)
      BY <1>1, <2>2, <3>1, SentLoads DEF Plain
    <3>3. Len(wire) \in Nat
      BY LenProperties DEF CharInv
    <3>4. QED
      BY <1>3, <3>1, <3>2, <3>3 DEF Conserved, Loads
  <2>4. CASE pc[Consdrv] # "kick"
    <3>1. UNCHANGED outVars
      BY <1>7, <2>4 DEF ConsdrvOutputs
    <3>2. QED
      BY <1>3, <2>2, <3>1, ConservedStill DEF Conserved
  <2>5. QED
    BY <2>3, <2>4
<1>8. QED
  BY <1>5, <1>6, <1>7

LEMMA HandlerConserves ==
  ASSUME NEW C, Alphabet(C), Plain(C), PatientInv(C), DevInv, CharInv(C), HandlerOutputs
  PROVE  Conserved
<1> DEFINE D == Letters(C)
<1>1. /\ ConsInv(C) /\ TypeOK /\ ThreadInv /\ TextInv(C) /\ WorkInv /\ RestInv /\ TodoInv
      /\ Running /\ OutTypes(D) /\ HandlerDoes /\ RegsInv
  BY OutTyped DEF PatientInv, ConsInv, IInv, Orderly, Lively, HandlerOutputs
<1>2. /\ Echoed \in Seq(D) /\ Awaited \in Seq(D) /\ <<>> \in Seq(D)
  BY <1>1, EmptySeq DEF OutTypes
<1>3. UNCHANGED typistVars /\ Awaited' = Awaited /\ Unkeyed' = Unkeyed /\ typed' = typed
  BY <1>1, RepliesStay DEF HandlerDoes, typistVars
<1>4. Writes' = Writes
  BY <1>1, OutsideMoves DEF WritesStay, Writes
<1>5. rdrf' = rdrf => Due' = Due
  <2>1. rdrf' = rdrf => Echoed' = Echoed
    BY <1>1 DEF HandlerDoes, Echoed
  <2>2. QED
    BY <1>3, <1>4, <2>1 DEF Due
<1>6. Len(wire) \in Nat
  BY LenProperties DEF CharInv
<1>7. CASE rdrf /\ ~rdrf' /\ Prints(<<Newline(rdr)>>)
  <2>1. Writes = <<>>
    <3>1. Coming # <<>>
      BY <1>1, <1>7, HeadTailOfPair DEF Coming, TextInv
    <3>2. QED
      BY <1>1, <3>1, RestWritesNone DEF RestInv
  <2>2. Echoed = Encode(<<Newline(rdr)>>) /\ Echoed' = <<>>
    BY <1>7 DEF Echoed
  <2>3. Due = Join(Echoed, Awaited) /\ Due' = Awaited
    <3>1. Join(Echoed, Awaited) \in Seq(D)
      BY <1>2, JoinType
    <3>2. Join(<<>>, Join(Echoed, Awaited)) = Join(Echoed, Awaited)
      BY <3>1, JoinNone
    <3>3. Join(<<>>, Join(<<>>, Awaited)) = Awaited
      BY <1>2, JoinNone
    <3>4. QED
      BY <1>3, <1>4, <2>1, <2>2, <3>2, <3>3 DEF Due
  <2>4. send_buf' = Join(send_buf, Echoed) /\ UNCHANGED <<tdr, wire>>
    BY <1>7, <2>2 DEF Prints, Join
  <2>5. Join(Sent, Due)' = Join(Sent, Due)
    BY <1>1, <1>2, <2>3, <2>4, SentPrints
  <2>6. QED
    BY <1>3, <1>6, <2>4, <2>5 DEF Conserved
<1>8. CASE Loads /\ send_buf # <<>> /\ rdrf' = rdrf
  <2>1. Join(Sent, Due)' = Join(Sent, Due)
    BY <1>1, <1>5, <1>8, SentLoads DEF Plain
  <2>2. QED
    BY <1>3, <1>6, <1>8, <2>1 DEF Conserved, Loads
<1>9. CASE UNCHANGED outVars /\ rdrf' = rdrf
  BY <1>3, <1>5, <1>9, ConservedStill DEF Conserved
<1>10. QED
  BY <1>7, <1>8, <1>9 DEF HandlerOutputs, Serves, DevInv

LEMMA OthersConserve ==
  ASSUME NEW C, Alphabet(C), Plain(C), PatientInv(C), CharInv(C), OthersOutput
  PROVE  Conserved
<1> DEFINE D == Letters(C)
<1>1. ThreadInv /\ TextInv(C) /\ OutTypes(D) /\ OthersDo
  BY OutTyped DEF PatientInv, ConsInv, OthersOutput
<1>2. UNCHANGED typistVars /\ Awaited' = Awaited /\ Unkeyed' = Unkeyed /\ typed' = typed
  BY <1>1, RepliesStay DEF OthersOutput, OthersDo, typistVars
<1>3. Due' = Due
  <2>1. Writes' = Writes /\ Echoed' = Echoed
    BY <1>1, OutsideMoves DEF WritesStay, Writes, Echoed, OthersOutput
  <2>2. QED
    BY <1>2, <2>1 DEF Due
<1>4. CASE Shifts
  BY <1>1, <1>2, <1>3, <1>4, SentShifts DEF Conserved
<1>5. CASE UNCHANGED outVars
  BY <1>2, <1>3, <1>5, ConservedStill DEF Conserved
<1>6. QED
  BY <1>4, <1>5 DEF OthersOutput

LEMMA NothingIsLost ==
  ASSUME NEW C, Alphabet(C), Plain(C), PatientInv(C), PatientInv(C)', DevInv, CharInv(C),
         OutputDoes
  PROVE  Conserved \/ KeyOutput
<1>1. Running'
  BY DEF PatientInv, Lively
<1>2. QED
  BY <1>1, CommandConserves, ConsdrvConserves, HandlerConserves, OthersConserve DEF OutputDoes

(***************************************************************************)
(* The typist's keys, and the transcript.                                  *)
(***************************************************************************)
LEMMA ShownUnfolds ==
  ASSUME NEW C, Alphabet(C), NEW t \in Seq(Letters(C)), t # <<>>
  PROVE  /\ Head(t) \in Letters(C) /\ Tail(t) \in Seq(Letters(C))
         /\ Encode(Shown(t)) = Join(Encode(<<Newline(Head(t))>>), Encode(Shown(Tail(t))))
<1> DEFINE D == Letters(C)
           h == Head(t)
           u == Tail(t)
<1>1. h \in D /\ u \in Seq(D) /\ Len(t) \in Nat /\ Len(t) = Len(u) + 1
      /\ t[1] = h /\ \A i \in 1 .. Len(u) : u[i] = t[i + 1]
  <2>1. t \in Seq(D)
    OBVIOUS
  <2> HIDE DEF D
  <2>2. h \in D /\ u \in Seq(D) /\ Len(t) \in Nat /\ Len(u) \in Nat /\ Len(t) # 0
    BY <2>1, HeadTailProperties, LenProperties, EmptySeq
  <2>3. /\ Len(u) = Len(t) - 1 /\ h = t[1]
        /\ \A i \in 1 .. Len(u) : u[i] = t[i + 1]
    BY <2>1, HeadTailProperties
  <2>4. QED
    BY <2>2, <2>3
<1>2. Newline(h) \in D /\ Shown(u) \in Seq(D) /\ Shown(t) \in Seq(D)
  BY <1>1, NewlineType, ShownType
<1> HIDE DEF D, h, u
<1>3. <<Newline(h)>> \in Seq(D)
  BY <1>2
<1>4. Shown(t) = Join(<<Newline(h)>>, Shown(u))
  <2>1. /\ Len(Shown(t)) = Len(u) + 1 /\ Len(Shown(u)) = Len(u) /\ Len(u) \in Nat
        /\ \A i \in 1 .. Len(u) + 1 : Shown(t)[i] = Newline(t[i])
        /\ \A i \in 1 .. Len(u) : Shown(u)[i] = Newline(u[i])
    BY <1>1, LenProperties DEF Shown
  <2> DEFINE x == <<Newline(h)>>
             y == Shown(u)
  <2>2. x \in Seq(D) /\ y \in Seq(D) /\ Len(x) = 1 /\ x[1] = Newline(h) /\ Len(y) = Len(u)
    BY <1>2, <1>3, <2>1
  <2> HIDE DEF x, y
  <2>3. /\ x \o y \in Seq(D) /\ Len(x \o y) = Len(u) + 1
        /\ \A i \in 1 .. Len(u) + 1 : (x \o y)[i] = IF i <= 1 THEN x[i] ELSE y[i - 1]
    <3>1. /\ x \o y \in Seq(D) /\ Len(x \o y) = Len(x) + Len(y)
          /\ \A i \in 1 .. Len(x) + Len(y) :
               (x \o y)[i] = IF i <= Len(x) THEN x[i] ELSE y[i - Len(x)]
      BY <2>2, ConcatProperties
    <3>2. Len(x) + Len(y) = Len(u) + 1
      BY <2>1, <2>2
    <3>3. QED
      BY <2>2, <3>1, <3>2
  <2>4. ASSUME NEW i \in 1 .. Len(u) + 1 PROVE Shown(t)[i] = (x \o y)[i]
    <3>1. CASE i = 1
      BY <1>1, <2>1, <2>2, <2>3, <3>1
    <3>2. CASE i # 1
      <4>1. PICK j \in 1 .. Len(u) : i = j + 1
        BY <2>1, <3>2
      <4>2. (x \o y)[i] = y[j] /\ Shown(t)[i] = Newline(t[j + 1])
        BY <2>1, <2>3, <4>1
      <4>3. QED
        BY <1>1, <2>1, <4>1, <4>2 DEF y
    <3>3. QED
      BY <3>1, <3>2
  <2>5. Shown(t) = x \o y
    BY <1>2, <2>1, <2>3, <2>4, SeqEqual
  <2>6. QED
    BY <2>5 DEF Join, x, y
<1>5. Encode(Shown(t)) = Join(Encode(<<Newline(h)>>), Encode(Shown(u)))
  <2>1. {"\r", "\n"} \subseteq D
    BY LettersOf DEF D
  <2> DEFINE x == <<Newline(h)>>
             y == Shown(u)
  <2>2. x \in Seq(D) /\ y \in Seq(D)
    BY <1>2, <1>3
  <2> HIDE DEF x, y
  <2>3. Encode(Join(x, y)) = Join(Encode(x), Encode(y))
    BY <2>1, <2>2, JoinEncoded
  <2>4. QED
    BY <1>4, <2>3 DEF x, y
<1>6. QED
  BY <1>1, <1>5 DEF D, h, u

(* A key is pressed: its character is on its way. *)
LEMMA KeySplits ==
  ASSUME NEW C, Alphabet(C), NEW t \in Seq(Letters(C)), t # <<>>, NEW r \in Seq(Letters(C)),
         NEW x, x = Encode(<<Newline(Head(t))>>), NEW y, y = Encode(Shown(Tail(t)))
  PROVE  Join(Join(x, IF Tail(t) = <<>> THEN r ELSE <<>>),
              Join(y, IF Tail(t) = <<>> THEN <<>> ELSE r)) = Join(Encode(Shown(t)), r)
<1> DEFINE D == Letters(C)
<1>1. x \in Seq(D) /\ y \in Seq(D) /\ Encode(Shown(t)) = Join(x, y)
  <2>1. Head(t) \in D /\ Tail(t) \in Seq(D)
    BY ShownUnfolds
  <2>2. Newline(Head(t)) \in D
    BY <2>1, NewlineType
  <2>3. <<Newline(Head(t))>> \in Seq(D)
    BY <2>2
  <2>4. QED
    BY <2>1, <2>3, LettersOf, EncodeType, ShownType, ShownUnfolds
<1> HIDE DEF D
<1>2. r \in Seq(D)
  BY DEF D
<1>3. CASE Tail(t) = <<>>
  <2>1. y = <<>>
    <3>1. Shown(<<>>) = <<>>
      BY DEF Shown
    <3>2. QED
      BY <1>3, <3>1, EncodeNone
  <2>2. Join(x, r) \in Seq(D) /\ <<>> \in Seq(D)
    BY <1>1, <1>2, JoinType, EmptySeq
  <2>3. Join(<<>>, <<>>) = <<>> /\ Join(x, <<>>) = x /\ Join(Join(x, r), <<>>) = Join(x, r)
    BY <1>1, <2>2, JoinNone
  <2>4. QED
    BY <1>1, <1>3, <2>1, <2>3
<1>4. CASE Tail(t) # <<>>
  <2>1. Join(x, <<>>) = x /\ Join(x, Join(y, r)) = Join(Join(x, y), r)
    BY <1>1, <1>2, JoinNone, JoinJoin
  <2>2. QED
    BY <1>1, <1>4, <2>1
<1>5. QED
  BY <1>3, <1>4

LEMMA ShownLine ==
  ASSUME NEW l \in Lines, NEW C, Alphabet(C)
  PROVE  /\ Append(l, "\r") \in Seq(Letters(C)) /\ Append(l, "\r") # <<>>
         /\ Shown(Append(l, "\r")) = l \o <<"\n">>
<1> DEFINE D == Letters(C)
           t == Append(l, "\r")
<1>1. l \in Seq(D) /\ "\r" \in D /\ "\n" \in D
  BY LettersOf DEF Alphabet
<1>2. /\ t \in Seq(D) /\ Len(t) = Len(l) + 1 /\ Len(l) \in Nat /\ t # <<>>
      /\ t[Len(l) + 1] = "\r" /\ \A i \in 1 .. Len(l) : t[i] = l[i]
  <2> HIDE DEF D
  <2> QED BY <1>1, AppendProperties, LenProperties
<1>3. \A i \in 1 .. Len(l) : l[i] # "\r"
  BY ConsoleAssumption
<1> HIDE DEF t
<1>4. /\ Shown(t) \in Seq(D) /\ Len(Shown(t)) = Len(l) + 1
      /\ \A i \in 1 .. Len(l) + 1 : Shown(t)[i] = Newline(t[i])
  <2>1. Shown(t) \in Seq(D)
    BY <1>2, ShownType
  <2>2. QED
    BY <1>2, <2>1 DEF Shown
<1> HIDE DEF D
<1>5. /\ Append(l, "\n") \in Seq(D) /\ Len(Append(l, "\n")) = Len(l) + 1
      /\ Append(l, "\n")[Len(l) + 1] = "\n"
      /\ \A i \in 1 .. Len(l) : Append(l, "\n")[i] = l[i]
  BY <1>1, AppendProperties
<1>6. \A i \in 1 .. Len(l) + 1 : Shown(t)[i] = Append(l, "\n")[i]
  BY <1>2, <1>3, <1>4, <1>5 DEF Newline
<1>7. Shown(t) = Append(l, "\n")
  BY <1>4, <1>5, <1>6, SeqEqual
<1>8. Append(l, "\n") = l \o <<"\n">>
  BY <1>1, AppendIsConcat
<1>9. QED
  BY <1>2, <1>7, <1>8 DEF D, t

(* What the transcript tells of a line. *)
Exchange(l)  == Join(Encode(Shown(Append(l, "\r"))), Answered(l))
Exchanges(T) == [i \in 1 .. Len(T) |-> Exchange(T[i])]

LEMMA ExchangeType ==
  ASSUME NEW C, Alphabet(C), NEW D, D = Letters(C), NEW l \in Lines
  PROVE  /\ Encode(Shown(Append(l, "\r"))) \in Seq(D) /\ Answered(l) \in Seq(D)
         /\ Exchange(l) \in Seq(D)
<1>1. Encode(Shown(Append(l, "\r"))) \in Seq(D)
  BY ShownLine, ShownType
<1>2. Answered(l) \in Seq(D)
  BY OutgoingAnswer DEF Alphabet
<1>3. QED
  BY <1>1, <1>2, JoinType DEF Exchange

LEMMA ExchangesType ==
  ASSUME NEW C, Alphabet(C), NEW D, D = Letters(C), NEW T \in Seq(Lines)
  PROVE  /\ Exchanges(T) \in Seq(Seq(D)) /\ FlattenSeq(Exchanges(T)) \in Seq(D)
         /\ Len(Exchanges(T)) = Len(T) /\ Len(T) \in Nat
         /\ \A i \in 1 .. Len(T) : Exchanges(T)[i] = Exchange(T[i])
<1>1. \A i \in 1 .. Len(T) : Exchange(T[i]) \in Seq(D)
  BY ElementOfSeq, ExchangeType
<1>2. Exchanges(T) \in Seq(Seq(D)) /\ Len(Exchanges(T)) = Len(T) /\ Len(T) \in Nat
  BY <1>1 DEF Exchanges
<1>3. QED
  BY <1>2, FlattenType DEF Exchanges

LEMMA TranscriptIs ==
  ASSUME NEW C, Alphabet(C), TextInv(C)
  PROVE  Transcript = Join(Prompt, FlattenSeq(Exchanges(typed)))
<1> DEFINE R(l) == Encode(l \o <<"\n">>) \o Encode(FlattenSeq(Answer(l))) \o Prompt
           D == Letters(C)
<1>1. ASSUME NEW l \in Lines PROVE R(l) = Exchange(l)
  <2> DEFINE x == Encode(l \o <<"\n">>)
             y == Encode(FlattenSeq(Answer(l)))
  <2>1. x \in Seq(D) /\ x = Encode(Shown(Append(l, "\r")))
    <3>1. x = Encode(Shown(Append(l, "\r")))
      BY ShownLine
    <3>2. QED
      BY <3>1, ExchangeType
  <2>2. y \in Seq(D) /\ Prompt \in Seq(D)
    BY AnswerType, LettersOf, OutgoingType DEF Alphabet
  <2>3. R(l) = Join(Join(x, y), Prompt)
    BY DEF Join
  <2>4. Exchange(l) = Join(x, Join(y, Prompt))
    BY <2>1 DEF Exchange, Answered
  <2> HIDE DEF x, y, D, R
  <2>5. QED
    BY <2>1, <2>2, <2>3, <2>4, JoinJoin
<1>2. typed \in Seq(Lines)
  BY DEF TextInv
<1>3. \A i \in 1 .. Len(typed) : typed[i] \in Lines
  BY <1>2, ElementOfSeq
<1>4. [i \in 1 .. Len(typed) |-> R(typed[i])] = Exchanges(typed)
  <2> HIDE DEF R
  <2> QED BY <1>1, <1>3 DEF Exchanges
<1>5. Transcript = Prompt \o FlattenSeq([i \in 1 .. Len(typed) |-> R(typed[i])])
  BY DEF Transcript
<1>6. QED
  BY <1>4, <1>5 DEF Join

LEMMA ExchangesGrow ==
  ASSUME NEW C, Alphabet(C), NEW T \in Seq(Lines), NEW l \in Lines
  PROVE  FlattenSeq(Exchanges(Append(T, l)))
         = Join(FlattenSeq(Exchanges(T)), Exchange(l))
<1> DEFINE D == Letters(C)
           U == Append(T, l)
<1>1. /\ U \in Seq(Lines) /\ Len(U) = Len(T) + 1
      /\ U[Len(T) + 1] = l /\ \A i \in 1 .. Len(T) : U[i] = T[i]
  BY AppendProperties
<1>2. /\ Exchanges(T) \in Seq(Seq(D)) /\ Len(Exchanges(T)) = Len(T) /\ Len(T) \in Nat
      /\ \A i \in 1 .. Len(T) : Exchanges(T)[i] = Exchange(T[i])
  BY ExchangesType
<1>3. /\ Exchanges(U) \in Seq(Seq(D)) /\ Len(Exchanges(U)) = Len(U)
      /\ \A i \in 1 .. Len(U) : Exchanges(U)[i] = Exchange(U[i])
  BY <1>1, ExchangesType
<1>4. Exchange(l) \in Seq(D)
  BY ExchangeType
<1> HIDE DEF U
<1>5. Exchanges(U) = Append(Exchanges(T), Exchange(l))
  <2> DEFINE E == Seq(D)
             x == Exchanges(T)
             y == Exchange(l)
             z == Append(x, y)
  <2>1. x \in Seq(E) /\ y \in E /\ Exchanges(U) \in Seq(E) /\ Len(x) = Len(T)
    BY <1>2, <1>3, <1>4
  <2> HIDE DEF E, x, y, z
  <2>2. /\ z \in Seq(E) /\ Len(z) = Len(x) + 1 /\ z[Len(x) + 1] = y
        /\ \A i \in 1 .. Len(x) : z[i] = x[i]
    BY <2>1, AppendProperties DEF z
  <2>3. ASSUME NEW i \in 1 .. Len(T) + 1 PROVE Exchanges(U)[i] = z[i]
    <3>1. CASE i \in 1 .. Len(T)
      BY <1>1, <1>2, <1>3, <2>1, <2>2, <3>1 DEF x
    <3>2. CASE i = Len(T) + 1
      BY <1>1, <1>3, <2>1, <2>2, <3>2 DEF y
    <3>3. QED
      BY <1>2, <3>1, <3>2
  <2>4. Exchanges(U) = z
    BY <1>1, <1>3, <2>1, <2>2, <2>3, SeqEqual
  <2>5. QED
    BY <2>4 DEF x, y, z
<1>6. FlattenSeq(Append(Exchanges(T), Exchange(l))) = FlattenSeq(Exchanges(T)) \o Exchange(l)
  BY <1>2, <1>4, FlattenMore
<1>7. QED
  BY <1>5, <1>6 DEF Join, U

(***************************************************************************)
(* The output of a patient typist is the transcript.                       *)
(***************************************************************************)
OutInv == Join(Sent, Join(Due, Unkeyed)) = Transcript

(* What the step lemmas need of both states. *)
Spelled(D) ==
  OutTypes(D) /\ Transcript = Join(Prompt, FlattenSeq(Exchanges(typed)))

LEMMA OutConserved ==
  ASSUME NEW D, OutTypes(D), OutTypes(D)', Conserved, OutInv
  PROVE  OutInv'
<1> DEFINE s == Sent'
           d == Due'
<1>1. Sent \in Seq(D) /\ Due \in Seq(D) /\ Unkeyed \in Seq(D)
  BY DEF OutTypes
<1>2. s \in Seq(D) /\ d \in Seq(D)
  BY DEF OutTypes
<1>3. Join(s, d) = Join(Sent, Due) /\ Unkeyed' = Unkeyed /\ Transcript' = Transcript
  BY DEF Conserved, Transcript, Answer, Encode
<1>4. OutInv' <=> Join(s, Join(d, Unkeyed)) = Transcript
  BY <1>3 DEF OutInv
<1> HIDE DEF s, d
<1>5. Join(Join(s, d), Unkeyed) = Join(s, Join(d, Unkeyed))
  BY <1>1, <1>2, JoinJoin
<1>6. Join(Join(Sent, Due), Unkeyed) = Join(Sent, Join(Due, Unkeyed))
  BY <1>1, JoinJoin
<1>7. QED
  BY <1>3, <1>4, <1>5, <1>6 DEF OutInv

(* What the console owes after the first key of t, if the line is worth r. *)
LEMMA KeyOwes ==
  ASSUME NEW C, Alphabet(C), NEW D, D = Letters(C), NEW t \in Seq(D), t # <<>>,
         NEW r \in Seq(D), rdrf', rdr' = Head(t), typing' = Tail(t), Replies' = r,
         Writes' = <<>>
  PROVE  Join(Due, Unkeyed)' = Join(Encode(Shown(t)), r)
<1> DEFINE x == Encode(<<Newline(Head(t))>>)
           y == Encode(Shown(Tail(t)))
           a == IF Tail(t) = <<>> THEN r ELSE <<>>
           b == IF Tail(t) = <<>> THEN <<>> ELSE r
<1>1. Echoed' = x /\ Awaited' = a /\ Unkeyed' = Join(y, b)
  BY DEF Echoed, Awaited, Unkeyed, Shown, Encode, Newline
<1>2. x \in Seq(D) /\ a \in Seq(D)
  <2>1. Head(t) \in D
    BY ShownUnfolds
  <2>2. Newline(Head(t)) \in D
    BY <2>1, NewlineType
  <2>3. <<Newline(Head(t))>> \in Seq(D)
    BY <2>2
  <2>4. QED
    BY <2>3, LettersOf, EncodeType, EmptySeq
<1>3. Join(Join(x, a), Join(y, b)) = Join(Encode(Shown(t)), r)
  BY KeySplits
<1> HIDE DEF x, y, a, b
<1>4. Due' = Join(x, a)
  <2>1. Join(x, a) \in Seq(D)
    BY <1>2, JoinType
  <2>2. Join(<<>>, Join(x, a)) = Join(x, a)
    BY <2>1, JoinNone
  <2>3. QED
    BY <1>1, <2>2 DEF Due
<1>5. QED
  BY <1>1, <1>3, <1>4

(* At a key press, everything but the rest of the line is on the wire. *)
LEMMA QuietOwes ==
  ASSUME NEW C, Alphabet(C), PatientInv(C), NEW D, D = Letters(C), OutTypes(D),
         Rest, mode = "user", ~rdrf
  PROVE  /\ Writes = <<>> /\ Echoed = <<>> /\ Due = Awaited
         /\ typing = <<>> => Replies = <<>> /\ Unkeyed = <<>> /\ Len(received) = Len(typed)
<1>1. /\ ConsInv(C) /\ TypeOK /\ ThreadInv /\ TextInv(C) /\ WorkInv /\ RegsInv /\ LineInv
      /\ TodoInv /\ Running /\ IInv
  BY DEF PatientInv, ConsInv, IInv, Orderly, Lively
<1>2. Writes = <<>> /\ Echoed = <<>>
  BY <1>1, RestWritesNone DEF Echoed
<1>3. Due = Awaited
  <2>1. Awaited \in Seq(D)
    BY DEF OutTypes
  <2>2. Join(<<>>, Join(<<>>, Awaited)) = Awaited
    BY <2>1, JoinNone
  <2>3. QED
    BY <1>2, <2>2 DEF Due
<1>4. ASSUME typing = <<>>
      PROVE  Replies = <<>> /\ Unkeyed = <<>> /\ Len(received) = Len(typed)
  <2>1. /\ Len(typed) = Len(received) + Len(In) + One(Ended) + One(Coming # <<>>)
        /\ Len(typed) \in Nat /\ Len(received) \in Nat /\ Len(In) \in Nat
    BY <1>1, LinesCounted
  <2>2. Coming = <<>> /\ ~Ended /\ Len(In) = 0
    BY <1>1, <1>4, FlowLengths DEF Coming, Ended, HasCh, RegsInv, Rest
  <2>3. Len(received) = Len(typed)
    BY <2>1, <2>2 DEF One
  <2>4. Replies = <<>>
    BY <2>1, <2>3 DEF Replies
  <2>5. Unkeyed = <<>>
    <3>1. Shown(<<>>) = <<>>
      BY DEF Shown
    <3>2. Join(<<>>, <<>>) = <<>>
      BY JoinNone, EmptySeq
    <3>3. QED
      BY <1>4, <3>1, <3>2, EncodeNone DEF Unkeyed
  <2>6. QED
    BY <2>3, <2>4, <2>5
<1>5. QED
  BY <1>2, <1>3, <1>4

LEMMA OutKeyed ==
  ASSUME NEW C, Alphabet(C), PatientInv(C), NEW D, D = Letters(C), Spelled(D), Spelled(D)',
         OutInv, KeyOutput
  PROVE  OutInv'
<1>1. /\ Rest /\ mode = "user" /\ ~rdrf /\ rdrf' /\ OthersDo
      /\ UNCHANGED outVars /\ received' = received
  BY DEF KeyOutput, Quiet, OthersDo
<1>2. /\ Writes = <<>> /\ Due = Awaited
      /\ typing = <<>> => Replies = <<>> /\ Unkeyed = <<>> /\ Len(received) = Len(typed)
  BY <1>1, QuietOwes DEF Spelled
<1>3. Writes' = <<>> /\ Sent' = Sent
  <2>1. WritesStay
    BY <1>1, OutsideMoves
  <2>2. QED
    BY <1>1, <1>2, <2>1 DEF WritesStay, Writes, outVars, Sent, Pending
<1>4. Sent \in Seq(D) /\ Unkeyed \in Seq(D) /\ Replies \in Seq(D)
  BY DEF Spelled, OutTypes
<1>5. CASE /\ typing # <<>> /\ UNCHANGED typed
           /\ rdr' = Head(typing) /\ typing' = Tail(typing)
  <2>1. Replies' = Replies /\ Transcript' = Transcript
    BY <1>1, <1>5 DEF Replies, Transcript, Answer, Encode, Answered
  <2>2. typing \in Seq(D)
    BY DEF PatientInv, ConsInv, TextInv, Letters
  <2>3. Join(Due, Unkeyed)' = Join(Encode(Shown(typing)), Replies)
    BY <1>1, <1>3, <1>4, <1>5, <2>1, <2>2, KeyOwes
  <2>4. Unkeyed = Join(Encode(Shown(typing)), Replies)
    BY <1>5 DEF Unkeyed
  <2>5. Join(Due, Unkeyed) = Unkeyed
    <3>1. Due = <<>>
      BY <1>2, <1>5 DEF Awaited
    <3>2. QED
      BY <1>4, <3>1, JoinNone
  <2>6. QED
    BY <1>3, <2>1, <2>3, <2>4, <2>5 DEF OutInv
<1>6. ASSUME NEW l \in Lines, typing = <<>>, typed' = Append(typed, l),
             rdr' = Head(Append(l, "\r")), typing' = Tail(Append(l, "\r"))
      PROVE  OutInv'
  <2>1. typed \in Seq(Lines) /\ Len(typed) \in Nat /\ Len(received) = Len(typed)
    BY <1>2, <1>6, LenProperties DEF PatientInv, ConsInv, TextInv
  <2>2. Replies' = Answered(l)
    <3>1. Len(typed') = Len(typed) + 1 /\ typed'[Len(typed')] = l
      BY <1>6, <2>1, AppendProperties
    <3>2. QED
      BY <1>1, <2>1, <3>1 DEF Replies, Answered, Answer, Encode
  <2>3. Join(Due, Unkeyed)' = Exchange(l)
    <3>1. Append(l, "\r") \in Seq(D) /\ Append(l, "\r") # <<>>
      BY ShownLine
    <3>2. Answered(l) \in Seq(D)
      BY ExchangeType
    <3>3. QED
      BY <1>1, <1>3, <1>6, <2>2, <3>1, <3>2, KeyOwes DEF Exchange
  <2>4. Transcript = Sent
    <3>1. Due = <<>> /\ Unkeyed = <<>>
      BY <1>2, <1>6 DEF Awaited
    <3>2. Join(<<>>, <<>>) = <<>> /\ Join(Sent, <<>>) = Sent
      BY <1>4, JoinNone, EmptySeq
    <3>3. QED
      BY <3>1, <3>2 DEF OutInv
  <2>5. Transcript' = Join(Transcript, Exchange(l))
    <3> DEFINE F == FlattenSeq(Exchanges(typed))
               p == Prompt
    <3>1. Transcript = Join(p, F)
      BY DEF Spelled
    <3>2. Transcript' = Join(p, FlattenSeq(Exchanges(Append(typed, l))))
      BY <1>6 DEF Spelled, Exchanges, Exchange, Answered, Shown, Encode, Answer, Newline
    <3>3. FlattenSeq(Exchanges(Append(typed, l))) = Join(F, Exchange(l))
      BY <2>1, ExchangesGrow
    <3>4. p \in Seq(D) /\ F \in Seq(D) /\ Exchange(l) \in Seq(D)
      BY <2>1, LettersOf, ExchangesType, ExchangeType
    <3> HIDE DEF F, p
    <3>5. Join(Join(p, F), Exchange(l)) = Join(p, Join(F, Exchange(l)))
      BY <3>4, JoinJoin
    <3>6. QED
      BY <3>1, <3>2, <3>3, <3>5
  <2>6. QED
    BY <1>3, <2>3, <2>4, <2>5 DEF OutInv
<1>7. QED
  BY <1>1, <1>5, <1>6 DEF KeyOutput, OthersDo

PrintInv(C) == PatientInv(C) /\ MaskInv /\ DevInv /\ CharInv(C)

LEMMA PrintInit ==
  ASSUME StringsFit, NEW C, Alphabet(C), Plain(C), ConsInit
  PROVE  PrintInv(C) /\ OutInv
<1> USE ThreadsOfConsole
<1> DEFINE D == Letters(C)
<1>1. PatientInv(C) /\ MaskInv
  BY PatientInit, MaskInit
<1>2. /\ wire = <<>> /\ send_buf = <<>> /\ tdr = NULL /\ hpc = "end" /\ pc[Consdrv] = "setintr"
      /\ line = NULL /\ todo = <<Prompt>> /\ typed = <<>> /\ received = <<>> /\ typing = <<>>
      /\ ~rdrf /\ ~rie /\ Out = <<>>
  BY FlowsInit DEF ConsInit, Idle, Consdrv, Command
<1>3. DevInv
  BY <1>2 DEF DevInv
<1>4. Copying = <<>> /\ Posted = <<>> /\ Prompting = <<>> /\ Pending = <<>>
  BY <1>2 DEF Copying, Posted, Prompting, Pending
<1>5. CharInv(C)
  BY <1>2, <1>4, EmptySeq DEF CharInv
<1>6. Prompt \in Seq(D) /\ <<>> \in Seq(D)
  BY LettersOf
<1>7. Writes = Prompt
  <2>1. Writes = Outgoing(<<>>, <<>>, <<>>, Prompt)
    BY <1>2, <1>4, OutgoingPrompt DEF Writes
  <2>2. Join(<<>>, Prompt) = Prompt
    BY <1>6, JoinNone
  <2>3. QED
    BY <2>1, <2>2, EncodeNone, FlattenNone DEF Outgoing
<1>8. Echoed = <<>> /\ Awaited = <<>> /\ Shown(typing) = <<>>
  BY <1>2 DEF Echoed, Awaited, Replies, Shown
<1>9. OutInv
  <2>1. /\ Join(<<>>, <<>>) = <<>> /\ Join(Prompt, <<>>) = Prompt
        /\ Join(<<>>, Prompt) = Prompt
    BY <1>6, JoinNone
  <2>2. Sent = <<>> /\ Due = Prompt /\ Unkeyed = <<>>
    BY <1>2, <1>4, <1>7, <1>8, <2>1, EncodeNone DEF Sent, Due, Unkeyed
  <2>3. Transcript = Prompt
    <3>1. Exchanges(typed) = <<>>
      BY <1>2 DEF Exchanges
    <3>2. TextInv(C)
      BY <1>1 DEF PatientInv, ConsInv
    <3>3. QED
      BY <2>1, <3>1, <3>2, FlattenNone, TranscriptIs
  <2>4. QED
    BY <2>1, <2>2, <2>3 DEF OutInv
<1>10. QED
  BY <1>1, <1>3, <1>5, <1>9 DEF PrintInv

LEMMA PrintStep ==
  ASSUME ~WakeReceivers, Patient, PoolsSuffice, NEW C, Alphabet(C), Plain(C), PrintInv(C),
         [ConsNext]_cvars
  PROVE  PrintInv(C)' /\ OutputDoes
<1>1. PatientInv(C) /\ MaskInv /\ DevInv /\ CharInv(C)
  BY DEF PrintInv
<1>2. PatientInv(C)' /\ MaskInv'
  BY <1>1, PatientStep, MaskNext
<1>3. OutputDoes
  BY <1>1, OutputDoesSo DEF PatientInv
<1>4. /\ TypeOK /\ ThreadInv /\ TextInv(C) /\ WorkInv /\ RegsInv /\ StageInv
      /\ TodoInv /\ OneRequest /\ Running
  BY <1>1 DEF PatientInv, ConsInv, IInv, Orderly, Lively
<1>5. RegsInv' /\ Running' /\ TextInv(C)'
  BY <1>2 DEF PatientInv, ConsInv, Lively
<1>6. DevInv'
  BY <1>1, <1>2, <1>3, <1>4, <1>5, DevStays
<1>7. CharInv(C)'
  BY <1>1, <1>3, <1>4, <1>5, CharsStay
<1>8. QED
  BY <1>2, <1>3, <1>6, <1>7 DEF PrintInv

LEMMA PrintAlways ==
  ASSUME ~WakeReceivers, Patient, PoolsSuffice, NEW C, Alphabet(C), Plain(C)
  PROVE  ConsSpec => [](PrintInv(C) /\ Spelled(Letters(C)))
<1>1. ConsInit => PrintInv(C)
  BY PrintInit DEF PoolsSuffice
<1>2. PrintInv(C) /\ [ConsNext]_cvars => PrintInv(C)'
  BY PrintStep
<1>3. PrintInv(C) => Spelled(Letters(C))
  BY OutTyped, TranscriptIs DEF PrintInv, PatientInv, ConsInv, Spelled
<1>4. QED
  BY <1>1, <1>2, <1>3, PTL DEF ConsSpec

LEMMA OutStep ==
  ASSUME ~WakeReceivers, Patient, PoolsSuffice, NEW C, Alphabet(C), Plain(C),
         PrintInv(C), PrintInv(C)', NEW D, D = Letters(C), Spelled(D), Spelled(D)',
         OutInv, [ConsNext]_cvars
  PROVE  OutInv'
<1>1. OutputDoes
  BY PrintStep
<1>2. Conserved \/ KeyOutput
  BY <1>1, NothingIsLost DEF PrintInv
<1>3. CASE Conserved
  BY <1>3, OutConserved DEF Spelled
<1>4. CASE KeyOutput
  BY <1>4, OutKeyed DEF PrintInv
<1>5. QED
  BY <1>2, <1>3, <1>4

LEMMA OutAlways ==
  ASSUME ~WakeReceivers, Patient, PoolsSuffice, NEW C, Alphabet(C), Plain(C)
  PROVE  ConsSpec => [](PrintInv(C) /\ Spelled(Letters(C)) /\ OutInv)
<1>1. ConsInit => OutInv
  BY PrintInit DEF PoolsSuffice
<1>2. /\ PrintInv(C) /\ Spelled(Letters(C)) /\ OutInv /\ [ConsNext]_cvars
      /\ PrintInv(C)' /\ Spelled(Letters(C))'
      => OutInv'
  BY OutStep
<1>3. QED
  BY <1>1, <1>2, PrintAlways, PTL DEF ConsSpec

LEMMA OutIsTranscript ==
  ASSUME NEW C, Alphabet(C), PrintInv(C), NEW D, D = Letters(C), Spelled(D), OutInv
  PROVE  OutputIsTranscript
<1> DEFINE output == wire \o (IF tdr = NULL THEN <<>> ELSE <<tdr>>) \o send_buf
           rest == Join(Due, Unkeyed)
<1>1. /\ wire \in Seq(D) /\ Pending \in Seq(D) /\ send_buf \in Seq(D)
      /\ Sent \in Seq(D) /\ Due \in Seq(D) /\ Unkeyed \in Seq(D) /\ OutTypes(D)
  BY DEF Spelled, OutTypes
<1>2. output = Sent
  <2>1. Join(Join(wire, Pending), send_buf) = Sent
    BY <1>1, JoinJoin DEF Sent
  <2>2. QED
    BY <2>1 DEF Join, Pending
<1>3. rest \in Seq(D)
  BY <1>1, JoinType
<1>4. Transcript = Join(Sent, rest)
  BY DEF OutInv
<1>5. IsPrefix(output, Transcript)
  <2> HIDE DEF output, rest
  <2>1. /\ Len(Sent) \in Nat /\ Len(rest) \in Nat
        /\ Len(Transcript) = Len(Sent) + Len(rest)
        /\ Transcript \in Seq(D)
        /\ \A i \in 1 .. Len(Sent) : Transcript[i] = Sent[i]
    BY <1>1, <1>3, <1>4, ConcatProperties, LenProperties DEF Join
  <2>2. SubSeq(Transcript, 1, Len(Sent)) = Sent
    <3>1. /\ SubSeq(Transcript, 1, Len(Sent)) \in Seq(D)
          /\ Len(SubSeq(Transcript, 1, Len(Sent))) = Len(Sent)
          /\ \A i \in 1 .. Len(Sent) : SubSeq(Transcript, 1, Len(Sent))[i] = Transcript[i]
      BY <2>1, SubSeqProperties
    <3>2. QED
      BY <1>1, <2>1, <3>1, SeqEqual
  <2>3. QED
    BY <1>2, <2>1, <2>2 DEF IsPrefix
<1>6. ASSUME Quiet, typing = <<>>, AllWait PROVE wire = Transcript
  <2>1. /\ Rest /\ mode = "user" /\ ~rdrf
    <3>1. ConsdrvRests /\ CommandRests
      BY <1>6, WaitersRest DEF PrintInv, PatientInv, ConsInv, AllWait
    <3>2. QED
      BY <1>6, <3>1 DEF ConsdrvRests, CommandRests, Rest, Quiet
  <2>2. Due = <<>> /\ Unkeyed = <<>>
    BY <1>1, <1>6, <2>1, QuietOwes DEF PrintInv, Awaited
  <2>3. Pending = <<>> /\ send_buf = <<>>
    BY <1>6 DEF Quiet, PrintInv, DevInv, Pending
  <2>4. Sent = wire /\ Join(Sent, rest) = Sent
    <3>1. Join(<<>>, <<>>) = <<>> /\ Join(wire, <<>>) = wire
      BY <1>1, JoinNone, EmptySeq
    <3>2. QED
      BY <2>2, <2>3, <3>1 DEF Sent
  <2>5. QED
    BY <1>4, <2>4
<1>7. QED
  BY <1>5, <1>6 DEF OutputIsTranscript

(***************************************************************************)
(* What a patient typist reads is the transcript of his session: the       *)
(* prompt, and for every line its echo, which the handler puts into the    *)
(* send buffer, the answer and the prompt, which command_main() has        *)
(* consdrv put there.  Nothing is lost, doubled or out of order, and when  *)
(* the console is quiet all of it has been sent.                           *)
(***************************************************************************)
THEOREM OutputReadsRight ==
  ASSUME ~WakeReceivers, Patient, PoolsSuffice, NEW C, Alphabet(C), Plain(C)
  PROVE  ConsSpec => []OutputIsTranscript
<1>1. PrintInv(C) /\ Spelled(Letters(C)) /\ OutInv => OutputIsTranscript
  BY OutIsTranscript
<1>2. QED
  BY <1>1, OutAlways, PTL

(***************************************************************************)
(* A patient typist never overruns the send buffer.                        *)
(***************************************************************************)
(* The answer to a line, the prompt and the echo of Enter: when that echo  *)
(* is in the buffer, its first character is about to leave it.             *)
BufferHolds ==
  /\ CONS_BUFFER_SIZE >= 2 /\ Len(Prompt) <= CONS_BUFFER_SIZE
  /\ \A l \in Lines : Len(Answered(l)) + 2 <= CONS_BUFFER_SIZE + 1

(* What the send buffer and the transmitter hold together; and what they   *)
(* hold now, with what the console owes on top of it.                      *)
Full == CONS_BUFFER_SIZE + 1
Load == Len(Pending) + Len(send_buf) + Len(Due)

(* One character too many: it is still to be echoed, or it is echoed and   *)
(* the handler is about to send the first one.                             *)
Relieved ==
  /\ tdre
  /\ \/ rdrf /\ send_buf = <<>>
     \/ /\ mode = "intr" /\ hpc \in {"kick", "store", "post", "send"}
        /\ send_buf # <<>> /\ Len(send_buf) <= 2

LoadInv == Load <= Full /\ (Load = Full /\ tdr = NULL => Relieved)

LEMMA LoadTypes ==
  ASSUME NEW D, OutTypes(D)
  PROVE  /\ Len(wire) \in Nat /\ Len(Pending) \in Nat /\ Len(send_buf) \in Nat
         /\ Len(Due) \in Nat /\ Load \in Nat /\ Full \in Nat
         /\ Len(Join(Sent, Due)) = Len(wire) + Load
<1>1. /\ wire \in Seq(D) /\ Pending \in Seq(D) /\ send_buf \in Seq(D) /\ Due \in Seq(D)
      /\ Sent \in Seq(D) /\ Join(Pending, send_buf) \in Seq(D)
  BY DEF OutTypes
<1>2. /\ Len(wire) \in Nat /\ Len(Pending) \in Nat /\ Len(send_buf) \in Nat
      /\ Len(Due) \in Nat /\ Full \in Nat
  BY <1>1, LenProperties, ConsoleAssumption DEF Full
<1>3. /\ Len(Join(Pending, send_buf)) = Len(Pending) + Len(send_buf)
      /\ Len(Sent) = Len(wire) + Len(Join(Pending, send_buf))
      /\ Len(Join(Sent, Due)) = Len(Sent) + Len(Due)
  BY <1>1, JoinLen DEF Sent
<1>4. QED
  BY <1>2, <1>3 DEF Load

(* What the lemmas below need of both states of a step. *)
Loaded ==
  /\ Len(wire) \in Nat /\ Load \in Nat /\ Full \in Nat
  /\ Len(Join(Sent, Due)) = Len(wire) + Load
  /\ Len(Awaited) \in Nat /\ Len(Awaited) + 2 <= Full

LEMMA LoadFalls ==
  ASSUME Loaded, Loaded', Conserved
  PROVE  Load' <= Load /\ (Load' = Load => Len(wire') = Len(wire))
BY DEF Loaded, Conserved

LEMMA AwaitedFits ==
  ASSUME NEW C, Alphabet(C), TextInv(C), BufferHolds
  PROVE  Len(Awaited) \in Nat /\ Len(Awaited) + 2 <= Full
<1>1. CONS_BUFFER_SIZE \in Nat /\ Full = CONS_BUFFER_SIZE + 1 /\ CONS_BUFFER_SIZE >= 2
  BY ConsoleAssumption DEF Full, BufferHolds
<1>2. CASE Awaited = <<>>
  BY <1>1, <1>2
<1>3. CASE Awaited # <<>>
  <2>1. Len(received) < Len(typed) /\ Awaited = Answered(typed[Len(typed)])
    BY <1>3 DEF Awaited, Replies
  <2>2. Len(received) \in Nat /\ Len(typed) \in Nat /\ typed \in Seq(Lines)
    BY LenProperties DEF TextInv
  <2>3. typed[Len(typed)] \in Lines
    BY <2>1, <2>2, ElementOfSeq
  <2>4. Awaited \in Seq(Letters(C))
    BY <2>1, <2>3, ExchangeType
  <2>5. QED
    BY <1>1, <2>1, <2>3, <2>4, LenProperties DEF BufferHolds
<1>4. QED
  BY <1>2, <1>3

LEMMA FewCharacters ==
  ASSUME NEW c
  PROVE  Len(Encode(<<c>>)) \in Nat /\ Len(Encode(<<c>>)) <= 2 /\ Encode(<<c>>) # <<>>
<1> DEFINE D == {"\r", "\n", c}
<1>1. {"\r", "\n"} \subseteq D /\ c \in D
  OBVIOUS
<1> HIDE DEF D
<1>2. Encode(<<c>>) = Code(c)
  BY <1>1, EncodeOne
<1>3. Len(Code(c)) \in Nat /\ Len(Code(c)) <= 2 /\ Code(c) # <<>>
  BY DEF Code
<1>4. QED
  BY <1>2, <1>3

(* A full load is relieved by the step that makes it, or as it was.        *)
LEMMA StaysRelieved ==
  ASSUME NEW C, Alphabet(C), PatientInv(C), PatientInv(C)', CharInv(C), DevInv,
         NULL \notin Letters(C), OutputDoes, ~KeyOutput, Len(wire') = Len(wire),
         tdr' = NULL, tdr = NULL => Relieved
  PROVE  Relieved'
<1> USE ThreadsOfConsole
<1>1. /\ ThreadInv /\ TextInv(C) /\ WorkInv /\ RestInv /\ RegsInv /\ StageInv
      /\ Running /\ Running' /\ TypeOK'
  BY DEF PatientInv, ConsInv, IInv, Orderly, Lively
<1>2. ~(Loads /\ send_buf # <<>>)
  BY HeadTailProperties DEF Loads, send_char, CharInv
<1>3. ~(Shifts /\ tdr # NULL)
  <2>1. SUFFICES ASSUME Shifts, tdr # NULL PROVE FALSE
    OBVIOUS
  <2>2. Len(Append(wire, tdr)) = Len(wire) + 1 /\ Len(wire) \in Nat
    <3>1. wire \in Seq(Letters(C)) /\ tdr \in Letters(C)
      BY <2>1 DEF CharInv
    <3>2. QED
      BY <3>1, AppendProperties, LenProperties
  <2>3. QED
    BY <2>1, <2>2 DEF Shifts
<1>4. tdr = NULL
  BY <1>2, <1>3 DEF OutputDoes, CommandOutputs, ConsdrvOutputs, HandlerOutputs,
     OthersOutput, Prints, outVars, DevInv, Serves
<1>5. tdre /\ Relieved
  BY <1>4 DEF Relieved
<1>6. rdrf => Rest
  <2>1. rdrf => Coming # <<>>
    BY <1>1, HeadTailOfPair DEF Coming, TextInv
  <2>2. QED
    BY <1>1, <2>1 DEF RestInv
<1>7. CASE CommandOutputs
  BY <1>5, <1>7 DEF Relieved, CommandOutputs, CommandDoes, Goes, devVars, outVars
<1>8. CASE ConsdrvOutputs
  <2>1. mode = "user" /\ rdrf /\ send_buf = <<>>
    BY <1>5, <1>8 DEF Relieved, ConsdrvOutputs, ConsdrvDoes, Goes
  <2>2. pc[Consdrv] = "got"
    BY <1>6, <2>1 DEF Rest
  <2>3. QED
    BY <1>5, <1>8, <2>1, <2>2 DEF Relieved, ConsdrvOutputs, ConsdrvDoes, Goes, Moved, devVars,
       outVars
<1>9. CASE HandlerOutputs
  <2>1. CASE /\ mode = "intr" /\ hpc = "enter" /\ Prints(<<Newline(rdr)>>)
             /\ rdrf /\ ~rdrf'
    <3>1. send_buf = <<>>
      BY <1>5, <2>1 DEF Relieved
    <3>2. send_buf' = Encode(<<Newline(rdr)>>) /\ tdre' = tdre
      <4>1. Encode(<<Newline(rdr)>>) \in Seq(Letters(C))
        <5>1. Newline(rdr) \in Letters(C)
          BY <1>1, <2>1, NewlineType DEF TextInv, Letters
        <5>2. <<Newline(rdr)>> \in Seq(Letters(C))
          BY <5>1
        <5>3. QED
          BY <5>2, LettersOf, EncodeType
      <4>2. QED
        BY <2>1, <3>1, <4>1, ConcatEmptySeq DEF Prints
    <3>3. mode' = "intr" /\ hpc' \in {"kick", "store"}
      BY <1>9, <2>1 DEF HandlerOutputs, HandlerDoes, Serves
    <3>4. Len(send_buf') <= 2 /\ send_buf' # <<>>
      BY <3>2, FewCharacters
    <3>5. tdre' /\ Len(send_buf') <= 2
      BY <1>5, <3>2, <3>4
    <3>6. QED
      BY <3>3, <3>4, <3>5 DEF Relieved
  <2>2. CASE /\ hpc # "kick" /\ hpc' # "kick" /\ rdrf' = rdrf
             /\ hpc = "send" => ~tdre \/ send_buf = <<>>
             /\ UNCHANGED outVars
    <3>1. CASE rdrf /\ send_buf = <<>>
      BY <1>5, <2>2, <3>1 DEF Relieved, outVars
    <3>2. CASE /\ mode = "intr" /\ hpc \in {"kick", "store", "post", "send"}
               /\ send_buf # <<>> /\ Len(send_buf) <= 2
      <4>1. hpc \in {"store", "post"}
        BY <1>5, <2>2, <3>2
      <4>2. mode' # "user" /\ hpc' \in {"post", "send"}
        BY <1>9, <3>2, <4>1 DEF HandlerOutputs, HandlerDoes, Serves
      <4>3. mode' = "intr"
        BY <1>1, <4>2 DEF TypeOK, Running
      <4>4. QED
        BY <1>5, <2>2, <3>2, <4>2, <4>3 DEF Relieved, outVars
    <3>3. QED
      BY <1>5, <3>1, <3>2 DEF Relieved
  <2>3. QED
    BY <1>2, <1>9, <2>1, <2>2 DEF HandlerOutputs, Serves, DevInv
<1>10. CASE OthersOutput
  <2>1. UNCHANGED <<rdrf, outVars, hpc>> /\ (mode = "intr" => mode' = "intr")
    BY <1>5, <1>10 DEF OthersOutput, OthersDo, Shifts, handlerVars
  <2>2. QED
    BY <1>5, <2>1 DEF Relieved, outVars
<1>11. QED
  BY <1>7, <1>8, <1>9, <1>10 DEF OutputDoes

LEMMA LoadKeyed ==
  ASSUME NEW C, Alphabet(C), PatientInv(C), NEW D, D = Letters(C), OutTypes(D), OutTypes(D)',
         Loaded', DevInv, KeyOutput
  PROVE  LoadInv'
<1>1. /\ Rest /\ mode = "user" /\ ~rdrf /\ rdrf' /\ tdre /\ send_buf = <<>>
      /\ OthersDo /\ UNCHANGED outVars
  BY DEF KeyOutput, Quiet
<1>2. Writes' = <<>>
  <2>1. Writes = <<>>
    BY <1>1, QuietOwes
  <2>2. WritesStay
    BY <1>1, OutsideMoves
  <2>3. QED
    BY <2>1, <2>2 DEF WritesStay, Writes
<1>3. Pending' = <<>> /\ send_buf' = <<>> /\ tdre'
  BY <1>1 DEF outVars, DevInv, Pending
<1>4. Len(Echoed') \in Nat /\ Len(Echoed') <= 2
  <2>1. Echoed' = Encode(<<Newline(rdr')>>)
    BY <1>1 DEF Echoed, Encode, Newline
  <2>2. QED
    BY <2>1, FewCharacters
<1>5. Load' = Len(Echoed') + Len(Awaited')
  <2> DEFINE x == Echoed'
             y == Awaited'
  <2>1. x \in Seq(D) /\ y \in Seq(D)
    BY DEF OutTypes
  <2>2. Load' = Len(Pending') + Len(send_buf') + Len(Join(Writes', Join(x, y)))
    BY DEF Load, Due
  <2> HIDE DEF x, y
  <2>3. Join(x, y) \in Seq(D) /\ Len(Join(x, y)) = Len(x) + Len(y)
        /\ Len(x) \in Nat /\ Len(y) \in Nat
    BY <2>1, JoinType, JoinLen
  <2>4. Join(<<>>, Join(x, y)) = Join(x, y)
    BY <2>3, JoinNone
  <2>5. Load' = 0 + 0 + Len(Join(x, y))
    BY <1>2, <1>3, <2>2, <2>4
  <2>6. QED
    BY <2>3, <2>5 DEF x, y
<1>6. Load' <= Full'
  <2>1. Len(Awaited') \in Nat /\ Full' \in Nat /\ Len(Awaited') + 2 <= Full'
    BY DEF Loaded
  <2>2. QED
    BY <1>4, <1>5, <2>1
<1>7. QED
  BY <1>1, <1>3, <1>6 DEF LoadInv, Relieved

LEMMA LoadStep ==
  ASSUME ~WakeReceivers, Patient, PoolsSuffice, NEW C, Alphabet(C), Plain(C),
         PrintInv(C), PrintInv(C)', NEW D, D = Letters(C), OutTypes(D), OutTypes(D)',
         Loaded, Loaded', LoadInv, [ConsNext]_cvars
  PROVE  LoadInv'
<1>1. OutputDoes
  BY PrintStep
<1>2. Conserved \/ KeyOutput
  BY <1>1, NothingIsLost DEF PrintInv
<1>3. CASE KeyOutput
  BY <1>3, LoadKeyed DEF PrintInv
<1>4. CASE Conserved /\ ~KeyOutput
  <2>1. Load' <= Load /\ (Load' = Load => Len(wire') = Len(wire))
    BY <1>4, LoadFalls
  <2>2. Full' = Full
    BY DEF Full
  <2>3. Load' <= Full
    BY <2>1, <2>2 DEF LoadInv, Loaded
  <2>4. ASSUME Load' = Full, tdr' = NULL PROVE Relieved'
    <3>1. Load = Full /\ Len(wire') = Len(wire)
      BY <2>1, <2>2, <2>4 DEF LoadInv, Loaded
    <3>2. QED
      BY <1>1, <1>4, <2>4, <3>1, StaysRelieved DEF LoadInv, PrintInv, Plain
  <2>5. QED
    BY <2>2, <2>3, <2>4 DEF LoadInv
<1>5. QED
  BY <1>2, <1>3, <1>4

LEMMA LoadInit ==
  ASSUME NEW C, Alphabet(C), Plain(C), BufferHolds, ConsInit, PrintInv(C), Spelled(Letters(C)),
         OutInv
  PROVE  LoadInv
<1> DEFINE D == Letters(C)
<1>1. wire = <<>> /\ send_buf = <<>> /\ tdr = NULL /\ typing = <<>> /\ typed = <<>>
  BY DEF ConsInit
<1>2. OutTypes(D) /\ Len(Join(Sent, Due)) = Len(wire) + Load
  BY LoadTypes DEF Spelled
<1>3. Transcript = Prompt /\ Prompt \in Seq(D)
  <2>1. Exchanges(typed) = <<>> /\ Prompt \in Seq(D)
    BY <1>1, LettersOf DEF Exchanges
  <2>2. QED
    BY <2>1, FlattenNone, JoinNone DEF Spelled
<1>4. Join(Sent, Due) = Prompt
  <2>1. Unkeyed = <<>>
    <3>1. Shown(<<>>) = <<>>
      BY DEF Shown
    <3>2. Join(<<>>, <<>>) = <<>>
      BY JoinNone, EmptySeq
    <3>3. QED
      BY <1>1, <3>1, <3>2, EncodeNone DEF Unkeyed
  <2>2. Due \in Seq(D) /\ Sent \in Seq(D)
    BY <1>2 DEF OutTypes
  <2>3. Join(Due, <<>>) = Due
    BY <2>2, JoinNone
  <2>4. QED
    BY <1>3, <2>1, <2>3 DEF OutInv
<1>5. Load = Len(Prompt) /\ Load \in Nat
  <2>1. Len(wire) = 0 /\ Load \in Nat
    BY <1>1, <1>2, LoadTypes
  <2>2. QED
    BY <1>2, <1>4, <2>1
<1>6. Full \in Nat /\ Load < Full
  BY <1>5, ConsoleAssumption DEF BufferHolds, Full
<1>7. Load <= Full /\ Load # Full
  BY <1>5, <1>6
<1>8. QED
  BY <1>7 DEF LoadInv

LEMMA LoadAlways ==
  ASSUME ~WakeReceivers, Patient, PoolsSuffice, BufferHolds, NEW C, Alphabet(C), Plain(C)
  PROVE  ConsSpec => [](PrintInv(C) /\ OutTypes(Letters(C)) /\ Loaded /\ LoadInv)
<1>1. ConsInit => PrintInv(C) /\ OutInv
  BY PrintInit DEF PoolsSuffice
<1>2. PrintInv(C) /\ Spelled(Letters(C)) => OutTypes(Letters(C)) /\ Loaded
  BY LoadTypes, AwaitedFits DEF Spelled, Loaded, PrintInv, PatientInv, ConsInv
<1>3. ConsInit /\ PrintInv(C) /\ Spelled(Letters(C)) /\ OutInv => LoadInv
  BY LoadInit
<1>4. /\ PrintInv(C) /\ OutTypes(Letters(C)) /\ Loaded /\ LoadInv /\ [ConsNext]_cvars
      /\ PrintInv(C)' /\ OutTypes(Letters(C))' /\ Loaded'
      => LoadInv'
  BY LoadStep
<1>5. QED
  BY <1>1, <1>2, <1>3, <1>4, PrintAlways, PTL DEF ConsSpec

(***************************************************************************)
(* A patient typist never overruns the send buffer, which send_string()    *)
(* fills without looking at its size, if the answer to each of his lines,  *)
(* with the prompt and the echo of Enter, is no more than one character    *)
(* longer than the buffer.                                                 *)
(***************************************************************************)
THEOREM SendBufferHolds ==
  ASSUME ~WakeReceivers, Patient, PoolsSuffice, BufferHolds, NEW C, Alphabet(C), Plain(C)
  PROVE  ConsSpec => []SendBufferFits
<1>1. ASSUME OutTypes(Letters(C)), Loaded, LoadInv, PrintInv(C) PROVE SendBufferFits
  <2>1. /\ Len(send_buf) \in Nat /\ Len(Pending) \in Nat /\ Len(Due) \in Nat
        /\ Load = Len(Pending) + Len(send_buf) + Len(Due)
        /\ Load <= Full /\ Full = CONS_BUFFER_SIZE + 1
        /\ CONS_BUFFER_SIZE \in Nat /\ CONS_BUFFER_SIZE >= 2
    BY <1>1, LoadTypes, ConsoleAssumption DEF Load, LoadInv, Full, BufferHolds
  <2>2. CASE tdr # NULL
    <3>1. Len(Pending) = 1
      BY <2>2 DEF Pending
    <3>2. QED
      BY <2>1, <3>1 DEF SendBufferFits
  <2>3. CASE tdr = NULL /\ Load # Full
    BY <2>1, <2>3 DEF SendBufferFits
  <2>4. CASE tdr = NULL /\ Load = Full
    <3>1. send_buf = <<>> \/ Len(send_buf) <= 2
      BY <1>1, <2>4 DEF LoadInv, Relieved
    <3>2. QED
      BY <2>1, <3>1 DEF SendBufferFits
  <2>5. QED
    BY <2>2, <2>3, <2>4
<1>2. PrintInv(C) /\ OutTypes(Letters(C)) /\ Loaded /\ LoadInv => SendBufferFits
  BY <1>1
<1>3. QED
  BY <1>2, LoadAlways, PTL
===============================================================================
