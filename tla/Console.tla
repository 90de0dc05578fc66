------------------------------- MODULE Console -------------------------------
(***************************************************************************)
(* The console of KOZOS on its kernel: the threads of main.c (idle),       *)
(* consdrv.c and command.c, the serial interrupt handler of consdrv.c, the *)
(* registers of the serial controller and a typist at the other end.       *)
(*                                                                         *)
(* Every system or service call is the action of module Kozos, with what   *)
(* the caller does around it.  The code between two calls is a step of its *)
(* own where it touches what the handler shares with the threads, so that  *)
(* an interrupt may come between any two of them that are not masked.      *)
(*                                                                         *)
(* The typist may not type before the console is in use, nor a character   *)
(* before the last one was read: serial.c does not handle an overrun.      *)
(***************************************************************************)
EXTENDS Kozos, SequencesExt

CONSTANTS
  CONS_BUFFER_SIZE,  \* size of send_buf and recv_buf
  Prompt,            \* "command> "
  Unknown,           \* "unknown.\n"
  Echo,              \* "echo"
  Lines,             \* the lines the typist may enter
  MaxLines,          \* number of lines entered (a bound)
  Patient            \* does the typist wait for the output to end?

ASSUME ConsoleAssumption ==
  /\ MsgBox = {"input", "output"}
  /\ THREAD_NUM >= 3 /\ PRIORITY_NUM >= 4
  /\ Pool \subseteq Nat
  /\ CONS_BUFFER_SIZE \in Nat
  /\ MaxLines \in Nat
  /\ NULL \notin Payload /\ NULL \notin Message
  /\ \A l \in Lines : \A i \in 1 .. Len(l) : l[i] \notin {"\r", "\n"}

VARIABLES
  pc,        \* where every thread is, between two system calls
  req,       \* consdrv_main(): the request it works on
  line,      \* command_main(): the line it holds, or NULL
  todo,      \* command_main(): the strings it has yet to write
  consid,    \* consreg[0].id
  send_buf,  \* consreg[0].send_buf, its first send_len characters
  recv_buf,  \* consreg[0].recv_buf, its first recv_len characters
  tie, rie,  \* SCR: interrupt when TDRE, when RDRF
  tdre, tdr, \* SSR: TDR is empty; TDR, or NULL
  rdrf, rdr, \* SSR: RDR is full; RDR
  hpc, ch,   \* where the handler is; the character it read
  typing,    \* the characters of the line the typist is at
  typed,     \* the lines the typist has begun
  received,  \* the lines command_main() has got
  wire       \* the characters on the line, for a patient typist

threadVars == <<pc, req, line, todo>>
consVars   == <<consid, send_buf, recv_buf>>
devVars    == <<tie, rie, tdre, tdr, rdrf, rdr>>
handlerVars == <<hpc, ch>>
typistVars == <<typing, typed>>
cvars == <<vars, threadVars, consVars, devVars, handlerVars, typistVars, received,
           wire>>

(* The threads in the order in which they get their TCBs. *)
Idle    == 0
Consdrv == 1
Command == 2

(* Requests to consdrv, and lines from the handler, as messages. *)
Use        == [cmd |-> "use", str |-> <<>>]
Write(str) == [cmd |-> "write", str |-> str]
Line(str)  == [cmd |-> "line", str |-> str]

(* kzmem_alloc() takes the first pool whose blocks have room for n bytes   *)
(* behind their header of 8 bytes; a pool is named by its block size.      *)
PoolOf(n) ==
  LET fits == {k \in Pool : n <= k - 8}
  IN  IF fits = {} THEN NULL ELSE Min(fits)

ConsInit ==
  /\ Init
  /\ pc = [t \in {Idle, Consdrv, Command} |->
             CASE t = Idle -> "run_consdrv" [] t = Consdrv -> "setintr"
               [] t = Command -> "use_alloc"]
  /\ req = NULL
  /\ line = NULL
  /\ todo = <<Prompt>>
  /\ consid = NULL
  /\ send_buf = <<>>
  /\ recv_buf = <<>>
  /\ tie = FALSE /\ rie = FALSE
  /\ tdre = TRUE /\ tdr = NULL
  /\ rdrf = FALSE /\ rdr = NULL
  /\ hpc = "end" /\ ch = NULL
  /\ typing = <<>>
  /\ typed = <<>>
  /\ received = <<>>
  /\ wire = <<>>

(* Thread t goes from l to m: with a system call, or without one.          *)
Moves(t, l, m) ==
  /\ current = t
  /\ pc[t] = l
  /\ pc' = [pc EXCEPT ![t] = m]

Computes == mode = "user" /\ UNCHANGED vars
-------------------------------------------------------------------------------
(***************************************************************************)
(* The send buffer, for threads and the handler alike.                     *)
(***************************************************************************)
Encode(str) ==
  FlattenSeq([i \in 1 .. Len(str) |->
                IF str[i] = "\n" THEN <<"\r", "\n">> ELSE <<str[i]>>])

(* send_string() up to send_char(), which follows when the transmitter was *)
(* not at work.                                                            *)
Kicks(str) == send_buf \o Encode(str) # <<>> /\ ~tie

send_string(str) ==
  /\ send_buf' = send_buf \o Encode(str)
  /\ tie' = (tie \/ Kicks(str))

(* A faulty variant: the buffer is not shifted. *)
send_charKeeps ==
  /\ tdre
  /\ tdr' = Head(send_buf)
  /\ tdre' = FALSE
  /\ UNCHANGED send_buf

(* serial_send_byte() waits for TDRE. *)
send_char ==
  /\ tdre
  /\ tdr' = Head(send_buf)
  /\ tdre' = FALSE
  /\ send_buf' = Tail(send_buf)
-------------------------------------------------------------------------------
(***************************************************************************)
(* main.c: the initial thread becomes the idle thread.                     *)
(***************************************************************************)
start_threads ==
  /\ \/ Moves(Idle, "run_consdrv", "run_command") /\ thread_run(1)
     \/ Moves(Idle, "run_command", "chpri") /\ thread_run(2)
     \/ Moves(Idle, "chpri", "enable") /\ thread_chpri(3)
     \/ Moves(Idle, "enable", "sleep") /\ INTR_ENABLE
  /\ UNCHANGED <<req, line, todo, consVars, devVars, handlerVars, typistVars,
                 received, wire>>

idle_sleep ==
  /\ Moves(Idle, "sleep", "sleep")
  /\ Computes
  /\ UNCHANGED <<req, line, todo, consVars, devVars, handlerVars, typistVars,
                 received, wire>>
-------------------------------------------------------------------------------
(***************************************************************************)
(* command.c.                                                              *)
(***************************************************************************)
send_use ==
  /\ \/ Moves(Command, "use_alloc", "use_send") /\ thread_kzmalloc(PoolOf(3))
     \/ Moves(Command, "use_send", "alloc") /\ kz_send("output", Use)
  /\ UNCHANGED <<req, line, todo, consVars, devVars, handlerVars, typistVars,
                 received, wire>>

send_write ==
  /\ \/ /\ Moves(Command, "alloc", "send")
        /\ thread_kzmalloc(PoolOf(Len(Head(todo)) + 2))
        /\ UNCHANGED todo
     \/ /\ Moves(Command, "send", IF Tail(todo) # <<>> THEN "alloc"
                                  ELSE IF line = NULL THEN "recv" ELSE "free")
        /\ kz_send("output", Write(Head(todo)))
        /\ todo' = Tail(todo)
  /\ UNCHANGED <<req, line, consVars, devVars, handlerVars, typistVars, received,
                 wire>>

(* A faulty variant: the command word is echoed, too. *)
AnswerWhole(str) ==
  IF IsPrefix(Echo, str) THEN <<str, <<"\n">>>> ELSE <<Unknown>>

(* The answer to a line, as the strings that are written. *)
Answer(str) ==
  IF IsPrefix(Echo, str)
  THEN <<SubSeq(str, Len(Echo) + 1, Len(str)), <<"\n">>>>
  ELSE <<Unknown>>

command_recv ==
  /\ Moves(Command, "recv", "got")
  /\ thread_recv("input")
  /\ UNCHANGED <<req, line, todo, consVars, devVars, handlerVars, typistVars,
                 received, wire>>

command_got ==
  /\ Moves(Command, "got", "alloc")
  /\ Computes
  /\ line' = param[Command].p
  /\ todo' = Answer(line'.str)
  /\ received' = Append(received, line'.str)
  /\ UNCHANGED <<req, consVars, devVars, handlerVars, typistVars, wire>>

(* A faulty variant: the line is not freed. *)
command_freeNothing ==
  /\ Moves(Command, "free", "alloc")
  /\ thread_wait
  /\ line' = NULL
  /\ todo' = <<Prompt>>
  /\ UNCHANGED <<req, consVars, devVars, handlerVars, typistVars, received, wire>>

command_free ==
  /\ Moves(Command, "free", "alloc")
  /\ thread_kmfree(PoolOf(CONS_BUFFER_SIZE))
  /\ line' = NULL
  /\ todo' = <<Prompt>>
  /\ UNCHANGED <<req, consVars, devVars, handlerVars, typistVars, received, wire>>

command_main ==
  send_use \/ send_write \/ command_recv \/ command_got \/ command_free
-------------------------------------------------------------------------------
(***************************************************************************)
(* consdrv.c, the thread.                                                  *)
(***************************************************************************)
consdrv_init ==
  /\ Moves(Consdrv, "setintr", "recv")
  /\ thread_setintr
  /\ consid' = NULL /\ send_buf' = <<>> /\ recv_buf' = <<>>
  /\ UNCHANGED <<req, line, todo, devVars, handlerVars, typistVars, received, wire>>

consdrv_recv ==
  /\ Moves(Consdrv, "recv", "got")
  /\ thread_recv("output")
  /\ UNCHANGED <<req, line, todo, consVars, devVars, handlerVars, typistVars,
                 received, wire>>

consdrv_use ==
  /\ \/ /\ Moves(Consdrv, "got", "send_buf")
        /\ param[Consdrv].p.cmd = "use"
        /\ Computes
        /\ req' = param[Consdrv].p
        /\ consid' = param[Consdrv].sender
        /\ UNCHANGED <<send_buf, recv_buf, devVars>>
     \/ /\ Moves(Consdrv, "send_buf", "recv_buf")
        /\ thread_kzmalloc(PoolOf(CONS_BUFFER_SIZE))
        /\ UNCHANGED <<req, consVars, devVars>>
     \/ /\ Moves(Consdrv, "recv_buf", "serial_init")
        /\ thread_kzmalloc(PoolOf(CONS_BUFFER_SIZE))
        /\ UNCHANGED <<req, consVars, devVars>>
     \/ /\ Moves(Consdrv, "serial_init", "free")
        /\ Computes
        /\ send_buf' = <<>> /\ recv_buf' = <<>>
        /\ tie' = FALSE /\ rie' = TRUE
        /\ tdre' = FALSE /\ rdrf' = FALSE
        /\ UNCHANGED <<req, consid, tdr, rdr>>
  /\ UNCHANGED <<line, todo, handlerVars, typistVars, received, wire>>

(* A faulty variant: interrupts stay enabled. *)
consdrv_maskNot ==
  /\ Moves(Consdrv, "got", "copy")
  /\ param[Consdrv].p.cmd = "write"
  /\ Computes
  /\ req' = param[Consdrv].p
  /\ UNCHANGED <<line, todo, consVars, devVars, handlerVars, typistVars, received,
                 wire>>

consdrv_mask ==
  /\ Moves(Consdrv, "got", "copy")
  /\ param[Consdrv].p.cmd = "write"
  /\ INTR_DISABLE
  /\ req' = param[Consdrv].p
  /\ UNCHANGED <<line, todo, consVars, devVars, handlerVars, typistVars, received,
                 wire>>

consdrv_write ==
  /\ \/ /\ Moves(Consdrv, "copy", IF Kicks(req.str) THEN "kick" ELSE "unmask")
        /\ Computes
        /\ send_string(req.str)
        /\ UNCHANGED <<tdre, tdr>>
     \/ /\ Moves(Consdrv, "kick", "unmask")
        /\ Computes
        /\ send_char
        /\ UNCHANGED tie
     \/ /\ Moves(Consdrv, "unmask", "free")
        /\ INTR_ENABLE
        /\ UNCHANGED <<send_buf, tie, tdre, tdr>>
  /\ UNCHANGED <<req, line, todo, consid, recv_buf, rie, rdrf, rdr, handlerVars,
                 typistVars, received, wire>>

(* The block of the request: 3 bytes, or 2 more than the string. *)
consdrv_free ==
  /\ Moves(Consdrv, "free", "recv")
  /\ thread_kmfree(PoolOf(IF req.cmd = "use" THEN 3 ELSE Len(req.str) + 2))
  /\ req' = NULL
  /\ UNCHANGED <<line, todo, consVars, devVars, handlerVars, typistVars, received,
                 wire>>

consdrv_main ==
  \/ consdrv_init
  \/ consdrv_recv
  \/ consdrv_use
  \/ consdrv_mask
  \/ consdrv_write
  \/ consdrv_free
-------------------------------------------------------------------------------
(***************************************************************************)
(* consdrv.c, the interrupt handler.  It is not interrupted, but the serial *)
(* controller goes on while it runs.                                       *)
(***************************************************************************)
HandlerMoves(l, m) == mode = "intr" /\ hpc = l /\ hpc' = m

(* RXI and TXI: the controller asks for an interrupt, and one handler      *)
(* serves both.                                                            *)
serial_intr ==
  /\ (rie /\ rdrf) \/ (tie /\ tdre)
  /\ thread_intr
  /\ hpc' = "enter"
  /\ UNCHANGED <<ch, threadVars, consVars, devVars, typistVars, received, wire>>

(* A faulty variant: the Enter key is taken as it comes. *)
NewlineRaw(c) == c

(* Enter sends a carriage return. *)
Newline(c) == IF c = "\r" THEN "\n" ELSE c

(* consdrv_intr() and the first half of consdrv_intrproc(): a character is *)
(* read and echoed.                                                        *)
intr_recv ==
  /\ \/ /\ consid # NULL /\ rdrf
        /\ ch' = Newline(rdr)
        /\ rdrf' = FALSE
        /\ HandlerMoves("enter", IF Kicks(<<ch'>>) THEN "kick" ELSE "store")
        /\ send_string(<<ch'>>)
     \/ /\ consid # NULL /\ ~rdrf /\ tdre
        /\ HandlerMoves("enter", "send")
        /\ UNCHANGED <<ch, rdrf, send_buf, tie>>
     \/ /\ consid = NULL \/ (~rdrf /\ ~tdre)
        /\ HandlerMoves("enter", "end")
        /\ UNCHANGED <<ch, rdrf, send_buf, tie>>
  /\ UNCHANGED <<vars, threadVars, consid, recv_buf, rie, tdre, tdr, rdr, typistVars,
                 received, wire>>

intr_kick ==
  /\ HandlerMoves("kick", "store")
  /\ send_char
  /\ UNCHANGED <<vars, threadVars, consid, recv_buf, tie, rie, rdrf, rdr, ch,
                 typistVars, received, wire>>

(* The character goes to the line, or ends it: a copy of the line is sent. *)
intr_store ==
  /\ \/ /\ ch # "\n"
        /\ HandlerMoves("store", "send")
        /\ recv_buf' = Append(recv_buf, ch)
        /\ UNCHANGED vars
     \/ /\ ch = "\n"
        /\ HandlerMoves("store", "post")
        /\ kx_kmalloc(PoolOf(CONS_BUFFER_SIZE))
        /\ UNCHANGED recv_buf
  /\ UNCHANGED <<ch, threadVars, consid, send_buf, devVars, typistVars, received,
                 wire>>

(* A faulty variant: recv_len is not reset. *)
intr_postKeeps ==
  /\ HandlerMoves("post", "send")
  /\ kx_send("input", Line(recv_buf))
  /\ UNCHANGED <<ch, threadVars, consVars, devVars, typistVars, received, wire>>

intr_post ==
  /\ HandlerMoves("post", "send")
  /\ kx_send("input", Line(recv_buf))
  /\ recv_buf' = <<>>
  /\ UNCHANGED <<ch, threadVars, consid, send_buf, devVars, typistVars, received,
                 wire>>

(* A faulty variant: the transmit interrupt is disabled when the last      *)
(* character has been sent, and a character that is added then waits.      *)
intr_sendStops ==
  /\ HandlerMoves("send", "end")
  /\ \/ /\ tdre /\ send_buf = <<>>
        /\ UNCHANGED <<tie, tdre, tdr, send_buf>>
     \/ tdre /\ send_buf # <<>> /\ send_char /\ tie' = FALSE
     \/ ~tdre /\ UNCHANGED <<tie, tdre, tdr, send_buf>>
  /\ UNCHANGED <<vars, threadVars, consid, recv_buf, rie, rdrf, rdr, ch, typistVars,
                 received, wire>>

(* The second half: the next character is sent, or there is none.          *)
intr_send ==
  /\ HandlerMoves("send", "end")
  /\ \/ /\ tdre /\ send_buf = <<>>
        /\ tie' = FALSE
        /\ UNCHANGED <<tdre, tdr, send_buf>>
     \/ tdre /\ send_buf # <<>> /\ send_char /\ UNCHANGED tie
     \/ ~tdre /\ UNCHANGED <<tie, tdre, tdr, send_buf>>
  /\ UNCHANGED <<vars, threadVars, consid, recv_buf, rie, rdrf, rdr, ch, typistVars,
                 received, wire>>

intr_return ==
  /\ hpc = "end"
  /\ intr_end
  /\ UNCHANGED <<handlerVars, threadVars, consVars, devVars, typistVars, received,
                 wire>>

consdrv_intrproc ==
  intr_recv \/ intr_kick \/ intr_store \/ intr_post \/ intr_send \/ intr_return
-------------------------------------------------------------------------------
(***************************************************************************)
(* The line: the controller shifts a character out; the typist types.      *)
(***************************************************************************)
Transmit ==
  /\ ~tdre
  /\ tdre' = TRUE
  /\ tdr' = NULL
  /\ wire' = IF Patient /\ tdr # NULL THEN Append(wire, tdr) ELSE wire
  /\ UNCHANGED <<vars, threadVars, consVars, tie, rie, rdrf, rdr, handlerVars,
                 typistVars, received>>

(* Everything there is to print has been printed. *)
Quiet == mode = "user" /\ current = Idle /\ send_buf = <<>> /\ tdre /\ ~rdrf

Type ==
  /\ rie /\ ~rdrf
  /\ Patient => Quiet
  /\ \/ /\ typing # <<>>
        /\ rdr' = Head(typing)
        /\ typing' = Tail(typing)
        /\ UNCHANGED typed
     \/ /\ typing = <<>> /\ Len(typed) < MaxLines
        /\ \E l \in Lines :
             /\ typed' = Append(typed, l)
             /\ rdr' = Head(Append(l, "\r"))
             /\ typing' = Tail(Append(l, "\r"))
  /\ rdrf' = TRUE
  /\ UNCHANGED <<vars, threadVars, consVars, tie, rie, tdre, tdr, handlerVars,
                 received, wire>>

-------------------------------------------------------------------------------
Processor ==
  \/ start_threads
  \/ idle_sleep
  \/ command_main
  \/ consdrv_main
  \/ serial_intr
  \/ consdrv_intrproc

ConsNext == Processor \/ Transmit \/ Type

(* The processor never stops, and the controller gets every character out. *)
(* The typist may stop at any time.                                        *)
ConsSpec ==
  /\ ConsInit /\ [][ConsNext]_cvars
  /\ WF_cvars(Processor)
  /\ WF_cvars(Transmit)
-------------------------------------------------------------------------------
(***************************************************************************)
(* What makes the console correct.                                         *)
(***************************************************************************)
ConsTypeOK ==
  /\ TypeOK
  /\ pc \in [{Idle, Consdrv, Command} ->
             {"run_consdrv", "run_command", "chpri", "enable", "sleep",
              "setintr", "recv", "got", "send_buf", "recv_buf", "serial_init",
              "copy", "kick", "unmask", "free",
              "use_alloc", "use_send", "alloc", "send"}]
  /\ req \in Payload \cup {NULL}
  /\ line \in Payload \cup {NULL}
  /\ consid \in Thread \cup {NULL}
  /\ {tie, rie, tdre, rdrf} \subseteq BOOLEAN
  /\ hpc \in {"enter", "kick", "store", "post", "send", "end"}
  /\ \A i \in 1 .. Len(recv_buf) : recv_buf[i] \notin {"\r", "\n"}
  /\ Len(typed) \in 0 .. MaxLines /\ Len(received) \in 0 .. MaxLines

(* The thread that is inside send_string() or send_char() is never         *)
(* interrupted: they are not reentrant.                                    *)
NotReentered == mode = "intr" => pc[Consdrv] \notin {"kick", "unmask", "copy"}

(* Characters in the send buffer never wait for an interrupt that is       *)
(* disabled: whoever leaves the buffer non-empty leaves TIE set, and       *)
(* whoever clears TIE has seen it empty.                                   *)
OutputMoves ==
  mode = "user" /\ pc[Consdrv] # "kick" /\ send_buf # <<>> => tie

(* Both threads wait for something to do. *)
AllWait ==
  mode = "user" /\ receiver["output"] = Consdrv /\ receiver["input"] = Command

(* No request and no line leaks its block, however long the console runs:  *)
(* when both threads wait, only the two buffers of the console are held,   *)
(* although every block is allocated by one thread or by the handler and   *)
(* freed by another thread.                                                *)
NoLeak ==
  AllWait =>
    /\ held = [k \in Pool |-> IF k = PoolOf(CONS_BUFFER_SIZE) THEN 2 ELSE 0]
    /\ free = [k \in Pool |-> BlockNum[k] - held[k]]

(* The lines that are under way from the handler to command_main().        *)
Delivered ==
  IF pc[Command] = "got" /\ param[Command] # NULL
  THEN <<param[Command].p.str>>
  ELSE <<>>
Queued == [i \in 1 .. Len(msgs["input"]) |-> msgs["input"][i].p.str]

(* command_main() gets the lines in the order in which they were typed,    *)
(* each once and whole, however fast they come.                            *)
LinesInOrder ==
  mode # "down" =>
    LET lines == received \o Delivered \o Queued
    IN  /\ IsPrefix(lines, typed)
        /\ typing = <<>> /\ ~rdrf /\ mode = "user" => lines = typed

(* What a patient typist reads: the prompt, and for every line its echo,   *)
(* the answer and the prompt again.                                        *)
Transcript ==
  LET Reply(l) == Encode(l \o <<"\n">>) \o Encode(FlattenSeq(Answer(l))) \o Prompt
  IN  Prompt \o FlattenSeq([i \in 1 .. Len(typed) |-> Reply(typed[i])])

(* The output is that transcript, character by character and complete when *)
(* the console is quiet: nothing is lost, doubled or out of order between  *)
(* the echo of the handler and the writes of the thread.                   *)
OutputIsTranscript ==
  LET output == wire \o (IF tdr = NULL THEN <<>> ELSE <<tdr>>) \o send_buf
  IN  Patient =>
        /\ IsPrefix(output, Transcript)
        /\ Quiet /\ typing = <<>> /\ AllWait => wire = Transcript

(* A patient typist who keeps his lines short never overruns a buffer,     *)
(* nor does the NUL that command_main() puts behind a line, and he never   *)
(* takes the system down.                                                  *)
SendBufferFits == Len(send_buf) <= CONS_BUFFER_SIZE
RecvBufferFits ==
  /\ Len(recv_buf) <= CONS_BUFFER_SIZE
  /\ line # NULL => Len(line.str) < CONS_BUFFER_SIZE
NeverDown == mode # "down"

(* Every line that is entered is received, and whatever there is to print  *)
(* is printed in the end.                                                  *)
Entered(n) == Len(typed) > n \/ (Len(typed) = n /\ typing = <<>>)

EveryLineIsReceived ==
  \A n \in 1 .. MaxLines : Entered(n) ~> Len(received) >= n

OutputEnds == send_buf # <<>> ~> send_buf = <<>>
===============================================================================
