-------------------------------- MODULE Xmodem --------------------------------
(***************************************************************************)
(* The XMODEM receiver of the boot loader (bootload/xmodem.c), a sender at *)
(* the other end of the serial line, and what the line does to the bytes.  *)
(* The receiver polls: reading one byte, and what it makes of it, is one   *)
(* step.                                                                   *)
(*                                                                         *)
(* The sender is not part of the repository.  It does what the receiver    *)
(* asks for: it begins when it gets a NAK, sends the next block for an ACK *)
(* and the same block for a NAK, or when nothing has come for a long time, *)
(* and ends the file with EOT.  It is faster than the NAK interval.        *)
(***************************************************************************)
EXTENDS Integers, SequencesExt

CONSTANTS
  File,                 \* the blocks of the file, each a sequence of bytes
  XMODEM_BLOCK_SIZE,    \* number of bytes of a block
  MaxFaults,            \* number of bytes and answers the line spoils (a bound)
  Spoilt,               \* the places of a block at which it may spoil a byte
  Noise,                \* what a spoilt byte may become
  Loses,                \* the answers it may lose
  LosesBytes,           \* may it lose a byte of a block?
  MayCancel,            \* may the sender cancel?
  NULL

XMODEM_SOH == 1
XMODEM_EOT == 4
XMODEM_ACK == 6
XMODEM_NAK == 21
XMODEM_CAN == 24

Byte == 0 .. 255

ASSUME FileAssumption ==
  /\ XMODEM_BLOCK_SIZE \in Nat \ {0}
  /\ File \in Seq(Seq(Byte))
  /\ \A n \in 1 .. Len(File) : Len(File[n]) = XMODEM_BLOCK_SIZE
  /\ MaxFaults \in Nat /\ Noise \subseteq Byte /\ NULL \notin Int

VARIABLES
  pc,            \* the byte that is read next; "done": xmodem_recv() returned
  receiving,     \* has a block begun?  (The code counts.)
  block_number,  \* the number of the block it waits for
  check_sum,     \* the sum of the bytes of this block
  buf,           \* what has been stored, the bytes of this block included
  size,          \* the bytes of the blocks it has accepted
  result,        \* what xmodem_recv() returned
  sending,       \* the block the sender is at, 0 before the first NAK
  rx, tx,        \* the bytes and the answers that are on the line
  faults         \* how often the line may still spoil something

receiverVars == <<pc, receiving, block_number, check_sum, buf, size, result>>
vars == <<receiverVars, sending, rx, tx, faults>>

Init ==
  /\ pc = "command" /\ receiving = FALSE
  /\ block_number = 1 /\ check_sum = 0
  /\ buf = <<>> /\ size = 0 /\ result = NULL
  /\ sending = 0
  /\ rx = <<>> /\ tx = <<>>
  /\ faults = MaxFaults
-------------------------------------------------------------------------------
(***************************************************************************)
(* The receiver.                                                           *)
(***************************************************************************)
(* serial_recv_byte() at place p of the program, and the byte it gives. *)
Reads(p) ==
  /\ pc = p
  /\ rx # <<>>
  /\ rx' = Tail(rx)

c == Head(rx)

(* serial_send_byte() *)
Answers(a) == tx' = Append(tx, a)

(* NAKs go out at intervals until something arrives. *)
xmodem_wait ==
  /\ pc = "command" /\ ~receiving
  /\ rx = <<>> /\ tx = <<>>
  /\ Answers(XMODEM_NAK)
  /\ UNCHANGED <<receiverVars, sending, rx, faults>>

Returns(r) ==
  /\ pc' = "done"
  /\ result' = r
  /\ UNCHANGED <<receiving, block_number, check_sum, buf, size>>

(* A faulty variant: the loop goes on after EOT. *)
xmodem_recvNoBreak ==
  /\ Reads("command")
  /\ \/ c = XMODEM_EOT /\ Answers(XMODEM_ACK) /\ UNCHANGED receiverVars
     \/ c = XMODEM_CAN /\ Returns(-1) /\ UNCHANGED tx
     \/ /\ c = XMODEM_SOH
        /\ receiving' = TRUE
        /\ pc' = "number"
        /\ UNCHANGED <<block_number, check_sum, buf, size, result, tx>>
     \/ /\ c \notin {XMODEM_EOT, XMODEM_CAN, XMODEM_SOH}
        /\ \/ receiving /\ Returns(-1)
           \/ ~receiving /\ UNCHANGED receiverVars
        /\ UNCHANGED tx
  /\ UNCHANGED <<sending, faults>>

xmodem_recv ==
  /\ Reads("command")
  /\ \/ c = XMODEM_EOT /\ Answers(XMODEM_ACK) /\ Returns(size)
     \/ c = XMODEM_CAN /\ Returns(-1) /\ UNCHANGED tx
     \/ /\ c = XMODEM_SOH
        /\ receiving' = TRUE
        /\ pc' = "number"
        /\ UNCHANGED <<block_number, check_sum, buf, size, result, tx>>
     \/ /\ c \notin {XMODEM_EOT, XMODEM_CAN, XMODEM_SOH}
        /\ \/ receiving /\ Returns(-1)
           \/ ~receiving /\ UNCHANGED receiverVars
        /\ UNCHANGED tx
  /\ UNCHANGED <<sending, faults>>

(* A faulty variant: a block in error is acknowledged. *)
RejectsAcks ==
  /\ Answers(XMODEM_ACK)
  /\ pc' = "command"
  /\ buf' = SubSeq(buf, 1, size)
  /\ UNCHANGED <<receiving, block_number, check_sum, size, result>>

(* A block in error: buf and size do not advance, and what was stored of   *)
(* the block is going to be overwritten.                                   *)
Rejects ==
  /\ Answers(XMODEM_NAK)
  /\ pc' = "command"
  /\ buf' = SubSeq(buf, 1, size)
  /\ UNCHANGED <<receiving, block_number, check_sum, size, result>>

(* On to the next byte of the block. *)
Goes(p) == pc' = p /\ UNCHANGED <<receiving, block_number, buf, size, result, tx>>

read_number ==
  /\ Reads("number")
  /\ \/ c # block_number /\ Rejects
     \/ c = block_number /\ Goes("complement") /\ UNCHANGED check_sum
  /\ UNCHANGED <<sending, faults>>

(* block_num ^ c is 0xff just when c is the complement of block_num. *)
read_complement ==
  /\ Reads("complement")
  /\ \/ c # 255 - block_number /\ Rejects
     \/ c = 255 - block_number /\ Goes("data") /\ check_sum' = 0
  /\ UNCHANGED <<sending, faults>>

read_data ==
  /\ Reads("data")
  /\ buf' = Append(buf, c)
  /\ check_sum' = (check_sum + c) % 256
  /\ pc' = IF Len(buf') = size + XMODEM_BLOCK_SIZE THEN "check" ELSE "data"
  /\ UNCHANGED <<receiving, block_number, size, result, tx, sending, faults>>

(* A faulty variant: the number of a block is an int. *)
AcceptsUnwrapped ==
  /\ block_number' = block_number + 1
  /\ size' = size + XMODEM_BLOCK_SIZE
  /\ Answers(XMODEM_ACK)
  /\ pc' = "command"
  /\ UNCHANGED <<receiving, check_sum, buf, result>>

Accepts ==
  /\ block_number' = (block_number + 1) % 256
  /\ size' = size + XMODEM_BLOCK_SIZE
  /\ Answers(XMODEM_ACK)
  /\ pc' = "command"
  /\ UNCHANGED <<receiving, check_sum, buf, result>>

(* A faulty variant: the check sum is not compared. *)
read_checkNot == Reads("check") /\ Accepts /\ UNCHANGED <<sending, faults>>

read_check ==
  /\ Reads("check")
  /\ \/ c = check_sum /\ Accepts
     \/ c # check_sum /\ Rejects
  /\ UNCHANGED <<sending, faults>>

Receiver ==
  \/ xmodem_wait
  \/ xmodem_recv
  \/ read_number
  \/ read_complement
  \/ read_data
  \/ read_check
-------------------------------------------------------------------------------
(***************************************************************************)
(* The sender and the line.                                                *)
(***************************************************************************)
(* The check sum of the first bytes of a block, and of all of them. *)
Sums(s) ==
  LET up[k \in 0 .. Len(s)] == IF k = 0 THEN 0 ELSE (up[k - 1] + s[k]) % 256
  IN  up

Sum(s) == Sums(s)[Len(s)]

(* Where the sender is when it has sent EOT and got its ACK, or cancelled. *)
Finished  == Len(File) + 2
Cancelled == Len(File) + 3

(* What is sent for block n: the block, or EOT behind the last one. *)
Packet(n) ==
  IF n <= Len(File)
  THEN <<XMODEM_SOH, n % 256, 255 - (n % 256)>> \o File[n] \o <<Sum(File[n])>>
  ELSE <<XMODEM_EOT>>

Spoils(s) ==
  {ReplaceAt(s, i, x) : i \in Spoilt \cap DOMAIN s, x \in Noise} \ {s}

Shortened(s) ==
  IF LosesBytes THEN {RemoveAt(s, i) : i \in DOMAIN s} ELSE {}

Sends(n) ==
  /\ sending' = n
  /\ \/ n < Finished /\ rx' = rx \o Packet(n) /\ UNCHANGED faults
     \/ /\ n < Finished
        /\ faults > 0
        /\ \E s \in Spoils(Packet(n)) \cup Shortened(Packet(n)) : rx' = rx \o s
        /\ faults' = faults - 1
     \/ n >= Finished /\ UNCHANGED <<rx, faults>>

GetsAnswer ==
  /\ tx # <<>>
  /\ tx' = Tail(tx)
  /\ \/ Head(tx) = XMODEM_NAK /\ Sends(IF sending = 0 THEN 1 ELSE sending)
     \/ /\ Head(tx) = XMODEM_ACK
        /\ \/ sending \in 1 .. Finished - 1 /\ Sends(sending + 1)
           \/ sending \notin 1 .. Finished - 1 /\ UNCHANGED <<sending, rx, faults>>
  /\ UNCHANGED receiverVars

(* Nothing has come for a long time, and nothing is on its way. *)
TimesOut ==
  /\ rx = <<>> /\ tx = <<>> /\ pc # "done"
  /\ sending \in 1 .. Finished - 1
  /\ Sends(sending)
  /\ UNCHANGED <<receiverVars, tx>>

Cancels ==
  /\ MayCancel
  /\ sending \in 1 .. Len(File)
  /\ rx = <<>> /\ tx # <<>>
  /\ sending' = Cancelled
  /\ rx' = <<XMODEM_CAN>>
  /\ tx' = Tail(tx)
  /\ UNCHANGED <<receiverVars, faults>>

AnswerLost ==
  /\ tx # <<>> /\ Head(tx) \in Loses
  /\ faults > 0
  /\ faults' = faults - 1
  /\ tx' = Tail(tx)
  /\ UNCHANGED <<receiverVars, sending, rx>>

Next == Receiver \/ GetsAnswer \/ TimesOut \/ Cancels \/ AnswerLost

(* The receiver reads on, and the sender answers or runs into its time-out.*)
Spec ==
  /\ Init /\ [][Next]_vars
  /\ WF_vars(Receiver)
  /\ WF_vars(GetsAnswer)
  /\ WF_vars(TimesOut)
-------------------------------------------------------------------------------
TypeOK ==
  /\ pc \in {"command", "number", "complement", "data", "check", "done"}
  /\ receiving \in BOOLEAN
  /\ block_number \in Byte /\ check_sum \in Byte
  /\ Range(buf) \subseteq Byte
  /\ size \in 0 .. Len(buf)
  /\ result = NULL \/ result \in {-1, size}
  /\ sending \in 0 .. Cancelled
  /\ Range(rx) \subseteq Byte
  /\ Range(tx) \subseteq {XMODEM_ACK, XMODEM_NAK}
  /\ faults \in 0 .. MaxFaults

(* The receiver keeps the promise of module Transfer: what counts in the  *)
(* buffer grows by one whole block of the file at a time and never         *)
(* changes again, so a block that was spoilt, repeated or cut short is     *)
(* never taken for one of the file, and it returns once, with the size of  *)
(* what it has accepted.  Only a line that spoils the bytes in front of    *)
(* the data, loses bytes, or loses ACKs (the block comes again, and its    *)
(* number is refused) can make it read data as commands and end early.     *)
HeadersAreSafe ==
  Spoilt \cap 1 .. 3 = {} /\ ~LosesBytes /\ XMODEM_ACK \notin Loses

AcceptedBlocks ==
  [n \in 1 .. size \div XMODEM_BLOCK_SIZE |->
     SubSeq(buf, (n - 1) * XMODEM_BLOCK_SIZE + 1, n * XMODEM_BLOCK_SIZE)]

Promise == INSTANCE Transfer WITH
  MayEndEarly <- ~HeadersAreSafe,
  file        <- File,
  stored      <- AcceptedBlocks,
  outcome     <- result

ImplementsTransfer == Promise!Spec

(* While the receiver has not returned, the sender is not ahead of it: the *)
(* blocks that a sender who has not cancelled takes for delivered have been *)
(* accepted.                                                               *)
SenderNotAhead ==
  pc # "done" /\ sending # Cancelled =>
    (sending - 1) * XMODEM_BLOCK_SIZE <= size

(* A transfer that succeeds has brought the whole file. *)
SuccessIsWhole ==
  result \notin {NULL, -1} => SubSeq(buf, 1, size) = FlattenSeq(File)

(* The receiver returns in the end, with or without success, unless the    *)
(* sender cancels: a receiver that has fallen out of step, and takes data  *)
(* for commands or commands for data, does not wait forever.               *)
Ends == <>(result # NULL \/ sending = Cancelled)

(* The transfer succeeds in the end, whatever the line spoils.             *)
Completes == <>(result = Len(File) * XMODEM_BLOCK_SIZE)
===============================================================================
