--------------------------------- MODULE Boot ---------------------------------
(***************************************************************************)
(* The command loop of the boot loader (bootload/main.c) with the ELF      *)
(* loader on a small memory.  xmodem_recv() is replaced by its promise,    *)
(* module Transfer, which module Xmodem implements: here the blocks also   *)
(* go into the buffer.  Somebody types lines, sends one of the files, and  *)
(* may press reset, or switch off and on, at any time.                     *)
(*                                                                         *)
(* RAM is the program area and the buffer; the loader's own variables and  *)
(* its stack lie behind it.  Neither gets() nor xmodem_recv() has a bound: *)
(* a line that is too long for main()'s array, or a file that is too long  *)
(* for the buffer, is written over them.  The loader is at "overrun" then, *)
(* and nothing is said of what it does until somebody presses reset.       *)
(* Addresses count cells; no RAM is at address 0, the null pointer.        *)
(***************************************************************************)
EXTENDS Elf

CONSTANTS
  buffer_start,       \* where the buffer begins: it goes to the end of Ram
  XMODEM_BLOCK_SIZE,
  MayEndEarly,        \* see Transfer
  Files,              \* the files that may be sent, each a sequence of blocks
  Lines,              \* the lines that may be typed, or that the rest of a
                      \* broken transfer makes: of any length
  LOAD, DUMP, RUN,    \* the names of the commands
  Spoilt,             \* the places of a block that the line may spoil
  Junk,               \* what RAM holds when it is switched on, or a program left
  NULL

Buffer == {a \in Ram : a >= buffer_start}

(* What main() has room for: a line of 15 characters and its NUL. *)
BUF_SIZE == 16

(* The first n cells of a file have their places in the buffer. *)
InBuffer(n) == \A k \in 1 .. n : buffer_start + k - 1 \in Buffer

ASSUME BootAssumption ==
  /\ Ram \subseteq Nat \ {0} /\ IsFiniteSet(Ram) /\ buffer_start \in Ram
  /\ XMODEM_BLOCK_SIZE \in Nat \ {0}
  /\ Files \subseteq Seq(Seq(FileCell)) /\ NULL \notin Files \cup Int
  /\ Junk \in FileCell /\ Spoilt \subseteq 1 .. XMODEM_BLOCK_SIZE
  /\ Lines \cup {LOAD, DUMP, RUN} \subseteq Seq(1 .. 255)
  /\ \A f \in Files : \A n \in DOMAIN f : Len(f[n]) = XMODEM_BLOCK_SIZE

VARIABLES
  at,         \* "prompt", "command", "loading", "started", "wild", "overrun"
  buf,        \* the line that was typed last
  size,       \* what the last load returned
  loadbuf,    \* the address of the buffer, 0 before the first load
  mem,
  output,     \* what the last command printed
  file,       \* the file of the last load since the start, NULL without one
  stored,     \* its blocks that have been accepted
  outcome     \* what its transfer has returned

mainVars     == <<size, loadbuf>>
transferVars == <<file, stored, outcome>>
vars == <<at, buf, mainVars, mem, output, transferVars>>

T == INSTANCE Transfer

(* A text stands for the words; number and bytes are what was printed in   *)
(* hexadecimal.                                                            *)
Printed(text, number, bytes) == [text |-> text, number |-> number, bytes |-> bytes]
Says(text) == Printed(text, <<>>, <<>>)

Blank     == [a \in Ram |-> Junk]
Scrambled == [a \in Ram |-> Noise]

Init ==
  /\ at = "prompt" /\ buf = <<>>
  /\ size = -1 /\ loadbuf = 0
  /\ mem = Blank
  /\ output = Says("started.")
  /\ file = NULL /\ stored = <<>> /\ outcome = NULL
-------------------------------------------------------------------------------
(* A faulty variant: the variables without an initial value are not cleared. *)
initWithoutBss == size' = -1 /\ UNCHANGED loadbuf

(* The variables get their initial values back; RAM is left alone. *)
init == size' = -1 /\ loadbuf' = 0

(* Who else has been running may have left anything in RAM.                *)
Reset ==
  /\ init
  /\ at' = "prompt"
  /\ \/ mem' \in {mem, Blank}
     \/ at \in {"started", "wild", "overrun"} /\ mem' = Scrambled
  /\ output' = Says("started.")
  /\ file' = NULL /\ stored' = <<>> /\ outcome' = NULL
  /\ UNCHANGED buf

(* The whole line is stored, and its NUL behind it, however long it is.    *)
gets ==
  /\ at = "prompt"
  /\ buf' \in Lines
  /\ at' = IF Len(buf') < BUF_SIZE THEN "command" ELSE "overrun"
  /\ UNCHANGED <<mainVars, mem, output, transferVars>>

load ==
  /\ at = "command" /\ strcmp(buf, LOAD) = 0
  /\ loadbuf' = buffer_start
  /\ at' = "loading"
  /\ file' \in Files /\ stored' = <<>> /\ outcome' = NULL
  /\ output' = Says("")
  /\ UNCHANGED <<buf, size, mem>>

(* A block of cells goes behind the blocks that have been accepted. *)
Puts(block) ==
  mem' = [a \in Ram |->
            LET n == a - (loadbuf + Len(stored) * XMODEM_BLOCK_SIZE) + 1
            IN  IF n \in DOMAIN block THEN block[n] ELSE mem[a]]

(* A faulty variant: the buffer is a cell too short. *)
HasLessRoom == InBuffer((Len(stored) + 1) * XMODEM_BLOCK_SIZE + 1)

(* The next block goes into the buffer. *)
HasRoom == InBuffer((Len(stored) + 1) * XMODEM_BLOCK_SIZE)

Accepts ==
  /\ at = "loading" /\ HasRoom
  /\ T!Accept
  /\ Puts(file[Len(stored) + 1])
  /\ UNCHANGED <<at, buf, mainVars, output>>

(* A block in error has been written to the buffer nevertheless.           *)
Rejects ==
  /\ at = "loading" /\ HasRoom
  /\ Len(stored) < Len(file)
  /\ \E i \in Spoilt : Puts(ReplaceAt(file[Len(stored) + 1], i, Noise))
  /\ UNCHANGED <<at, buf, mainVars, output, transferVars>>

(* A block is stored byte by byte, whether or not the buffer has ended.    *)
Overruns ==
  /\ at = "loading" /\ ~HasRoom
  /\ Len(stored) < Len(file)
  /\ Puts(file[Len(stored) + 1])
  /\ at' = "overrun"
  /\ UNCHANGED <<buf, mainVars, output, transferVars>>

(* A faulty variant: the size of a failed transfer is that of the last one. *)
receivedKeepsSize ==
  /\ at = "loading"
  /\ T!Succeed \/ T!Fail
  /\ size' = IF outcome' < 0 THEN size ELSE outcome'
  /\ at' = "prompt"
  /\ output' = Says(IF outcome' < 0 THEN "receive error!" ELSE "receive succeeded.")
  /\ UNCHANGED <<buf, loadbuf, mem>>

(* load goes on when xmodem_recv() returns. *)
received ==
  /\ at = "loading"
  /\ T!Succeed \/ T!Fail
  /\ size' = outcome'
  /\ at' = "prompt"
  /\ output' = Says(IF outcome' < 0 THEN "receive error!" ELSE "receive succeeded.")
  /\ UNCHANGED <<buf, loadbuf, mem>>

(* dump(): the size, and that many bytes of the buffer. *)
Dumped == [i \in 1 .. size |-> At(mem, loadbuf + i - 1)]

dump ==
  /\ at = "command" /\ strcmp(buf, DUMP) = 0
  /\ output' = IF size < 0
               THEN Printed("no data.", putxval(size, 0), <<>>)
               ELSE Printed("dump", putxval(size, 0), Dumped)
  /\ at' = "prompt"
  /\ UNCHANGED <<buf, mainVars, mem, transferVars>>

(* What a spoilt header says is not known; the segments of a file that was *)
(* not received well may be written anywhere.                              *)
run ==
  /\ at = "command" /\ strcmp(buf, RUN) = 0
  /\ LET r == elf_load(mem, loadbuf)
     IN  \/ /\ r.wild \/ At(mem, loadbuf) = Noise
            /\ at' = "wild"
            /\ UNCHANGED <<mem, output>>
         \/ /\ ~r.wild /\ r.entry = 0
            /\ mem' = r.mem
            /\ output' = Says("run error!")
            /\ at' = "prompt"
         \/ /\ ~r.wild /\ r.entry # 0
            /\ mem' = r.mem
            /\ output' = Printed("starting", putxval(r.entry, 0), <<>>)
            /\ at' = "started"
  /\ UNCHANGED <<buf, mainVars, transferVars>>

unknown ==
  /\ at = "command"
  /\ \A name \in {LOAD, DUMP, RUN} : strcmp(buf, name) # 0
  /\ output' = Says("unknown.")
  /\ at' = "prompt"
  /\ UNCHANGED <<buf, mainVars, mem, transferVars>>

(* The program returns to the loop; it may have written to the memory, but *)
(* stays clear of the buffer.                                              *)
Return ==
  /\ at = "started"
  /\ at' = "prompt"
  /\ mem' \in {mem, [a \in Ram |-> IF a \in Buffer THEN mem[a] ELSE Junk]}
  /\ UNCHANGED <<buf, mainVars, output, transferVars>>

Next ==
  \/ Reset
  \/ gets \/ load \/ dump \/ run \/ unknown
  \/ Accepts \/ Rejects \/ Overruns \/ received
  \/ Return

Spec == Init /\ [][Next]_vars
-------------------------------------------------------------------------------
TypeOK ==
  /\ at \in {"prompt", "command", "loading", "started", "wild", "overrun"}
  /\ buf \in Lines \cup {<<>>}
  /\ size \in -1 .. Cardinality(Buffer)
  /\ loadbuf = IF file = NULL THEN 0 ELSE buffer_start
  /\ mem \in [Ram -> Cell]
  /\ file \in Files \cup {NULL}
  /\ outcome = NULL \/ outcome \in -1 .. Cardinality(Buffer)

(***************************************************************************)
(* What a file says, read as the ELF format means it and not as the loader *)
(* goes through it: the segments, and what each address holds when they    *)
(* are all in place.                                                       *)
(***************************************************************************)
Contents(f) == FlattenSeq(f)

Header(f) == Contents(f)[1]

Entry(f, i) == Contents(f)[Header(f).program_header_offset + i]

Segments(f) == {i \in 1 .. Header(f).program_header_num : Entry(f, i).type = 1}

Extent(ph) ==
  ph.physical_addr .. ph.physical_addr + Max({ph.file_size, ph.memory_size}) - 1

(* What segment i says of address a. *)
Content(f, i, a) ==
  LET ph == Entry(f, i)
      n  == a - ph.physical_addr
  IN  IF n < ph.file_size THEN Contents(f)[ph.offset + n + 1] ELSE Zero

Image(f) ==
  [a \in UNION {Extent(Entry(f, i)) : i \in Segments(f)} |->
     Content(f, Max({i \in Segments(f) : a \in Extent(Entry(f, i))}), a)]

(* A header, a table of program headers behind each other, and segments    *)
(* that lie in the file.                                                   *)
WellFormed(f) ==
  /\ f # <<>> /\ Header(f) \in ElfHeader /\ Header(f).program_header_size = 1
  /\ \A i \in 1 .. Header(f).program_header_num :
       /\ Header(f).program_header_offset + i \in DOMAIN Contents(f)
       /\ Entry(f, i) \in ProgramHeader
  /\ \A i \in Segments(f) :
       LET ph == Entry(f, i)
       IN  /\ {ph.offset, ph.file_size, ph.memory_size} \subseteq Nat
           /\ ph.offset + ph.file_size <= Len(Contents(f))

(* The file is for this memory: it goes into the buffer, and its program   *)
(* stays clear of it.                                                      *)
Fits(f) ==
  /\ WellFormed(f)
  /\ InBuffer(Len(f) * XMODEM_BLOCK_SIZE)
  /\ DOMAIN Image(f) \subseteq Ram \ Buffer

(* The last load has brought the whole of a file that fits. *)
LoadedWhole == outcome \notin {NULL, -1} /\ stored = file /\ Fits(file)

ReadBack(digits) ==
  LET value[k \in 0 .. Len(digits)] ==
        IF k = 0 THEN 0 ELSE 16 * value[k - 1] + digits[k]
  IN  value[Len(digits)]

(* When the last load brought a whole file, run starts that program with   *)
(* all its segments in place and what has to be zero cleared, also when it *)
(* is run again after it has used its memory, after failed loads of other  *)
(* files, and whatever was in RAM before; and run never goes wild.         *)
StartedIsWhole ==
  LoadedWhole =>
    /\ at # "wild"
    /\ at = "started" =>
         /\ \A a \in DOMAIN Image(file) : mem[a] = Image(file)[a]
         /\ ReadBack(output.number) = Header(file).entry_point

(* Without a load since the start nothing is ever run, though RAM may hold *)
(* a good file from before the reset: loadbuf leads to the vectors.        *)
RunNeedsALoad == at \in {"started", "wild"} => file # NULL

(* dump prints the size of the last load, as a number that reads back and  *)
(* fits the digits of a long, and just the bytes that load has accepted,   *)
(* whatever else the line has put into the buffer: none when the load      *)
(* failed or there was none.                                               *)
DumpIsTheLoad ==
  output.text \in {"dump", "no data."} /\ (file = NULL \/ Fits(file)) =>
    LET loaded == IF outcome = NULL THEN -1 ELSE outcome
    IN  /\ Len(output.number) \in 1 .. XDIGITS
        /\ ReadBack(output.number) = loaded % Power[XDIGITS]
        /\ output.bytes = IF loaded < 0 THEN <<>> ELSE FlattenSeq(stored)

(* Of the lines that main() has room for only the name of a command does   *)
(* anything: after any other one the loader is back at its prompt, with    *)
(* RAM, the buffer and what it knows of the last load as they were, unless *)
(* somebody has pressed reset.  Nothing of the kind is promised for longer *)
(* lines, which the padding of a broken transfer may well make: see gets.  *)
OnlyCommandsAct ==
  [][at = "command" /\ buf \notin {LOAD, DUMP, RUN} =>
       \/ Reset
       \/ at' = "prompt" /\ UNCHANGED <<mainVars, mem, transferVars>>]_vars

(* The loader's variables and its stack are written over only by a line of *)
(* 16 characters and more, or in a load of a file that is longer than the  *)
(* buffer: blocks that came spoilt, or came again, take no room, and the   *)
(* last block may end with the buffer.                                     *)
FittingInputIsSafe ==
  at = "overrun" =>
    \/ Len(buf) >= BUF_SIZE
    \/ file # NULL /\ ~InBuffer(Len(file) * XMODEM_BLOCK_SIZE)
===============================================================================
