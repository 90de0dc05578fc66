# KOZOS in TLA+

A verification development for KOZOS, the small operating system for the
H8/3069F of the book "Embedded OS in 12 Steps": TLA+ modules of the kernel, its
memory pools and its console, and of its boot loader with the XMODEM receiver
and the ELF loader, the TLC configurations that check them, and theorems about
kernel, pools, console and boot loader that TLAPS has checked. `kozos.c` and the other
file names below are in `src/src/os/`, unless they say `bootload/`.

## 1. The system

KOZOS runs on one processor, without memory protection. A boot loader in ROM
(`bootload/`) receives an ELF file over the serial line with XMODEM, unpacks it
into RAM and jumps to it. That file is the OS (`os/`): a kernel with preemptive
threads, and three threads on it: the console driver, the command interpreter
and the idle thread.

| Component | State | Operations | Works with |
|---|---|---|---|
| Threads and scheduling (`kozos.c`, `syscall.c`) | `threads[]`, `current`, `readyque[]` | `kz_run`, `kz_exit`, `kz_wait`, `kz_sleep`, `kz_wakeup`, `kz_getid`, `kz_chpri`, soft errors, `schedule` | all threads, by traps |
| Message boxes (`kozos.c`) | `msgboxes[]`: queue and registered receiver | `kz_send`, `kx_send`, `kz_recv` | allocates and frees its buffers in the pools |
| Interrupts (`kozos.c`, `interrupt.c`, `bootload/intr.S`) | `handlers[]`, soft vectors, the mask in CCR | `kz_setintr`, `thread_intr`, `INTR_ENABLE`, `INTR_DISABLE` | the handler makes service calls `kx_*` |
| Memory pools (`memory.c`) | `pool[]`, free lists in the blocks | `kzmem_alloc`, `kzmem_free` | called by the kernel only |
| Console driver (`consdrv.c`) | `consreg[]`: user, both buffers and their lengths | thread `consdrv_main`, handler `consdrv_intr` | boxes CONSOUTPUT (requests) and CONSINPUT (lines), serial driver |
| Command thread (`command.c`) | the line it holds | `command_main` | sends requests to the driver, receives lines |
| Start-up (`main.c`) | - | creates both threads, becomes the idle thread | kernel |
| Serial driver (`serial.c`) | SCR, SSR, TDR, RDR | send and receive a byte, enable interrupts | polled and by interrupt |
| Library (`lib.c`) | - | memory and string functions, `puts`, `gets`, `putxval` | serial driver |
| Context switch (`startup.s`, `bootload/intr.S`, `bootload/vector.c`, `ld.scr`) | registers, stacks | save, `dispatch` | kernel |
| XMODEM receiver (`bootload/xmodem.c`) | block number, size | `xmodem_recv` | polled serial driver |
| ELF loader (`bootload/elf.c`) | - | `elf_load` | the buffer that XMODEM filled |
| Loader commands (`bootload/main.c`) | `size`, `loadbuf` | `load`, `dump`, `run` | both |

### What is hard

* **Interleaving.** An interrupt may come between any two instructions of a
  thread that has not masked it. Handler and thread share the send buffer, TIE
  and the message boxes. A delivery in the handler may preempt the thread.
* **Two copies of one fact.** A thread is ready if its READY bit is set and if
  it is in a list; it waits if it is off the lists and if a box names it. The
  copies change in different functions. `getcurrent()` trusts that `current` is
  the head of its list.
* **Ownership across threads.** A block is allocated by one thread (or the
  handler), passed on in a message and freed by another.
* **Limits.** Six TCBs, twenty blocks, two buffers of 24 bytes; some limits take
  the system down, some are not looked at.
* **Boot loader.** A protocol over a line that loses characters, with a receiver
  that waits for the next one forever. Commands in any order on a buffer that
  failed loads, other files and resets have left behind, from which a program is
  unpacked that may lie over it.

`PROJECT.json` lists the hazards one by one, with the line where each bites and
the properties that watch it.

### What correctness means

* Scheduling: bits and lists agree; the first thread of the highest priority
  runs; round robin among equals; nobody is forgotten.
* Boxes: each box is a first-in first-out channel; a receiver that waits gets
  the next message; no wake-up is lost; a delivery writes only to a thread that
  is inside that `kz_recv()`.
* Pools: a block has one owner; free lists hold all other blocks; a block is as
  large as was asked for.
* Console: lines reach the command thread whole and in order; the output is the
  expected text and comes out in the end; buffers hold; nothing leaks.
* Boot loader: what is accepted is the beginning of the file; a program that came
  whole is started whole, with its `.bss` cleared; nothing runs without a load.

## 2. Modules

| Module | Models | Kind |
|---|---|---|
| `ReadyQueue` | `getcurrent()`, `putcurrent()` on ready queues and READY bits | operators |
| `Kozos` | the kernel: every system call, service call, soft error, interrupt entry and end | state machine, `EXTENDS ReadyQueue` |
| `ReadyList` | the same with `head`, `tail` and `next` | operators, `EXTENDS ReadyQueue` |
| `KozosLists` | the actions of `Kozos` carried out on the linked lists | state machine, `EXTENDS Kozos` |
| `Mailbox` | what a message box promises | abstract specification; `Kozos` refines it |
| `Console` | console driver, command thread, start-up, serial controller, typist | state machine on the actions of `Kozos` |
| `Memory` | `memory.c` with its linked lists and headers | state machine |
| `Allocator` | what an allocator promises | abstract specification; `Memory` refines it |
| `Xmodem` | `bootload/xmodem.c`, a sender and the line between them | state machine |
| `Transfer` | what `xmodem_recv()` promises | abstract specification; `Xmodem` refines it, `Boot` relies on it |
| `Lib` | memory, strings and `putxval()` of `lib.c` | operators |
| `Elf` | `bootload/elf.c` | operators, `EXTENDS Lib` |
| `Boot` | `bootload/main.c`: the command loop | state machine, `EXTENDS Elf`, `INSTANCE Transfer` |
| `Induction` | induction over a set of numbers, recursive functions, sums over finite sets, sequences flattened | lemmas |
| `KozosProofs`, `KozosStepProofs`, `KozosListsProofs`, `ConsoleProofs`, `MemoryProofs`, `XmodemProofs`, `BootProofs` | - | theorems |
| `MCKozos`, `MCKozosLists`, `MCConsole`, `MCMemory`, `MCXmodem`, `MCBoot` | - | constants for TLC |

### Kozos

A trap or an interrupt masks interrupts, and the kernel runs without one until
`dispatch()`; so a system call is **one action**: `kz_syscall()` records the
call, `syscall_proc()` takes the caller off its queue (`Taken`), the function of
the call runs, `schedule` picks the next thread. `call_functions()` is the
disjunction `ThreadStep`. An interrupt is a **run of actions**: `thread_intr`
enters the handler (`mode = "intr"`), the handler makes service calls
(`kx_*`; `srvcall_proc()` clears `current`), `intr_end` is the `schedule()`
behind it. The handler is arbitrary as the threads are.

| Variable | Code |
|---|---|
| `current` | `current` |
| `rq` | `readyque[]` with the `next` pointers; `KZ_THREAD_FLAG_READY` |
| `live`, `priority` | `init.func` is set; `priority` |
| `call`, `param` | `syscall.type`; the recv part of the block `syscall.param` points to |
| `masked` | the I bit of the CCR in the saved context |
| `receiver`, `msgs` | `msgboxes[]` |
| `free`, `held` | free blocks of every pool; blocks that threads own |
| `handler` | soft vector and `handlers[SOFTVEC_TYPE_SERINTR]` |
| `stacks` | how far `thread_stack` has come |
| `mode` | thread, handler, or the endless loop of `kz_sysdown()` |

The kernel checks few arguments. The model lets threads pass any argument
within limits named in the header of the module: priorities and boxes in range,
live threads to `kz_wakeup()`, owned blocks to `kz_kmfree()`, `kz_setintr()` for
the serial vector. `WakeReceivers` says whether a thread inside `kz_recv()` may
be woken up; run `wakeup` shows why callers must not.

Messages are a sender and a payload (a model value for size and pointer). The
blocks are numbers here; module `Memory` has the lists.

### KozosLists

`Kozos` keeps a ready queue as a sequence. `KozosLists` adds one variable,
`lists`, with `readyque[].head`, `readyque[].tail`, `next` and the READY bits,
and carries out on it, in their order, the `getcurrent()`, `memset()` and
`putcurrent()` of every function. `putcurrent()` does not write `next` of the
thread it appends; `ListsFollow` says that the lists hold the sequences all the
same, so what `schedule()` finds at a head is what `Kozos` says it finds.

### Console

Every thread is a program counter `pc[t]` between two system calls, and a call
is the action of `Kozos` with what the caller does around it. Code between two
calls is a step of its own where it touches what the handler shares:
`send_string()` and `send_char()` are separate steps, in the thread and in the
handler, so an interrupt fits between them unless it is masked. The serial
controller is TIE, RIE, TDRE, RDRF, TDR and RDR. `Transmit` shifts a character
out; `Type` lets the typist enter the next character of a line, when the last
one was read. A *patient* typist also waits for the output to end.

Threads have the TCBs 0, 1, 2 in the order of their creation. Priorities keep
their order (0, 1, 8, 15 become 0, 1, 2, 3). Strings are sequences of
characters, because buffer lengths and the transcript are what is checked.

`PoolOf(n)` is the pool `kzmem_alloc()` takes a block of n bytes from, or `NULL`
when no pool has blocks of that size, and the system goes down.

### Memory

Blocks are named by their addresses, as `kzmem_init()` lays them out, with
`next` and `size` from the header. The owner of a block fills the bytes it asked
for (`Fill`); should they reach a header, the header is overwritten, so a wrong
size test shows. The sizes are those of the code, 16, 32 and 64 bytes with a
header of 8 (a pointer of 4, an int of 2, aligned to 4); `size` is compared as an
unsigned number, so that a negative one fits nowhere.

### Xmodem

The receiver polls, so one byte read, with what follows up to the next read, is
one action; `pc` says which byte it is: a command, the block number, its
complement, data, or the check sum. Bytes have their 256 values and the sums
and block numbers wrap. `buf` holds the accepted bytes and those of the block
that is being read; bytes of a rejected block are dropped at once, as the code
will overwrite them. The sender is not in the repository: it answers to ACK and
NAK, repeats a block when nothing has come and nothing is on its way, and
may cancel between two blocks. The line spoils or loses at most one byte of a
packet (8 bits of sum tell no more) and loses answers, `MaxFaults` times.

`Transfer` is what the caller may rely on: the blocks of the file are accepted one
by one, and the result is their size or -1. `Xmodem` implements it, with the
blocks of `buf` below `size` for `stored` and `result` for `outcome`.
`MayEndEarly` is the one thing that depends on the line: it is false when only
data and check sums are spoilt and no ACK is lost (`HeadersAreSafe`).

### Boot

| Variable | Code |
|---|---|
| `at` | where `main()` is: at the prompt, with a line, in `xmodem_recv()`, in the program it started; `"wild"` when it took something else for a program header, or a spoilt header for a program; `"overrun"` when input has been written over its variables |
| `buf`, `size`, `loadbuf` | the variables of `main()` |
| `mem` | RAM: the program area and, behind it, the buffer |
| `output` | what the last command has printed, numbers as their digits |
| `file`, `stored`, `outcome` | the variables of `Transfer` |

A memory is a function from addresses to cells. A header or program header is
one cell, a record of the fields `elf.c` reads; a byte of the program is one
cell, too. So offsets and sizes count cells, and the arithmetic on them is that
of the code. `FileCell` says what a file may consist of: headers whose numbers are
any, and data. `elf_load()` is a function of the memory: a loop over the
segments that reads the header anew for every one, its number of segments too,
and the entry point last. The loop is written out for as many rounds as any
header in memory may ask for (`Most`); rounds the code does not make change
nothing.
`xmodem_recv()` is replaced by the actions of `Transfer`; `Accepts` also writes
the block to the buffer, and `Rejects` writes a spoilt one where the next block
will go. `Reset` may come at any time and keeps RAM, or does not.

Neither `gets()` nor `xmodem_recv()` has a bound. A line of more than 15 characters
is written over what lies behind `buf[16]` (`gets`), and a block that the buffer
has no room for (`HasRoom`) over the loader's data and stack, which lie behind
the buffer (`Overruns`). `Lines` and `Files` may hold such input, and the padding of a
broken transfer is a line of the kind. The model then is at `"overrun"` and says
nothing of what the loader does there; only `Reset` leads on, and RAM may hold
anything (`Scrambled`), as it may when a program that was started, or one
that went wild, has been running.

`Image(file)` is the reference: what each address has to hold, read off the
program headers without going through the loader: the last segment that covers an
address says what it holds, a byte of the file or zero. `StartedIsWhole` compares.
It asks this of every file that `Fits`: it goes into the buffer, it is `WellFormed` (a header, a table of
program headers behind each other, segments inside the file) and its program stays
clear of the buffer.

## 3. Runs

| Run | Shows | Instance |
|---|---|---|
| `sched` | types, queues sound, linked lists hold them, strict priority, round robin | 3 TCBs, 2 priorities, no box, 1 block, 4 stacks |
| `box` | boxes are channels (refinement of `Mailbox`), receivers wait, no missed message, deliveries preempt, only TCBs in use are ready, only known reasons to be off the queues, blocks conserved | 2 TCBs, 2 priorities, 2 boxes, 2 payloads, 2 blocks, 3 stacks |
| `run_full` | *violation*: a `kz_run()` with a full table loses its caller | 3 TCBs |
| `wakeup` | *violation*: a woken receiver stays registered | `WakeReceivers = TRUE` |
| `console_fast` | no reentrance, output never stalls, no leak, lines in order and all received, output ends | short texts, 2 lines, typist who waits for nothing |
| `console_full` | buffers fit, no system down, exact transcript | texts of `command.c` in full, 2 lines, patient typist |
| `long_echo` | *violation*: echo with 13 characters overruns the send buffer | one line |
| `memory` | free lists hold the unused blocks, headers stay, refinement of `Allocator` | pools of 3, 3 and 2 blocks, sizes at every limit |
| `xmodem` | transfer completes with the whole file, block number wraps; refinement of `Transfer` with `MayEndEarly` false | 258 blocks of 2 bytes, 2 faults in data, check sum or NAK |
| `xmodem_lossy` | refinement of `Transfer`, sender not ahead, receiver returns | 3 blocks, 3 faults anywhere, cancel |
| `boot` | programs that came whole are started whole, none without a load, dump prints the load, other lines that `main()` has room for do nothing, only input that is too long overruns | 12 addresses, 6 files of up to 3 blocks of 4 cells for a buffer of 2, 7 lines |
| `xmodem_eot` | *violation*: a data byte is taken for EOT, success with a part of the file | 3 blocks, 1 fault in the header |

### Bounds

* `STACK_NUM` bounds the threads that are ever created (the code has no limit).
  With one more stack than is needed to fill the table, a thread exits and its
  TCB is used again while the others run, sleep or wait.
* Three threads on two priorities (`sched`): a queue with a head, a middle and a
  tail, and a higher and a lower queue. Boxes are left to `box`, which has what
  needs two boxes, two messages in order, or a delivery to a higher priority.
* `box` keeps two payloads apart, so a swapped order shows; two boxes, so that a
  thread in one and a message in the other shows. Boxes and payloads are
  symmetric: no definition tells them apart.
* `MaxLines = 2`: the second line meets what the first one left, in buffers,
  boxes and pools. The typist may stop at any time.
* In `console_fast` a character stands for a word, and lines are empty or one
  word, so that lines come faster than the answers are printed. In
  `console_full` lines are empty, an echo with 12 characters (the longest that
  fits) and 23 other characters (the longest whose terminator fits).
* `memory` has fewer blocks than the code (8, 8, 4) but every pool is filled,
  emptied and refilled in every order. Requests lie on both sides of each limit.
* `xmodem` has blocks of 2 bytes instead of 128, so that every place of a block,
  first, last and between, still exists, and more blocks than a byte counts.
  Blocks begin with EOT, CAN or other bytes, so that data taken for a command
  shows. Three faults are enough for a spoilt block, a spoilt repetition and a
  lost answer.
* `boot` has a program of two segments, the second with a `.bss`; one whose first
  program header is of another type and whose segment is larger in the file
  than in memory; one whose `.bss` reaches the buffer and wipes its own header;
  one for another processor; an empty file; and one of a block more than the
  buffer. Two of them fill the buffer to its last cell, so a load may fail half-way
  over an older file, and the limit is met from both sides. Lines are the three
  names, a part of one, a name with something behind it, and 15 and 16 characters of
  XMODEM's padding, the longest that `main()` has room for and one more. A block is spoilt in its first
  or second cell: the header, a program header, or data.

`CHECK_DEADLOCK FALSE` is set for `Kozos` and `Memory`, where `kz_sysdown()`
really stops, and for `Xmodem`, where the receiver returns. The console runs
check for deadlock.

### Fairness

The runs of the kernel, of the pools and of `Boot` have none. `ConsSpec` has weak fairness of `Processor` (the
processor always executes the thread or handler it is at) and of `Transmit` (the
controller shifts a character out in the end). Nothing is assumed of the
typist, and nothing of single threads: that `consdrv` gets the processor is
the kernel's business, and follows from the priorities. This is what
`EveryLineIsReceived` and `OutputEnds` rest on.

`Xmodem` has weak fairness of the receiver (it polls in a loop) and of the
sender's answers and time-outs (a sender that does not give up). Nothing is
assumed of the line but that its faults are finite.

## 4. Theorems

| Module | Theorem | Proves |
|---|---|---|
| `KozosProofs` | `Typing`, `QueuesStayConsistent`, `StrictPriorities`, `OnlyLiveAreReady`, `ReceiversWait`, `NoLostWakeup`, `NobodyForgotten` | `Spec => []P` for `TypeOK`, `ReadyQueueConsistent`, `RunsFirst`, `ReadyAreLive`, `ReceiverWaits`, `NoMissedMessage`, `WaitingIsKnown` |
| `KozosProofs` | `BlocksStay` | `Spec => []BlocksConserved` |
| `KozosListsProofs` | `ListsFollowQueues` | `ListSpec => []ListsFollow` |
| `KozosStepProofs` | `BoxesAreChannels`, `RoundRobin` | `Spec => ImplementsMailbox`, `Spec => NoOvertaking` |
| `ConsoleProofs` | `SendBufferIsExclusive`, `OutputNeverStalls` | `ConsSpec => []NotReentered`, `ConsSpec => []OutputMoves` |
| `ConsoleProofs` | `ConsoleUsesKernel` | `ConsSpec => Spec`, the one of `Kozos` |
| `ConsoleProofs` | `ConsoleTyping`, `LinesArriveInOrder`, `LinesFitTheBuffer`, `NothingLeaks` | `ConsSpec => []P` for `ConsTypeOK`, `LinesInOrder`, `RecvBufferFits`, `NoLeak` |
| `ConsoleProofs` | `NeverTakenDown`, `OutputReadsRight`, `SendBufferHolds` | for a patient typist: `ConsSpec => []P` for `NeverDown`, `OutputIsTranscript`, `SendBufferFits` |
| `MemoryProofs` | `Typing`, `ListsAreWhole`, `HeadersStay` | `Spec => []P` for `TypeOK`, `FreeListsHoldTheRest`, `HeadersIntact` |
| `MemoryProofs` | `PoolsAllocate` | `Spec => ImplementsAllocator` |
| `XmodemProofs` | `SenderIsNotAhead`, `Typing` | `Spec => []SenderNotAhead`, `Spec => []TypeOK` |
| `XmodemProofs` | `Whole`, `Transfers` | on a safe line: `Spec => []SuccessIsWhole`, `Spec => ImplementsTransfer` |
| `BootProofs` | `NothingRunsUnloaded`, `OtherLinesAreHarmless` | `Spec => []RunNeedsALoad`, `Spec => OnlyCommandsAct` |
| `BootProofs` | `FittingInputStaysIn` | `Spec => []FittingInputIsSafe` |
| `BootProofs` | `BootTyping`, `ProgramsStartWhole` | `Spec => []TypeOK`, `Spec => []StartedIsWhole` |
| `BootProofs` | `DumpShowsTheLoad` | when no transfer ends early: `Spec => []DumpIsTheLoad` |

They hold for any number of threads, priorities, boxes, pools and blocks, any
texts and lines of the console, any files and faults of a transfer, any memory and
lines of the boot loader. The first paragraphs are about the kernel.

**Assumptions.** `TableAssumption` and `KozosAssumption` (the sizes are natural
numbers, there is a TCB and a priority, there are finitely many boxes, `NULL` is no
thread), and `~WakeReceivers`: run `wakeup` shows that without it `ReceiverWaits`
fails. `ConsoleAssumption` has the boxes, the number of threads and priorities, and
that a line has no Enter key inside; `Alphabet(C)` says that the texts and lines are
made of the characters C and that requests of such texts are payloads; for the
receive buffer, `LinesFit` says that lines are shorter than it is. The theorems on the
patient typist add what run `console_full` has: `PoolsSuffice` (a string fits
a block; a pool has one block, that of the messages one more, that of the lines
three more; `memory.c` has 8, 8 and 4), `Plain(C)` (the prompt has no newline, and no
character is the mark of an empty register) and, for the buffer alone, `BufferHolds`:
the prompt and two characters fit, and the longest answer with the prompt and the
echo of Enter is no more than one longer than the buffer. That is exact: run
`long_echo` is one character beyond it. `PoolAssumption` has the
pools in the order of their sizes, as `kzmem_alloc()` needs them, each block larger
than its header, which is not empty. `HeadersAreSafe` makes a line safe: it spoils
data or check sums only, and loses neither bytes nor ACKs. Runs `xmodem_eot` and
`xmodem_lossy` show what happens on others. `BootAssumption` has a RAM without
address 0, the buffer at its end, files of whole blocks that consist of `FileCell`,
and lines without NUL, both of any length; `DumpShowsTheLoad` adds `~MayEndEarly`, which
`Transfers` proves of a safe line.

**The invariant.** None of the properties is inductive alone. `RunsFirst` needs
the queues to be consistent, else the head of a queue may be anything;
consistency needs `RunsFirst`, because `getcurrent()` cuts the list behind
`current`, and only for the head is that a removal. A delivery requeues the
registered receiver, so that only live threads are ready needs `ReceiverWaits`;
that a receiver still waits needs that nobody who is off the queues runs.
`IInv` is `TypeOK` with `QueueInv` (consistency, first runs, ready are live) and
`WaitInv` (receivers wait, no missed message, the waiting are known).

**The argument.** `KozosProofs` shows first that `getcurrent`, `putcurrent` and
the clearing of a TCB keep the queues consistent, for any queues and any
thread that is the head, ready or not. Then it has one lemma per
action or group of actions with the same effect on the queues (`RequeueStep`,
`RunStep`, `ExitStep`, `SleepStep`, ...): what the call does to the queues,
what `schedule` makes of it (`ScheduleRunsFirst`), what happens to the waiting
(`SendEffect`, `DeliveryKeepsWaiting`, `NobodyWaits`). `NextIInv` puts them
together, `Inductive` adds the temporal step.

**The blocks.** `BlocksConserved` sums over the boxes. `Induction` has what a proof
needs to know of such a sum: it is a number (`TotalType`), 0 when every box is empty
(`TotalOfNone`), and changes by as much as one box does (`TotalChanges`). That rests on
the fold behind it being a recursion over the finite subsets, and on `SetInduction`.
A send takes a block of the pool for its message and a delivery gives one back, so
the balance holds over every path (`SendBalances`, `RecvBalances`), with or without
a waiting receiver.

**The boxes.** `BoxesAreChannels` maps every step to one of `Mailbox`. A call gets a
new parameter block, which is a step of `Mailbox` only because the caller waits
nowhere (`CallerForgets`, from `ReceiverWaits` and `RunsFirst`). `thread_send()`
appends first and then hands over the *head* of the list: that this is the message
just sent, not an older one, is `NoMissedMessage` (`SendIsSend`).

**Round robin.** In consistent queues the place of a thread is unique
(`PlaceIsThePlace`). `getcurrent()` of the head moves everybody behind it up by one,
`putcurrent()` moves nobody (`GetcurrentPlace`, `PutcurrentPlace`); every action is
made of the two, and `kz_run()` and `kz_chpri()` write the priority of no thread
that is in the queues then.

**The lists.** `KozosListsProofs` shows for `unlink`, `link` and `clear` that they
lead from lists that represent queues to lists that represent what `getcurrent`,
`putcurrent` and the clearing make of these queues. `link` needs that `next` of the
thread it appends is NULL, which is a part of `Represents`: a thread outside the
queues points nowhere. `unlink` needs that the thread is the head of its queue,
and that no thread is in two places: that is `RunsFirst` and
`ReadyQueueConsistent`, so the invariant is `IInv /\ ListsFollow`, and every step
of `KozosLists` is one of `Kozos` (`ListStepIsStep`).

**The console.** `NotReentered` alone is not inductive: it says where `consdrv` is
when the handler runs, not that the handler cannot start. `MaskInv` adds that a
`consdrv` between `INTR_DISABLE` and `INTR_ENABLE` has the processor and is masked;
it makes no system call there, so nobody else can run. The proof needs nothing
about the kernel's queues. `OutputMoves` rests on it: `send_string()` enables the
transmit interrupt before `send_char()` sends the first character, and must not lose
it in between. `TieInv` says so for the thread and for the handler; that no handler
disables it at that moment is `MaskInv`.

The other theorems rest on one invariant, `ConsInv(C)`: that of the kernel
with `BlocksConserved` and ten conjuncts on the console. A message on its way to a
thread is in its box or, when the receiver waited, behind `param`; `In` and `Out` are
both together, the *flows*, and with `ThreadInv` (who waits where) every
`kz_send()` appends to a flow and every `kz_recv()` ends at its head. So each step
becomes a short statement about flows, blocks and places (`CommandDoes`,
`ConsdrvDoes`, `HandlerDoes`, `OthersDo`), and the other invariants are shown from those
alone. `FitsInv` says that whatever will be freed has come from a pool, hence every step of the
console is one of the kernel's (`ConsoleIsUser`).
`StageInv` is the life of the console: the use request is asked for, sent, taken, and
only then does anybody type; afterwards only writes are under way. `LineInv`
follows a line from the key to the thread: the lines received, those in the flow and the
one complete in the buffer are the first ones typed (`Delivery`), and what is in
the buffer, in the handler's hand, in RDR and still to be typed spells the next
one with its Enter key (`Keyed`). `LinesInOrder` and `RecvBufferFits` are read off it.
`HeldInv` says for every pool what is held: a block for each request and line under way, for the
request `consdrv` works at, the line the command thread has, what it or the handler has
allocated and not yet sent, and the buffers. When both threads wait only the buffers
are left, and by `BlocksConserved` the rest is free: `NoLeak`.

**The patient typist.** He strikes a key when the idle thread runs, the send buffer
and the transmitter are empty and no character is unread (`Quiet`). That nothing
else is under way then has to be shown. `Lively` knows both threads: where they are
in their lives, with which priorities, that each is ready or inside `kz_recv()`, and
that no message lies in any box. So while the idle thread runs the two others wait
(`QuietRests`), and `Orderly` counts what a key can set off from there: one line, one
request, one string after the other. With `HeldInv` this bounds the blocks of every
pool, so that each `kz_kmalloc()` finds one, and somebody is ready after each call:
`NeverDown`.

For the transcript, `Sent` is the wire with what is in the transmitter and the buffer,
`Due` what is still to be printed for the keys struck, and `Unkeyed` what will be
printed for the rest of the line; the invariant `OutInv` says that the three behind
each other are the transcript of the lines typed. Every step but the stroke of a key
only moves characters from `Due` to `Sent` (`Conserved`, shown for each thread and the
handler: `NothingIsLost`). A key is struck at rest, when nothing is due; it moves its
share from `Unkeyed` to `Due` (`OutKeyed`), and a new line adds its `Exchange`, the echo and
the answer. For the buffer, `LoadInv` says that transmitter, buffer and `Due` together
hold no more than the buffer and one character. While the transmitter holds one, the
buffer holds the rest; when it is empty, a full load is an Enter that is about to be
echoed and sent (`Relieved`), with only its two characters in the buffer.

**The pools.** Where a pool begins is a recursion over the pools before it; by
induction they do not overlap (`MemoryProofs`). `MemInv` adds to `TypeOK` and
`HeadersIntact` that for every pool some sequence without repetitions
has the blocks nobody owns and is what the list of `next` pointers leads to
(`ListsHold`), and that an owner was promised no more than the block has
(`UsedFits`). `kzmem_alloc()` takes the head of that sequence, `kzmem_free()` puts one in
front; a write within `UsedFits` reaches no header. The length of the free list is
found by the search that `FreeListsHoldTheRest` makes: it ends after just as many
steps as the sequence is long.

**The transfer.** `SenderNotAhead` alone is not inductive: an ACK on the line lets the
sender go on later. `AcksAreEarned` counts it: the blocks the sender takes for
delivered and the ACKs on the line are paid for by accepted blocks, until the
receiver returns. Only an accepted block and the end make the receiver send an ACK;
NAKs (but the first), repeated blocks and time-outs never move the sender. The proof needs nothing
about the bytes on the line, so it holds for any fault of them.

**The safe line.** `SafeInv` says that for some number a of blocks the buffer holds the
first a blocks of the file, the sender is at the next one, and what is on the line, with
what the receiver has read of it, is that block with at most one byte of its data
or check sum spoilt, or an answer. A block with one byte spoilt never has its
check sum (`OneByteShows`: the sum of bytes is a recursion modulo 256, and
changes when one byte does), so it is refused and comes again. The blocks of the
buffer below `size` are then the first a of the file, which maps every step to one of
`Transfer`, where the file only grows by a block at a time.

**The boot loader.** `strcmp()` is 0 just for equal strings (`StrcmpIsEquality`): up
to the longer length both read characters other than NUL, or NUL behind their
ends. With it, a line that is no name disables `load`, `dump` and `run`. This is said
of the lines that reach `strcmp()` with the loader intact, those of up to 15
characters; the rest of a broken transfer need not be one of them. Before the
first load `loadbuf` is 0; no RAM is there, and what is there is no ELF header, so
`elf_load()` refuses (`NothingAtNull`).

**What overruns.** `FittingInputStaysIn`: a load runs out of room at some block, which is
one of the file, so the whole file has no room either (`OverrunIsTooLong`). The
invariant behind it is that the accepted blocks lie in the buffer (`StoredInv`): a
block is accepted only where the model has found room for it behind those, for the
code does not look, and a block in error is written where the next one goes. `BootTyping` has its bound on `size`
from the same place: no assumption keeps files short; a load that is too long does not return.

**The loaded program.** The loops of `memcpy()`, `elf_load_program()` and `putxval()`
are recursive functions. For each the proof names the sequence of states the loop goes
through (`CopyUnfolds`, `LoopUnfolds`, `ShiftedUnfolds`) and does induction on it:
`memcpy()` from first to last moves the whole source if the destination does not
overlap it (`CopiesApart`), which is so because a file that fits stays clear of the
buffer it is copied from; so one round of the loader puts one segment in place and
leaves the buffer alone (`OneRound`); and after n rounds every address holds what the
last of the first n segments that covers it says (`InPlace`, `AllRounds`). That the header
is read anew in each round, and the entry point after the last, is harmless just
because the buffer has not changed (`LoadsWhole`): the rounds behind the last
segment find the same header and do nothing (`NoRound`).

That the buffer has the file when `run` is called is `KeptInv`: while a transfer goes on,
and after one that brought a whole file that fits, the buffer holds the accepted blocks behind
each other. A block in error is written behind them and later over (`RejectHolds`); a
program that was started stays clear of the buffer, and so does loading it, whence it
can be run again. `WholeInv` is `TypeOK` with the blocks and the size (`StoredInv`,
`SizeInv`), `KeptInv` and `StartedIsWhole`; `NextWhole` shows that every step keeps it.
`TypeOK` needs `SizeInv`: `size` fits the buffer because it is the length of the
accepted blocks, and they lie in the buffer.

**The dump.** `DigitsReadBack`: the digits of `putxval()` have the value they came from,
and are no more than its buffer has room for, for any width of a long. The bytes are those of `KeptInv`.
A transfer that ends early brings the beginning of a file, and its table may then be
what an earlier file has left in the buffer: `run` could unpack such segments over the
buffer, and the next dump would show them. So the theorem is for lines on which a good
transfer is a whole one; run `boot` has `MayEndEarly` true and checks this for its files.

**Only model-checked.** Of the boot loader `DumpIsTheLoad` where a transfer may end
early; of the console, how a typist who waits for nothing fares where the pools
are small: nobody is promised a block then. On a line that is not
safe an accepted block need not be one of the file: two errors may keep the check
sum. There the refinement of `Transfer` is checked for the file of run `xmodem_lossy`.
Liveness (`EveryLineIsReceived`, `OutputEnds`, the end of a transfer) is out of the
prover's reach and stays with TLC. Induction is not: `Induction` has it for
sets of numbers, where the library's theorems would take an operator.

## 5. What the checks found

* `thread_run()` returns before it requeues its caller when no TCB is free
  (`kozos.c:151`): the caller never runs again.
* `kz_wakeup()` does not know about receivers (`kozos.c:225`): a woken receiver
  stays registered, and the next message goes through its old parameter block.
* `send_string()` and the receive handler do not look at the sizes of their
  buffers (`consdrv.c:43`, `consdrv.c:65`). Typed at rest, the console holds
  for an echo of 12 characters; with 13 it does not, and a line of 25 overruns
  the receive buffer.
* The XMODEM receiver leaves the rest of a block with a bad header on the line
  and reads it as commands (`bootload/xmodem.c:42`): one damaged byte ends the
  transfer, mostly as an error, but as a success if the next byte is EOT. A lost
  ACK does the same, since the repeated block is refused by its number and its
  rest read as commands: mostly the transfer fails; when it was the ACK of
  block 251, the complement of the number is EOT and it succeeds after 251 blocks.
  What is in the buffer is the beginning of the file all the same.
* What a sender goes on sending after such an end is taken for lines. A short one
  is harmless unless it is the name of a command. A long one is not: `gets()` stores it
  without a bound in the 16 bytes of `main()` (`bootload/lib.c:115`,
  `bootload/main.c:66`), and the 0x1a that fill the last block of a file are neither
  NUL nor newline. Nor has `xmodem_recv()` a bound: a file that is longer than the
  buffer of `ld.scr`, 0x1d00 bytes, is written over the loader's variables and its stack. Run
  `boot` reaches both, and shows that nothing else does. No line of the
  repository promises otherwise, so neither is listed as a finding.
* The loader promises a program that is whole only if it stays clear of the
  buffer: `os/ld.scr` gives the OS all RAM from 0xffc020 up, the buffer of the
  loader at 0xffdf20 included. Run `boot` sends a file that reaches it: the header
  is cleared before the entry point is read, and the answer is "run error!". With
  an empty file, `load` succeeds and `run` starts the program from before.
  Nothing in the repository says otherwise, so neither is listed as a finding.

## 6. Not modelled

* Registers, stack frames, the link map and start-up code: assembly, whose
  effect (mask, save, dispatch) is in the actions of `Kozos`. Hence no property
  on stack depth, nor on array bounds behind `readyque[]` and the stack area.
* Serial timing: bit rate, overrun, parity.
* The texts of `puts()` at exit and system down.
* `test*.c`: not linked in at this commit. The calls they make are among those
  any thread of `Kozos` may make.
* A character that arrives while the receiver of XMODEM sends an answer.
* Of the library, `strcpy()`, which only copies names of threads, and `putc()`,
  `getc()` and `puts()` as such; the texts the loader prints are kept as whole
  words. `strncmp()` and `strlen()` are a prefix test and a length in `Console`.
* What the loader does when a line of more than 15 characters or a file larger
  than the buffer has been written over its variables, until the next reset: what
  lies where depends on the link map. That it happens, and when, is modelled.
* What a program does that the loader has started, but that it may return.

## 7. Plan

1. *Done:* `ReadyQueue`, `Kozos`, `Mailbox`; type invariant, safety invariants
   and their theorems; `Memory`, `Allocator`; `Console`; `Xmodem`, `Transfer`;
   `ReadyList`, `KozosLists` and the theorem about them; `Lib`, `Elf`, `Boot`.
2. *Done:* `Kozos` implements `Mailbox`; `NoOvertaking`; `SenderNotAhead`.
3. *Done:* the pools: their lists hold the unused blocks, headers stay, `Memory`
   implements `Allocator`; the kernel conserves blocks.
4. *Done:* the console is a legal user of the kernel; lines in order; the
   receive buffer; no leak. `Xmodem` implements `Transfer` on a safe line.
5. *Done:* types of the boot loader; its programs start whole; its dump.
6. *Done:* the patient typist: never down, the transcript, the send buffer.
7. Left: the message lists of the boxes with `head`, `tail` and `next`, as the ready
   queues are now.
