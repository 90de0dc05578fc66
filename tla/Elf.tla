---------------------------------- MODULE Elf ----------------------------------
(***************************************************************************)
(* The ELF loader (bootload/elf.c) on a memory of cells.  A header is one  *)
(* cell, a record of the fields the loader reads; all other bytes of a     *)
(* file are data cells.  The kind of a cell is the model's, the loader     *)
(* only has the fields: what it makes of a cell that is not what it takes  *)
(* it for is said where it reads one.                                      *)
(***************************************************************************)
EXTENDS Lib, SequencesExt

CONSTANT Ram    \* the addresses of the memory

Zero    == [kind |-> "zero"]      \* a cell that was cleared
Outside == [kind |-> "outside"]   \* what one reads where no RAM is
Noise   == [kind |-> "noise"]     \* a cell the line has spoilt

(* A short is signed and has four hexadecimal digits. *)
Short == -(8 * Power[3]) .. 8 * Power[3] - 1

(* What the cells of a file may be.  The numbers of a header are any, also *)
(* of one that is no good; an entry point is as wide as a long.            *)
ElfHeader ==
  [kind : {"ehdr"}, magic : Seq(Nat), class : Nat, format : Nat, id_version : Nat,
   type : Nat, version : Nat, arch : Nat, entry_point : Long,
   program_header_offset : Int, program_header_size : Short, program_header_num : Short]

ProgramHeader ==
  [kind : {"phdr"}, type : Int, offset : Int, physical_addr : Int,
   file_size : Int, memory_size : Int]

FileCell == ElfHeader \cup ProgramHeader \cup [kind : {"data"}, value : Int]

Cell == FileCell \cup {Zero, Outside, Noise}

At(m, a) == IF a \in Ram THEN m[a] ELSE Outside

MAGIC == <<127, 69, 76, 70>>

(* A 32-bit big endian executable of version 1 for an H8/300 or H8/300H.   *)
elf_check(h) ==
  /\ h.kind = "ehdr"
  /\ memcmp(h.magic, MAGIC, 4) = 0
  /\ h.class = 1 /\ h.format = 2 /\ h.id_version = 1
  /\ h.type = 2 /\ h.version = 1
  /\ h.arch \in {46, 47}

(***************************************************************************)
(* elf_load_program(): a loop over the segments that reads the header anew *)
(* every time.  Its state is the memory and whether it has gone wild: it   *)
(* took something else than a program header for one.                      *)
(***************************************************************************)
(* A faulty variant: the rest of a segment is not cleared. *)
UnpackedNotCleared(m, buf, ph) ==
  memcpy(m, ph.physical_addr, buf + ph.offset, ph.file_size, Outside)

(* One segment: its part of the file, and zeros up to its memory size.     *)
Unpacked(m, buf, ph) ==
  memset(memcpy(m, ph.physical_addr, buf + ph.offset, ph.file_size, Outside),
         ph.physical_addr + ph.file_size, Zero, ph.memory_size - ph.file_size)

Wild(s) == [s EXCEPT !.wild = TRUE]

(* A header or program header that was cleared meanwhile has no segments,  *)
(* or is of type 0.                                                        *)
LoadSegment(s, buf, i) ==
  LET h  == At(s.mem, buf)
      ph == At(s.mem, buf + h.program_header_offset + h.program_header_size * i)
  IN  IF s.wild \/ h = Zero \/ (h.kind = "ehdr" /\ i >= h.program_header_num)
      THEN s
      ELSE IF h.kind # "ehdr" \/ ph.kind \notin {"phdr", "zero"}
      THEN Wild(s)
      ELSE IF ph = Zero \/ ph.type # 1
      THEN s
      ELSE [s EXCEPT !.mem = Unpacked(@, buf, ph)]

(* The most segments a header in memory has.  The header at buf never gets *)
(* more: what is copied over it is a cell of the memory.                   *)
Most(m) ==
  Max({0} \cup {m[a].program_header_num : a \in {b \in Ram : m[b].kind = "ehdr"}})

(* As many rounds as any header may ask for: LoadSegment compares i with   *)
(* the number of the header that is there in its round, and the rounds     *)
(* from there on do nothing.                                               *)
elf_load_program(m, buf) ==
  LET after[i \in Nat] ==
        IF i = 0 THEN [mem |-> m, wild |-> FALSE] ELSE LoadSegment(after[i - 1], buf, i - 1)
  IN  after[Most(m)]

(***************************************************************************)
(* elf_load(): what the memory is like afterwards, and the entry point, 0  *)
(* if the file was refused.  The entry point is read when the segments     *)
(* have been unpacked, from wherever they have left the header.            *)
(***************************************************************************)
elf_load(m, buf) ==
  IF ~elf_check(At(m, buf))
  THEN [mem |-> m, wild |-> FALSE, entry |-> 0]
  ELSE LET s == elf_load_program(m, buf)
           h == At(s.mem, buf)
       IN  [mem   |-> s.mem,
            wild  |-> s.wild \/ h.kind \notin {"ehdr", "zero"},
            entry |-> IF h.kind = "ehdr" THEN h.entry_point ELSE 0]
===============================================================================
