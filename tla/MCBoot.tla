-------------------------------- MODULE MCBoot --------------------------------
(***************************************************************************)
(* A program area of four cells, 16 to 19, and a buffer of two blocks of   *)
(* four, 20 to 27.  The files: a program of two segments, the second with  *)
(* a bss part; one with a table that is not loaded and a segment that is   *)
(* larger in the file than in memory; one whose bss reaches the buffer and *)
(* wipes the header; one for another processor; an empty one; and one that *)
(* is a block longer than the buffer.                                      *)
(***************************************************************************)
EXTENDS Boot

OneRam   == 16 .. 27
OneSpoilt == {1, 2}

OneLoad == <<108, 111>>
OneDump == <<100>>
OneRun  == <<114>>

(* XMODEM fills its last block with this character. *)
Padding(n) == [i \in 1 .. n |-> 26]

(* The names, a part of one, one with something behind it, the longest     *)
(* line that main() has room for, and one that is longer.                  *)
OneLines == {OneLoad, OneDump, OneRun, <<108>>, <<114, 114>>, Padding(15), Padding(16)}

Data(n) == [kind |-> "data", value |-> n]

OneJunk == Data(0)

Ehdr(arch, entry, segments) ==
  [kind |-> "ehdr", magic |-> MAGIC, class |-> 1, format |-> 2, id_version |-> 1,
   type |-> 2, version |-> 1, arch |-> arch, entry_point |-> entry,
   program_header_offset |-> 1, program_header_size |-> 1,
   program_header_num |-> segments]

Phdr(type, offset, addr, file_size, memory_size) ==
  [kind |-> "phdr", type |-> type, offset |-> offset, physical_addr |-> addr,
   file_size |-> file_size, memory_size |-> memory_size]

TextAndBss ==
  << <<Ehdr(46, 16, 2), Phdr(1, 3, 16, 2, 2), Phdr(1, 5, 18, 1, 2), Data(1)>>,
     <<Data(2), Data(3), Data(4), Data(5)>> >>

WithATable ==
  << <<Ehdr(47, 17, 2), Phdr(6, 4, 16, 1, 4), Phdr(1, 4, 17, 2, 1), Data(6)>>,
     <<Data(7), Data(8), Data(9), Data(10)>> >>

BssOverBuffer ==
  << <<Ehdr(46, 18, 1), Phdr(1, 2, 18, 1, 3), Data(11), Data(12)>> >>

OtherProcessor ==
  << <<Ehdr(8, 16, 1), Phdr(1, 2, 16, 2, 2), Data(13), Data(14)>> >>

TooLong == TextAndBss \o << <<Data(1), Data(2), Data(3), Data(4)>> >>

SomeFiles ==
  {TextAndBss, WithATable, BssOverBuffer, OtherProcessor, <<>>, TooLong}
===============================================================================
