------------------------------- MODULE MCMemory -------------------------------
(* Values for the constants of Memory that a .cfg file cannot write. *)
EXTENDS Memory

(* The sizes of memory.c, with fewer blocks. *)
MCPoolSize == <<16, 32, 64>>
MCPoolNum  == <<3, 3, 2>>

(* Both sides of every limit, and the sizes that fit nowhere. *)
MCRequest == {-1, 0, 8, 9, 24, 25, 56, 57}
===============================================================================
