------------------------------- MODULE Transfer -------------------------------
(***************************************************************************)
(* What xmodem_recv() promises its caller: the blocks of the file arrive   *)
(* one by one, whole and in order; it returns their size in bytes or -1.   *)
(* MayEndEarly says whether it may return a size before the file has       *)
(* ended: run xmodem_eot shows how.  Module Xmodem implements this, and    *)
(* module Boot relies on it.                                               *)
(***************************************************************************)
EXTENDS Integers, Sequences

CONSTANTS
  XMODEM_BLOCK_SIZE,  \* number of bytes of a block
  MayEndEarly,
  NULL                \* xmodem_recv() has not returned

VARIABLES
  file,     \* the blocks the sender has
  stored,   \* the blocks that have been accepted
  outcome   \* what xmodem_recv() returned

vars == <<file, stored, outcome>>

Init == stored = <<>> /\ outcome = NULL

Accept ==
  /\ outcome = NULL
  /\ Len(stored) < Len(file)
  /\ stored' = Append(stored, file[Len(stored) + 1])
  /\ UNCHANGED <<file, outcome>>

Succeed ==
  /\ outcome = NULL
  /\ stored = file \/ MayEndEarly
  /\ outcome' = Len(stored) * XMODEM_BLOCK_SIZE
  /\ UNCHANGED <<file, stored>>

Fail ==
  /\ outcome = NULL
  /\ outcome' = -1
  /\ UNCHANGED <<file, stored>>

Next == Accept \/ Succeed \/ Fail

Spec == Init /\ [][Next]_vars
===============================================================================
