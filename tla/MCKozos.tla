------------------------------- MODULE MCKozos -------------------------------
(* Values for the constants of Kozos that a .cfg file cannot write. *)
EXTENDS Kozos, TLC

OneBlock  == [k \in Pool |-> 1]
TwoBlocks == [k \in Pool |-> 2]

(* Interchangeable values: no definition of Kozos tells two boxes or two   *)
(* payloads apart.                                                         *)
Symmetry == Permutations(MsgBox) \cup Permutations(Payload)
===============================================================================
