----------------------------- MODULE MCKozosLists -----------------------------
(* Values for the constants of KozosLists that a .cfg file cannot write. *)
EXTENDS KozosLists

OneBlock == [k \in Pool |-> 1]
===============================================================================
