------------------------------ MODULE Allocator ------------------------------
(***************************************************************************)
(* What memory.c promises: a request of n bytes is given a block that      *)
(* nobody else has, of the first pool whose blocks have room for n bytes;  *)
(* it fails, and takes the system down, only when all blocks of that pool  *)
(* are in use or no pool is large enough.                                  *)
(***************************************************************************)
EXTENDS Integers, Functions

CONSTANTS
  Block,        \* the blocks
  PoolIndex,    \* the pools, in the order in which they are tried
  Pool(_),      \* the blocks of a pool
  Room(_),      \* the bytes a block of a pool has room for
  Request,      \* the sizes that are asked for
  NULL          \* no request

VARIABLES
  used,   \* the blocks in use, with the size that was asked for
  down    \* the request that has failed, or NULL

vars == <<used, down>>

Init == used = <<>> /\ down = NULL

(* Pool i is the first with room for n bytes. *)
Serves(i, n) ==
  /\ 0 <= n /\ n <= Room(i)
  /\ \A j \in PoolIndex : j < i => n > Room(j)

Alloc(n) ==
  \E i \in PoolIndex : \E b \in Pool(i) \ DOMAIN used :
    /\ Serves(i, n)
    /\ used' = [c \in DOMAIN used \cup {b} |-> IF c = b THEN n ELSE used[c]]
    /\ UNCHANGED down

Fail(n) ==
  /\ \A i \in PoolIndex : Serves(i, n) => Pool(i) \subseteq DOMAIN used
  /\ down' = n
  /\ UNCHANGED used

Free(b) ==
  /\ b \in DOMAIN used
  /\ used' = Restrict(used, DOMAIN used \ {b})
  /\ UNCHANGED down

Next ==
  /\ down = NULL
  /\ \/ \E n \in Request : Alloc(n) \/ Fail(n)
     \/ \E b \in Block : Free(b)

Spec == Init /\ [][Next]_vars
===============================================================================
