-------------------------------- MODULE Memory --------------------------------
(***************************************************************************)
(* memory.c: pools of blocks of a fixed size, each with its free blocks in *)
(* a linked list.  A block is named by its address in the free area, and   *)
(* starts with a header (struct kzmem_block) that holds next and size.     *)
(* Interrupts are masked while the kernel runs, so every call is one step. *)
(*                                                                         *)
(* The callers are arbitrary, but behave: they free a block they own, once,*)
(* and write nowhere but into the bytes they asked for.                    *)
(***************************************************************************)
EXTENDS Integers, Sequences, FiniteSets, Functions

CONSTANTS
  PoolSize,   \* size of the blocks of every pool, header included
  PoolNum,    \* number of blocks of every pool
  Header,     \* sizeof(kzmem_block)
  Request,    \* the sizes that are asked for
  NULL        \* the null pointer

PoolIndex == 1 .. Len(PoolSize)

ASSUME PoolAssumption ==
  /\ PoolSize \in Seq(Nat) /\ PoolNum \in Seq(Nat)
  /\ Len(PoolNum) = Len(PoolSize)
  /\ Header \in Nat \ {0} /\ Request \subseteq Int /\ NULL \notin Int
  /\ \A i \in PoolIndex : PoolSize[i] >= Header
  /\ \A i, j \in PoolIndex : i < j => PoolSize[i] < PoolSize[j]

(* Where "area" points to when kzmem_init_pool() starts on pool i.         *)
Area[i \in 1 .. Len(PoolSize)] ==
  IF i = 1 THEN 0 ELSE Area[i - 1] + PoolNum[i - 1] * PoolSize[i - 1]

Blocks(i) == {Area[i] + j * PoolSize[i] : j \in 0 .. PoolNum[i] - 1}
Block == UNION {Blocks(i) : i \in PoolIndex}
Home(b) == CHOOSE i \in PoolIndex : b \in Blocks(i)

VARIABLES
  free,   \* head of the free list of every pool
  next,   \* mp->next of every block
  size,   \* mp->size of every block
  used,   \* the blocks in use, with the size that was asked for
  down    \* the request that has led to kz_sysdown(), or NULL

vars == <<free, next, size, used, down>>

(* kzmem_init(): every pool is a list of its blocks in the order of their  *)
(* addresses.                                                              *)
Init ==
  /\ free = [i \in PoolIndex |-> IF PoolNum[i] = 0 THEN NULL ELSE Area[i]]
  /\ size = [b \in Block |-> PoolSize[Home(b)]]
  /\ next = [b \in Block |-> IF b + size[b] \in Blocks(Home(b))
                             THEN b + size[b] ELSE NULL]
  /\ used = <<>>
  /\ down = NULL

kz_sysdown(n) == down' = n /\ UNCHANGED <<free, next, size, used>>

(* A faulty variant: the header is forgotten. *)
HasRoomForAll(i, n) == 0 <= n /\ n <= PoolSize[i]

(* "size <= p->size - sizeof(kzmem_block)" compares unsigned numbers: a    *)
(* negative size is larger than any block.                                 *)
HasRoom(i, n) == 0 <= n /\ n <= PoolSize[i] - Header

FirstFit(i, n) == HasRoom(i, n) /\ \A j \in 1 .. i - 1 : ~HasRoom(j, n)

(* Faulty variants: the free blocks are taken to follow one another; the   *)
(* list is cut behind the block that is given out.                         *)
TakeAdjacent(i) ==
  /\ free' = [free EXCEPT ![i] = @ + PoolSize[i]]
  /\ UNCHANGED next

TakeLosesRest(i) ==
  /\ free' = [free EXCEPT ![i] = NULL]
  /\ next' = [next EXCEPT ![free[i]] = NULL]

(* The first block of free list i. *)
Take(i) ==
  /\ free' = [free EXCEPT ![i] = next[free[i]]]
  /\ next' = [next EXCEPT ![free[i]] = NULL]

kzmem_alloc(n) ==
  /\ down = NULL
  /\ \/ \E i \in PoolIndex :
          /\ FirstFit(i, n)
          /\ free[i] # NULL
          /\ Take(i)
          /\ used' = [c \in DOMAIN used \cup {free[i]} |->
                        IF c = free[i] THEN n ELSE used[c]]
          /\ UNCHANGED <<size, down>>
     \/ \E i \in PoolIndex : FirstFit(i, n) /\ free[i] = NULL /\ kz_sysdown(n)
     \/ (\A i \in PoolIndex : ~HasRoom(i, n)) /\ kz_sysdown(n)

(* A faulty variant: the block is not linked to the rest of the list. *)
kzmem_freeUnlinked(b) ==
  /\ down = NULL
  /\ b \in DOMAIN used
  /\ \E i \in PoolIndex :
       /\ PoolSize[i] = size[b]
       /\ free' = [free EXCEPT ![i] = b]
       /\ used' = Restrict(used, DOMAIN used \ {b})
  /\ UNCHANGED <<next, size, down>>

(* The header tells the pool. *)
kzmem_free(b) ==
  /\ down = NULL
  /\ b \in DOMAIN used
  /\ \/ \E i \in PoolIndex :
          /\ PoolSize[i] = size[b]
          /\ next' = [next EXCEPT ![b] = free[i]]
          /\ free' = [free EXCEPT ![i] = b]
          /\ used' = Restrict(used, DOMAIN used \ {b})
          /\ UNCHANGED <<size, down>>
     \/ (\A i \in PoolIndex : PoolSize[i] # size[b]) /\ kz_sysdown(0)

(* The owner of block b fills the bytes it asked for; a header among them  *)
(* would be overwritten.                                                   *)
Fill(b) ==
  /\ down = NULL
  /\ b \in DOMAIN used
  /\ LET first == b + Header
         hit   == {h \in Block : h < first + used[b] /\ first < h + Header}
     IN  /\ size' = [h \in Block |-> IF h \in hit THEN 0 ELSE size[h]]
         /\ next' = [h \in Block |-> IF h \in hit THEN NULL ELSE next[h]]
  /\ UNCHANGED <<free, used, down>>

Next ==
  \/ \E n \in Request : kzmem_alloc(n)
  \/ \E b \in Block : kzmem_free(b)
  \/ \E b \in Block : Fill(b)

Spec == Init /\ [][Next]_vars
-------------------------------------------------------------------------------
TypeOK ==
  /\ free \in [PoolIndex -> Block \cup {NULL}]
  /\ next \in [Block -> Block \cup {NULL}]
  /\ size \in [Block -> Nat]
  /\ DOMAIN used \subseteq Block
  /\ down \in Request \cup {NULL}

(* The blocks that a walk along free list i meets, in order. *)
Walk(i) ==
  LET at[k \in 0 .. PoolNum[i]] ==
        IF k = 0 THEN free[i]
        ELSE IF at[k - 1] = NULL THEN NULL ELSE next[at[k - 1]]
  IN  at

(* Every free list ends, and holds the blocks of its pool that are not in  *)
(* use, each of them once: no sequence of allocations and releases in any  *)
(* order loses a block, gives one out twice or makes a ring.               *)
FreeListsHoldTheRest ==
  \A i \in PoolIndex :
    /\ Walk(i)[PoolNum[i]] = NULL
    /\ {Walk(i)[k] : k \in 0 .. PoolNum[i]} \ {NULL} = Blocks(i) \ DOMAIN used

(* A caller that keeps to the size it asked for reaches no header and no   *)
(* block of another: every header says what kzmem_init() wrote.            *)
HeadersIntact == \A i \in PoolIndex : \A b \in Blocks(i) : size[b] = PoolSize[i]

(* The linked lists do what module Allocator promises. *)
Room(i) == PoolSize[i] - Header
A == INSTANCE Allocator WITH Pool <- Blocks

ImplementsAllocator == A!Spec
===============================================================================
