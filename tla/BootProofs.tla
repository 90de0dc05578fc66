------------------------------ MODULE BootProofs ------------------------------
(***************************************************************************)
(* Theorems about the command loop of the boot loader: what a line means,  *)
(* that nothing runs before it was loaded, what the loader's variables are *)
(* safe from, that what runs is the file that was sent, all of it in its   *)
(* place, and that a dump shows it.                                        *)
(***************************************************************************)
EXTENDS Boot, Induction, FiniteSetTheorems, SequenceTheorems

Char == 1 .. 255

(* The larger of two lengths is one of them, and no less than either.      *)
LEMMA MaxOfTwo ==
  ASSUME NEW a \in Nat, NEW b \in Nat
  PROVE  Max({a, b}) \in Nat /\ Max({a, b}) >= a /\ Max({a, b}) >= b
<1>1. CASE a >= b
  <2>1. Max({a, b}) = a
    BY <1>1 DEF Max
  <2> QED BY <1>1, <2>1
<1>2. CASE ~(a >= b)
  <2>1. Max({a, b}) = b
    BY <1>2 DEF Max
  <2> QED BY <1>2, <2>1
<1> QED BY <1>1, <1>2

(* Two strings do not differ up to their n-th character if no pair of      *)
(* characters does.                                                        *)
LEMMA ComparedIsZero ==
  ASSUME NEW s1, NEW s2, NEW n
  PROVE  Compared(s1, s2, n) = 0 <=> \A i \in 1 .. n : CharAt(s1, i) = CharAt(s2, i)
<1> DEFINE differ == {i \in 1 .. n : CharAt(s1, i) # CharAt(s2, i)}
<1>1. CASE differ = {}
  BY <1>1, Zenon DEF Compared
<1>2. CASE differ # {}
  <2>1. Compared(s1, s2, n) = 1 \/ Compared(s1, s2, n) = -1
    BY <1>2, Zenon DEF Compared
  <2>2. Compared(s1, s2, n) # 0
    BY <2>1
  <2> QED BY <1>2, <2>2, Zenon
<1> QED BY <1>1, <1>2

(* strcmp() is 0 for equal strings only, also when one is the beginning of *)
(* the other: beyond the end of the shorter one it compares with NUL.      *)
LEMMA StrcmpIsEquality ==
  ASSUME NEW s1 \in Seq(Char), NEW s2 \in Seq(Char)
  PROVE  strcmp(s1, s2) = 0 <=> s1 = s2
<1>1. /\ Len(s1) \in Nat /\ DOMAIN s1 = 1 .. Len(s1)
      /\ Len(s2) \in Nat /\ DOMAIN s2 = 1 .. Len(s2)
  OBVIOUS
<1>2. PICK n \in Nat : n = Max({Len(s1), Len(s2)}) /\ n >= Len(s1) /\ n >= Len(s2)
  BY <1>1, MaxOfTwo, Zenon
<1>3. strcmp(s1, s2) = 0 <=> \A i \in 1 .. n : CharAt(s1, i) = CharAt(s2, i)
  BY <1>2, ComparedIsZero, Zenon DEF strcmp
<1>4. ASSUME \A i \in 1 .. n : CharAt(s1, i) = CharAt(s2, i)
      PROVE  s1 = s2
  <2>1. /\ \A k \in DOMAIN s1 : s1[k] \in Char
        /\ \A k \in DOMAIN s2 : s2[k] \in Char
    OBVIOUS
  <2>2. NUL \notin Char
    BY DEF NUL, Char
  <2>3. \A i \in 1 .. n : i \in DOMAIN s1 <=> i \in DOMAIN s2
    BY <1>4, <2>1, <2>2, Zenon DEF CharAt
  <2>4. \A i \in 1 .. n : i \in 1 .. Len(s1) <=> i \in 1 .. Len(s2)
    BY <1>1, <2>3, Zenon
  <2>5. \A k, l \in Nat :
           /\ n >= k /\ n >= l
           /\ \A i \in 1 .. n : i \in 1 .. k <=> i \in 1 .. l
           => k = l
    <3> SUFFICES ASSUME NEW k \in Nat, NEW l \in Nat, n >= k, n >= l, k # l
                 PROVE  \E i \in 1 .. n : ~(i \in 1 .. k <=> i \in 1 .. l)
      BY Zenon
    <3>1. CASE k < l
      BY <3>1, Z3
    <3>2. CASE l < k
      BY <3>2, Z3
    <3> QED BY <3>1, <3>2
  <2>6. Len(s1) = Len(s2)
    BY <1>1, <1>2, <2>4, <2>5, Zenon
  <2>7. 1 .. Len(s1) \subseteq 1 .. n
    BY <1>1, <1>2
  <2>8. \A i \in 1 .. Len(s1) : s1[i] = s2[i]
    BY <1>1, <1>4, <2>6, <2>7, Zenon DEF CharAt
  <2> QED BY <2>6, <2>8
<1> QED BY <1>3, <1>4, Zenon

-------------------------------------------------------------------------------
(***************************************************************************)
(* The lines are strings; loadbuf leads to the buffer only when a file has *)
(* been sent since the start; and no program runs without one.             *)
(***************************************************************************)
LineInv == buf \in Seq(Char)

LoadInv == loadbuf = 0 \/ file # NULL

LoopInv == LineInv /\ LoadInv /\ RunNeedsALoad

(* Before the first load, run finds the vectors where it looks for a file. *)
LEMMA NothingAtNull ==
  /\ At(mem, 0) = Outside
  /\ elf_load(mem, 0).entry = 0 /\ ~elf_load(mem, 0).wild
  /\ Outside # Noise
<1>1. 0 \notin Ram
  BY BootAssumption
<1>2. At(mem, 0) = Outside
  BY <1>1 DEF At
<1>3. ~elf_check(Outside) /\ Outside # Noise
  BY DEF elf_check, Outside, Noise
<1>4. elf_load(mem, 0) = [mem |-> mem, wild |-> FALSE, entry |-> 0]
  BY <1>2, <1>3, Zenon DEF elf_load
<1> QED BY <1>2, <1>3, <1>4

LEMMA LoopInit == Init => LoopInv
<1>1. <<>> \in Seq(Char)
  OBVIOUS
<1> QED BY <1>1 DEF Init, LoopInv, LineInv, LoadInv, RunNeedsALoad

LEMMA LoopStep == LoopInv /\ [Next]_vars => LoopInv'
<1> SUFFICES ASSUME LoopInv, [Next]_vars PROVE LoopInv'
  OBVIOUS
<1> USE DEF LoopInv, LineInv, LoadInv, RunNeedsALoad
<1>1. CASE Reset
  BY <1>1 DEF Reset, init
<1>2. CASE gets
  <2>1. Lines \subseteq Seq(Char)
    BY BootAssumption DEF Char
  <2> QED BY <1>2, <2>1 DEF gets, mainVars, transferVars
<1>3. CASE load
  <2>1. file' # NULL
    BY <1>3, BootAssumption DEF load
  <2> QED BY <1>3, <2>1 DEF load
<1>4. CASE dump \/ unknown
  BY <1>4 DEF dump, unknown, mainVars, transferVars
<1>5. CASE run
  <2>1. UNCHANGED <<buf, loadbuf, file>>
    BY <1>5 DEF run, mainVars, transferVars
  <2>2. CASE loadbuf = 0
    <3>1. at' = "prompt"
      BY <1>5, <2>2, NothingAtNull DEF run
    <3> QED BY <2>1, <3>1
  <2>3. CASE loadbuf # 0
    BY <2>1, <2>3
  <2> QED BY <2>2, <2>3
<1>6. CASE Accepts \/ Rejects \/ Overruns
  BY <1>6 DEF Accepts, Rejects, Overruns, mainVars, transferVars, T!Accept
<1>7. CASE received
  BY <1>7 DEF received, T!Succeed, T!Fail
<1>8. CASE Return
  BY <1>8 DEF Return, mainVars, transferVars
<1>9. CASE UNCHANGED vars
  BY <1>9 DEF vars, mainVars, transferVars
<1> QED BY <1>1, <1>2, <1>3, <1>4, <1>5, <1>6, <1>7, <1>8, <1>9 DEF Next

(* Whatever was typed before and whatever RAM holds, run starts nothing    *)
(* before a file was sent.                                                 *)
THEOREM NothingRunsUnloaded == Spec => []RunNeedsALoad
<1>1. LoopInv => RunNeedsALoad
  BY DEF LoopInv
<1> QED BY LoopInit, LoopStep, <1>1, PTL DEF Spec

-------------------------------------------------------------------------------
LEMMA NoCommandNoAction ==
  ASSUME LoopInv, Next, at = "command", buf \notin {LOAD, DUMP, RUN}
  PROVE  Reset \/ (at' = "prompt" /\ UNCHANGED <<mainVars, mem, transferVars>>)
<1>1. buf \in Seq(Char) /\ LOAD \in Seq(Char) /\ DUMP \in Seq(Char) /\ RUN \in Seq(Char)
  BY BootAssumption DEF LoopInv, LineInv, Char
<1>2. strcmp(buf, LOAD) # 0 /\ strcmp(buf, DUMP) # 0 /\ strcmp(buf, RUN) # 0
  BY <1>1, StrcmpIsEquality, Zenon
<1>3. ~load /\ ~dump /\ ~run
  BY <1>2, Zenon DEF load, dump, run
<1>4. ~gets /\ ~Accepts /\ ~Rejects /\ ~Overruns /\ ~received /\ ~Return
  BY DEF gets, Accepts, Rejects, Overruns, received, Return
<1>5. Reset \/ unknown
  BY <1>3, <1>4, Zenon DEF Next
<1> QED BY <1>5 DEF unknown

(* A line that main() has room for and that is not the name of a command,  *)
(* though it may begin with one, leaves RAM, the buffer, the size and the  *)
(* last load as they are.  Of longer lines, which gets() writes over the   *)
(* loader's variables, it says nothing.                                    *)
THEOREM OtherLinesAreHarmless == Spec => OnlyCommandsAct
<1>1. LoopInv /\ [Next]_vars =>
        [at = "command" /\ buf \notin {LOAD, DUMP, RUN} =>
           Reset \/ (at' = "prompt" /\ UNCHANGED <<mainVars, mem, transferVars>>)]_vars
  BY NoCommandNoAction
<1> QED BY LoopInit, LoopStep, <1>1, PTL DEF Spec, OnlyCommandsAct

-------------------------------------------------------------------------------
(***************************************************************************)
(* The loops of the loader as sequences of states: the library states that a *)
(* recursive function exists only for the natural numbers and one argument. *)
(***************************************************************************)

(* A recursive function over Nat, defined by what follows a value. *)
IsUnfolded(g, V, a, step) ==
  /\ g \in [Nat -> V]
  /\ g = [n \in Nat |-> IF n = 0 THEN a ELSE step[n - 1][g[n - 1]]]

(* A function that goes from each value to the next exists: it is the one  *)
(* the definition of a loop chooses.                                       *)
LEMMA Unfolds ==
  ASSUME NEW V, NEW a \in V, NEW step \in [Nat -> [V -> V]]
  PROVE  \E g : IsUnfolded(g, V, a, step)
<1>1. PICK f : Recurs(f, V, a, step)
  BY Recursion
<1>2. f \in [Nat -> V] /\ f[0] = a /\ \A n \in Nat : f[n + 1] = step[n][f[n]]
  BY <1>1 DEF Recurs
<1>3. \A n \in Nat : f[n] = IF n = 0 THEN a ELSE step[n - 1][f[n - 1]]
  <2> SUFFICES ASSUME NEW n \in Nat, n # 0 PROVE f[n] = step[n - 1][f[n - 1]]
    BY <1>2
  <2>1. n - 1 \in Nat /\ n - 1 + 1 = n
    OBVIOUS
  <2> QED BY <1>2, <2>1
<1>4. f = [n \in Nat |-> IF n = 0 THEN a ELSE step[n - 1][f[n - 1]]]
  BY <1>2, <1>3
<1> QED BY <1>2, <1>4 DEF IsUnfolded

(* The powers of 16 are what their definition says. *)
LEMMA Powers ==
  /\ Power \in [Nat -> Nat \ {0}] /\ Power[0] = 1
  /\ \A n \in Nat : Power[n + 1] = 16 * Power[n]
<1> DEFINE V == Nat \ {0}
           step == [n \in Nat |-> [v \in V |-> 16 * v]]
           Rec(g) == g = [n \in Nat |-> IF n = 0 THEN 1 ELSE 16 * g[n - 1]]
<1>1. step \in [Nat -> [V -> V]] /\ 1 \in V
  OBVIOUS
<1>2. PICK g : IsUnfolded(g, V, 1, step)
  <2> HIDE DEF step, V
  <2> QED BY <1>1, Unfolds
<1>3. Rec(g)
  <2>1. ASSUME NEW n \in Nat, n # 0 PROVE step[n - 1][g[n - 1]] = 16 * g[n - 1]
    <3>1. n - 1 \in Nat /\ n - 1 + 1 = n
      BY <2>1
    <3>2. g[n - 1] \in V
      BY <1>2, <3>1 DEF IsUnfolded
    <3> HIDE DEF V
    <3> QED BY <3>1, <3>2
  <2> HIDE DEF step
  <2> QED BY <1>2, <2>1 DEF IsUnfolded
<1>4. Power = CHOOSE h : Rec(h)
  BY DEF Power
<1>5. Rec(Power)
  <2> HIDE DEF Rec
  <2> QED BY <1>3, <1>4
<1>6. Power[0] = 1 /\ \A n \in Nat : Power[n + 1] = 16 * Power[n]
  BY <1>5
<1> DEFINE S == {n \in Nat : Power[n] \in V}
<1>7. 0 \in S /\ \A n \in Nat : n \in S => n + 1 \in S
  BY <1>6
<1>8. Nat \subseteq S
  <2> HIDE DEF S
  <2> QED BY <1>7, SetInduction
<1> QED BY <1>5, <1>6, <1>8

(***************************************************************************)
(* memcpy().                                                               *)
(***************************************************************************)
Reads(m, a, E) == IF a \in DOMAIN m THEN m[a] ELSE E

(* One round of the loop of memcpy(). *)
CopyStep(k, dst, src, n, E) == [k EXCEPT ![dst + n] = Reads(k, src + n, E)]

(* c is the memory after each round of memcpy(). *)
Copies(c, V, m, dst, src, len, E) ==
  /\ c \in [Nat -> V] /\ c[0] = m
  /\ \A n \in Nat : c[n + 1] = CopyStep(c[n], dst, src, n, E)
  /\ memcpy(m, dst, src, len, E) = IF len > 0 THEN c[len] ELSE m

(* memcpy() is the last memory of its rounds. *)
LEMMA CopyUnfolds ==
  ASSUME NEW R, NEW C, NEW E \in C, NEW m \in [R -> C],
         NEW dst \in Int, NEW src \in Int, NEW len \in Int
  PROVE  \E c : Copies(c, [R -> C], m, dst, src, len, E)
<1> DEFINE V == [R -> C]
           Next1(k, n) == [k EXCEPT ![dst + n - 1] = Reads(k, src + n - 1, E)]
           step == [n \in Nat |-> [k \in V |-> Next1(k, n + 1)]]
           Rec(g) == g = [n \in Nat |-> IF n = 0 THEN m ELSE Next1(g[n - 1], n)]
<1>0. \A k \in V, n \in Nat : Next1(k, n + 1) \in V
  BY DEF Reads
<1>1. step \in [Nat -> [V -> V]] /\ m \in V
  BY <1>0
<1>2. PICK g : IsUnfolded(g, V, m, step)
  <2> HIDE DEF step, V
  <2> QED BY <1>1, Unfolds
<1>3. Rec(g)
  <2>1. \A n \in Nat : n # 0 => step[n - 1][g[n - 1]] = Next1(g[n - 1], n)
    <3> SUFFICES ASSUME NEW n \in Nat, n # 0 PROVE step[n - 1][g[n - 1]] = Next1(g[n - 1], n)
      OBVIOUS
    <3>1. n - 1 \in Nat /\ n - 1 + 1 = n
      OBVIOUS
    <3>2. g[n - 1] \in V
      BY <1>2, <3>1 DEF IsUnfolded
    <3> HIDE DEF Next1, V
    <3> QED BY <3>1, <3>2
  <2> HIDE DEF Next1, step
  <2> QED BY <1>2, <2>1 DEF IsUnfolded
<1> DEFINE c == CHOOSE h : Rec(h)
<1>4. memcpy(m, dst, src, len, E) = IF len > 0 THEN c[len] ELSE m
  BY DEF memcpy, Reads
<1>5. Rec(c)
  <2> HIDE DEF Rec
  <2> QED BY <1>3
<1>6. c[0] = m /\ \A n \in Nat : c[n + 1] = Next1(c[n], n + 1)
  <2> HIDE DEF c
  <2>1. c[0] = m
    BY <1>5
  <2>2. ASSUME NEW n \in Nat PROVE c[n + 1] = Next1(c[n], n + 1)
    <3>1. n + 1 \in Nat /\ n + 1 # 0 /\ n + 1 - 1 = n
      OBVIOUS
    <3> HIDE DEF Next1
    <3> QED BY <1>5, <3>1
  <2> QED BY <2>1, <2>2
<1>7. c = [n \in Nat |-> c[n]]
  <2> HIDE DEF c
  <2> QED BY <1>5
<1> HIDE DEF c
<1> DEFINE S == {n \in Nat : c[n] \in V}
<1>8. 0 \in S /\ \A n \in Nat : n \in S => n + 1 \in S
  <2> HIDE DEF Next1, V
  <2> QED BY <1>0, <1>1, <1>6
<1>9. Nat \subseteq S
  <2> HIDE DEF S
  <2> QED BY <1>8, SetInduction
<1>10. c \in [Nat -> V]
  <2> HIDE DEF V
  <2> QED BY <1>7, <1>9
<1>11. \A n \in Nat : Next1(c[n], n + 1) = CopyStep(c[n], dst, src, n, E)
  <2> SUFFICES ASSUME NEW n \in Nat PROVE Next1(c[n], n + 1) = CopyStep(c[n], dst, src, n, E)
    OBVIOUS
  <2>1. src + (n + 1) - 1 = src + n /\ dst + (n + 1) - 1 = dst + n
    OBVIOUS
  <2> QED BY <2>1, Zenon DEF CopyStep
<1>12. Copies(c, V, m, dst, src, len, E)
  <2> HIDE DEF Next1, V
  <2> QED BY <1>4, <1>6, <1>10, <1>11 DEF Copies
<1> QED BY <1>12

(* memcpy() leaves a memory, whatever the areas. *)
LEMMA CopyType ==
  ASSUME NEW R, NEW C, NEW E \in C, NEW m \in [R -> C],
         NEW dst \in Int, NEW src \in Int, NEW len \in Int
  PROVE  memcpy(m, dst, src, len, E) \in [R -> C]
<1>1. PICK c : Copies(c, [R -> C], m, dst, src, len, E)
  BY CopyUnfolds
<1>2. c \in [Nat -> [R -> C]]
  BY <1>1 DEF Copies
<1>3. len > 0 => c[len] \in [R -> C]
  BY <1>2
<1> QED BY <1>1, <1>3 DEF Copies

(* Between areas that do not overlap, memcpy() moves what was there before.*)
Apart(dst, src, len) == \A i, j \in Nat : i < len /\ j < len => src + i # dst + j

(* What memcpy() does to areas that do not overlap: all of the source is   *)
(* in the place of the destination, the rest is as before.                 *)
Moved(R, m, dst, src, len, E) ==
  [a \in R |-> IF a \in dst .. dst + len - 1 THEN Reads(m, src + (a - dst), E) ELSE m[a]]

(* memcpy() from the first cell to the last moves the whole source, if the *)
(* destination does not overlap it.                                        *)
LEMMA CopiesApart ==
  ASSUME NEW R, NEW C, NEW E \in C, NEW m \in [R -> C],
         NEW dst \in Int, NEW src \in Int, NEW len \in Int, Apart(dst, src, len)
  PROVE  memcpy(m, dst, src, len, E) = Moved(R, m, dst, src, len, E)
<1> USE DEF Apart
<1> DEFINE Copied(n) == [a \in R |-> IF a \in dst .. dst + n - 1
                                     THEN Reads(m, src + (a - dst), E) ELSE m[a]]
<1>0. Copied(len) = Moved(R, m, dst, src, len, E)
  BY DEF Moved
<1>1. PICK c : Copies(c, [R -> C], m, dst, src, len, E)
  BY CopyUnfolds
<1>2. c[0] = m /\ \A n \in Nat : c[n + 1] = CopyStep(c[n], dst, src, n, E)
  BY <1>1 DEF Copies
<1> DEFINE S == {n \in Nat : n <= len \/ n = 0 => c[n] = Copied(n)}
<1>7. 0 \in S
  <2>1. Copied(0) = m
    OBVIOUS
  <2> QED BY <1>2, <2>1
<1>8. ASSUME NEW n \in Nat, n \in S PROVE n + 1 \in S
  <2> SUFFICES ASSUME n + 1 <= len PROVE c[n + 1] = Copied(n + 1)
    OBVIOUS
  <2>1. c[n] = Copied(n) /\ c[n + 1] = CopyStep(c[n], dst, src, n, E)
    BY <1>2, <1>8
  <2>2. Reads(Copied(n), src + n, E) = Reads(m, src + n, E)
    <3>1. src + n \notin dst .. dst + n - 1
      <4> SUFFICES ASSUME src + n \in dst .. dst + n - 1 PROVE FALSE
        OBVIOUS
      <4>1. PICK j \in Nat : j = src + n - dst /\ j < len /\ n < len
        OBVIOUS
      <4>2. src + n = dst + j
        BY <4>1
      <4> QED BY <4>1, <4>2
    <3> QED BY <3>1 DEF Reads
  <2>4. CopyStep(Copied(n), dst, src, n, E) = [Copied(n) EXCEPT ![dst + n] = Reads(m, src + n, E)]
    <3> HIDE DEF Copied
    <3> QED BY <2>2, Zenon DEF CopyStep
  <2>5. [Copied(n) EXCEPT ![dst + n] = Reads(m, src + n, E)] = Copied(n + 1)
    <3>1. ASSUME NEW a \in R
          PROVE  [Copied(n) EXCEPT ![dst + n] = Reads(m, src + n, E)][a] = Copied(n + 1)[a]
      <4>1. CASE a = dst + n
        <5>1. a \in dst .. dst + (n + 1) - 1 /\ src + (a - dst) = src + n
          BY <4>1
        <5> QED BY <4>1, <5>1
      <4>2. CASE a # dst + n
        <5>1. a \in dst .. dst + (n + 1) - 1 <=> a \in dst .. dst + n - 1
          BY <4>2
        <5> QED BY <4>2, <5>1
      <4> QED BY <4>1, <4>2
    <3> QED BY <3>1
  <2> QED BY <2>1, <2>4, <2>5
<1>9. Nat \subseteq S
  <2> HIDE DEF S
  <2> QED BY <1>7, <1>8, SetInduction
<1>10. CASE len > 0
  <2>1. len \in S /\ len <= len
    BY <1>9, <1>10
  <2> QED BY <1>0, <1>1, <1>10, <2>1 DEF Copies
<1>11. CASE ~(len > 0)
  <2>1. dst .. dst + len - 1 = {}
    BY <1>11
  <2>2. Copied(len) = m
    BY <2>1
  <2> QED BY <1>0, <1>1, <1>11, <2>2 DEF Copies
<1> QED BY <1>10, <1>11

(***************************************************************************)
(* The loader's loop.                                                      *)
(***************************************************************************)
LoaderState == [mem : [Ram -> Cell], wild : BOOLEAN]

(* What the kind of a cell says of it.                                     *)
LEMMA CellKinds ==
  ASSUME NEW c \in Cell
  PROVE  /\ c.kind = "ehdr" => c \in ElfHeader
         /\ c.kind = "phdr" => c \in ProgramHeader
         /\ c.kind = "zero" => c = Zero
         /\ c.kind = "noise" => c = Noise
         /\ c.kind \in {"ehdr", "phdr", "data", "zero", "outside", "noise"}
<1>1. CASE c \in ElfHeader
  BY <1>1 DEF ElfHeader
<1>2. CASE c \in ProgramHeader
  BY <1>2 DEF ProgramHeader
<1>3. CASE c \in [kind : {"data"}, value : Int]
  BY <1>3
<1>4. CASE c \in {Zero, Outside, Noise}
  BY <1>4 DEF Zero, Outside, Noise
<1> QED BY <1>1, <1>2, <1>3, <1>4 DEF Cell, FileCell

(* What is read is a cell, also outside the memory. *)
LEMMA AtType ==
  ASSUME NEW m \in [Ram -> Cell], NEW a PROVE At(m, a) \in Cell
<1>1. Outside \in Cell
  BY DEF Cell
<1> QED BY <1>1 DEF At

(* Unpacking a segment leaves a memory, whatever its header says. *)
LEMMA UnpackedType ==
  ASSUME NEW m \in [Ram -> Cell], NEW b \in Int, NEW ph \in ProgramHeader
  PROVE  Unpacked(m, b, ph) \in [Ram -> Cell]
<1>1. /\ ph.physical_addr \in Int /\ ph.offset \in Int
      /\ ph.file_size \in Int /\ ph.memory_size \in Int
  BY DEF ProgramHeader
<1>2. Outside \in Cell /\ Zero \in Cell
  BY DEF Cell
<1> DEFINE k == memcpy(m, ph.physical_addr, b + ph.offset, ph.file_size, Outside)
<1>3. k \in [Ram -> Cell]
  <2>1. b + ph.offset \in Int
    BY <1>1
  <2> QED BY <1>1, <1>2, <2>1, CopyType
<1> HIDE DEF k
<1>4. memset(k, ph.physical_addr + ph.file_size, Zero, ph.memory_size - ph.file_size)
        \in [Ram -> Cell]
  BY <1>2, <1>3 DEF memset
<1> QED BY <1>4 DEF Unpacked, k

(* So does every round of the loop over the segments. *)
LEMMA LoadSegmentType ==
  ASSUME NEW s \in LoaderState, NEW b \in Int, NEW i \in Nat
  PROVE  LoadSegment(s, b, i) \in LoaderState
<1> DEFINE h  == At(s.mem, b)
           ph == At(s.mem, b + h.program_header_offset + h.program_header_size * i)
<1>1. /\ s.mem \in [Ram -> Cell] /\ s.wild \in BOOLEAN
      /\ s = [mem |-> s.mem, wild |-> s.wild]
  BY DEF LoaderState
<1>2. ph \in Cell
  BY <1>1, AtType
<1>3. Wild(s) \in LoaderState
  BY <1>1 DEF Wild, LoaderState
<1> HIDE DEF h, ph
<1>4. ASSUME ph.kind \in {"phdr", "zero"}, ph # Zero
      PROVE  [s EXCEPT !.mem = Unpacked(@, b, ph)] \in LoaderState
  <2>1. ph \in ProgramHeader
    BY <1>2, <1>4, CellKinds
  <2>2. Unpacked(s.mem, b, ph) \in [Ram -> Cell]
    BY <1>1, <2>1, UnpackedType
  <2> QED BY <1>1, <2>2 DEF LoaderState
<1> QED BY <1>3, <1>4, Zenon DEF LoadSegment, h, ph

-------------------------------------------------------------------------------
(***************************************************************************)
(* The loader's loop, round by round.                                      *)
(***************************************************************************)
Rounds(l, m, b) ==
  /\ l \in [Nat -> LoaderState]
  /\ l[0] = [mem |-> m, wild |-> FALSE]
  /\ \A n \in Nat : l[n + 1] = LoadSegment(l[n], b, n)
  /\ elf_load_program(m, b) = l[Most(m)]

(* elf_load_program() is the last state of the rounds of its loop. *)
LEMMA LoopUnfolds ==
  ASSUME NEW m \in [Ram -> Cell], NEW b \in Int
  PROVE  \E l : Rounds(l, m, b)
<1> DEFINE s0 == [mem |-> m, wild |-> FALSE]
           Next1(s, n) == LoadSegment(s, b, n - 1)
           step == [n \in Nat |-> [s \in LoaderState |-> LoadSegment(s, b, n)]]
           Rec(g) == g = [n \in Nat |-> IF n = 0 THEN s0 ELSE Next1(g[n - 1], n)]
<1>1. step \in [Nat -> [LoaderState -> LoaderState]] /\ s0 \in LoaderState
  <2>1. step \in [Nat -> [LoaderState -> LoaderState]]
    BY LoadSegmentType
  <2>2. s0 \in LoaderState
    BY DEF LoaderState
  <2> QED BY <2>1, <2>2
<1>2. PICK g : IsUnfolded(g, LoaderState, s0, step)
  <2> HIDE DEF step, s0
  <2> QED BY <1>1, Unfolds
<1>3. Rec(g)
  <2>1. \A n \in Nat : n # 0 => step[n - 1][g[n - 1]] = Next1(g[n - 1], n)
    <3> SUFFICES ASSUME NEW n \in Nat, n # 0 PROVE step[n - 1][g[n - 1]] = Next1(g[n - 1], n)
      OBVIOUS
    <3>1. n - 1 \in Nat /\ n - 1 + 1 = n
      OBVIOUS
    <3>2. g[n - 1] \in LoaderState
      BY <1>2, <3>1 DEF IsUnfolded
    <3> QED BY <3>1, <3>2
  <2> HIDE DEF Next1, step
  <2> QED BY <1>2, <2>1 DEF IsUnfolded
<1> DEFINE l == CHOOSE h : Rec(h)
<1>4. elf_load_program(m, b) = l[Most(m)]
  BY DEF elf_load_program
<1>5. Rec(l)
  <2> HIDE DEF Rec
  <2> QED BY <1>3
<1>6. l[0] = s0 /\ \A n \in Nat : l[n + 1] = LoadSegment(l[n], b, n)
  <2> HIDE DEF l
  <2>1. l[0] = s0
    BY <1>5
  <2>2. ASSUME NEW n \in Nat PROVE l[n + 1] = LoadSegment(l[n], b, n)
    <3>1. n + 1 \in Nat /\ n + 1 # 0 /\ n + 1 - 1 = n
      BY <2>2
    <3>2. l[n + 1] = Next1(l[n], n + 1)
      <4>1. l = [k \in Nat |-> IF k = 0 THEN s0 ELSE Next1(l[k - 1], k)]
        BY <1>5
      <4> HIDE DEF Next1, s0
      <4> QED BY <3>1, <4>1
    <3> QED BY <3>1, <3>2
  <2> QED BY <2>1, <2>2
<1>7. l = [n \in Nat |-> l[n]]
  <2> HIDE DEF l
  <2> QED BY <1>5
<1> HIDE DEF l
<1> DEFINE T1 == {n \in Nat : l[n] \in LoaderState}
<1>8. 0 \in T1 /\ \A n \in Nat : n \in T1 => n + 1 \in T1
  <2> HIDE DEF s0
  <2> QED BY <1>1, <1>6, LoadSegmentType
<1>9. Nat \subseteq T1
  <2> HIDE DEF T1
  <2> QED BY <1>8, SetInduction
<1>10. l \in [Nat -> LoaderState]
  BY <1>7, <1>9
<1>11. Rounds(l, m, b)
  BY <1>4, <1>6, <1>10 DEF Rounds
<1> QED BY <1>11

(* The values of a long are numbers, 0 among them. *)
LEMMA LongType == Long \subseteq Nat /\ 0 \in Long
<1>1. Power[XDIGITS] \in Nat \ {0}
  BY Powers, LibAssumption
<1> QED BY <1>1 DEF Long

(* The fields of a header are numbers. *)
LEMMA HeaderType ==
  ASSUME NEW h \in ElfHeader
  PROVE  /\ h.entry_point \in Long /\ h.kind = "ehdr"
         /\ h.program_header_num \in Int /\ h.program_header_offset \in Int
         /\ h.program_header_size \in Int
         /\ h.program_header_num <= 8 * Power[3]
<1>1. /\ h.entry_point \in Long /\ h.kind = "ehdr" /\ h.program_header_offset \in Int
      /\ h.program_header_size \in Short /\ h.program_header_num \in Short
  BY DEF ElfHeader
<1>2. Power[3] \in Nat
  BY Powers
<1>3. \A n \in Short : n \in Int /\ n <= 8 * Power[3]
  BY <1>2 DEF Short
<1> QED BY <1>1, <1>3

(* Numbers up to n have a largest one. *)
LEMMA MaxExists ==
  ASSUME NEW n \in Nat, NEW S \in SUBSET Int, S # {}, \A y \in S : y <= n
  PROVE  Max(S) \in S /\ \A y \in S : Max(S) >= y
<1> DEFINE R == {n - x : x \in S}
<1>1. R \in SUBSET Nat /\ R # {}
  <2>1. \A x \in S : n - x \in Nat
    OBVIOUS
  <2>2. PICK x : x \in S
    OBVIOUS
  <2>3. n - x \in R
    BY <2>2
  <2> QED BY <2>1, <2>3
<1>2. PICK r \in R : \A y \in R : r <= y
  <2> HIDE DEF R
  <2> QED BY <1>1, HasLeast
<1>3. PICK x \in S : r = n - x
  BY <1>2
<1>4. \A y \in S : x >= y
  <2> SUFFICES ASSUME NEW y \in S PROVE x >= y
    OBVIOUS
  <2>1. n - y \in R
    OBVIOUS
  <2>2. n - x <= n - y
    <3> HIDE DEF R
    <3> QED BY <1>2, <1>3, <2>1
  <2> QED BY <2>2
<1>5. Max(S) = CHOOSE z \in S : \A y \in S : z >= y
  BY DEF Max
<1> QED BY <1>3, <1>4, <1>5

(* The number of rounds is a number, no less than the segments of any      *)
(* header in memory.                                                       *)
LEMMA MostSegments ==
  ASSUME NEW m \in [Ram -> Cell]
  PROVE  /\ Most(m) \in Nat
         /\ \A a \in Ram : m[a].kind = "ehdr" => m[a].program_header_num <= Most(m)
<1> DEFINE S == {0} \cup {m[a].program_header_num : a \in {b \in Ram : m[b].kind = "ehdr"}}
<1>0. PICK top \in Nat : top = 8 * Power[3]
  BY Powers
<1>1. \A a \in Ram : m[a].kind = "ehdr" =>
        m[a].program_header_num \in Int /\ m[a].program_header_num <= top
  BY <1>0, CellKinds, HeaderType
<1>2. S \in SUBSET Int /\ S # {} /\ \A y \in S : y <= top
  BY <1>1
<1>3. /\ 0 \in S
      /\ \A a \in Ram : m[a].kind = "ehdr" => m[a].program_header_num \in S
  OBVIOUS
<1>4. Most(m) = Max(S)
  BY DEF Most
<1> HIDE DEF S
<1>5. Max(S) \in S /\ \A y \in S : Max(S) >= y
  BY <1>2, MaxExists
<1>6. Most(m) \in Int /\ Most(m) >= 0 /\ \A y \in S : y \in Int /\ y <= Most(m)
  BY <1>2, <1>3, <1>4, <1>5
<1> QED BY <1>3, <1>6

(* elf_load() leaves a memory and returns a long, on any memory. *)
LEMMA LoadType ==
  ASSUME NEW m \in [Ram -> Cell], NEW b \in Int
  PROVE  /\ elf_load(m, b).mem \in [Ram -> Cell]
         /\ elf_load(m, b).entry \in Long
<1> DEFINE r == elf_load(m, b)
           s == elf_load_program(m, b)
<1>1. CASE ~elf_check(At(m, b))
  <2>1. r = [mem |-> m, wild |-> FALSE, entry |-> 0]
    BY <1>1 DEF elf_load
  <2> QED BY <2>1, LongType
<1>2. CASE elf_check(At(m, b))
  <2>1. At(m, b) \in ElfHeader
    BY <1>2, AtType, CellKinds DEF elf_check
  <2>2. Most(m) \in Nat
    BY MostSegments
  <2>3. PICK l : Rounds(l, m, b)
    BY LoopUnfolds
  <2>4. s \in LoaderState
    <3>1. s = l[Most(m)]
      BY <2>3 DEF Rounds
    <3> QED BY <2>2, <2>3, <3>1 DEF Rounds
  <2>5. s.mem \in [Ram -> Cell]
    BY <2>4 DEF LoaderState
  <2> DEFINE h == At(s.mem, b)
  <2>6. h \in Cell /\ (h.kind = "ehdr" => h.entry_point \in Long)
    BY <2>5, AtType, CellKinds, HeaderType
  <2>7. /\ r.mem = s.mem
        /\ r.entry = IF h.kind = "ehdr" THEN h.entry_point ELSE 0
    BY <1>2 DEF elf_load
  <2> HIDE DEF r, s, h
  <2> QED BY <2>5, <2>6, <2>7, LongType DEF r
<1> QED BY <1>1, <1>2

-------------------------------------------------------------------------------
(***************************************************************************)
(* The types.                                                              *)
(***************************************************************************)

(* Where the (n + 1)-st block begins. *)
Off(n) == n * XMODEM_BLOCK_SIZE

(* Blocks lie behind each other and do not overlap. *)
LEMMA Offs ==
  /\ Off(0) = 0
  /\ \A n \in Nat : Off(n) \in Nat /\ Off(n + 1) = Off(n) + XMODEM_BLOCK_SIZE
  /\ \A n, k \in Nat : n <= k => Off(n) <= Off(k)
<1>1. \A b \in Nat \ {0} :
        /\ 0 * b = 0
        /\ \A n \in Nat : n * b \in Nat /\ (n + 1) * b = n * b + b
        /\ \A n, k \in Nat : n <= k => n * b <= k * b
  OBVIOUS
<1>2. XMODEM_BLOCK_SIZE \in Nat \ {0}
  BY BootAssumption
<1> QED BY <1>1, <1>2, Zenon DEF Off

(* A file is a sequence of blocks of one size. *)
LEMMA FileTypes ==
  ASSUME NEW f \in Files
  PROVE  /\ f \in Seq(Seq(FileCell)) /\ Len(f) \in Nat
         /\ \A n \in 1 .. Len(f) : f[n] \in Seq(FileCell) /\ Len(f[n]) = XMODEM_BLOCK_SIZE
         /\ f # NULL
<1>1. f \in Seq(Seq(FileCell)) /\ f # NULL
  BY BootAssumption
<1>2. Len(f) \in Nat /\ DOMAIN f = 1 .. Len(f) /\ \A n \in 1 .. Len(f) : f[n] \in Seq(FileCell)
  BY <1>1
<1> QED BY <1>1, <1>2, BootAssumption

(* The buffer is a finite part of RAM, and none of it at address 0. *)
LEMMA RamTypes ==
  /\ buffer_start \in Nat \ {0} /\ buffer_start \in Ram /\ Ram \subseteq Nat \ {0}
  /\ Buffer \subseteq Ram /\ IsFiniteSet(Buffer) /\ Cardinality(Buffer) \in Nat
<1>1. buffer_start \in Ram /\ Ram \subseteq Nat \ {0} /\ IsFiniteSet(Ram)
  BY BootAssumption
<1>2. Buffer \subseteq Ram
  BY DEF Buffer
<1>3. IsFiniteSet(Buffer)
  BY <1>1, <1>2, FS_Subset
<1> QED BY <1>1, <1>2, <1>3, FS_CardinalityType

(* What has its place in the buffer is no longer than the buffer. *)
LEMMA NoLongerThanBuffer ==
  ASSUME NEW k \in Nat, InBuffer(k) PROVE k <= Cardinality(Buffer)
<1> DEFINE last == buffer_start + k - 1
<1>1. k \in Nat /\ \A n \in 1 .. k : buffer_start + n - 1 \in Buffer
  BY DEF InBuffer
<1>2. buffer_start .. last \subseteq Buffer
  <2> SUFFICES ASSUME NEW a \in buffer_start .. last PROVE a \in Buffer
    OBVIOUS
  <2>1. PICK n \in 1 .. k : a = buffer_start + n - 1
    <3>1. a - buffer_start + 1 \in 1 .. k /\ a = buffer_start + (a - buffer_start + 1) - 1
      BY <1>1, RamTypes
    <3> QED BY <3>1
  <2> QED BY <1>1, <2>1
<1>3. Cardinality(buffer_start .. last) = k
  <2>1. buffer_start \in Int /\ last \in Int
    BY <1>1, RamTypes
  <2>2. Cardinality(buffer_start .. last)
          = IF buffer_start > last THEN 0 ELSE last - buffer_start + 1
    BY <2>1, FS_Interval
  <2> QED BY <1>1, <2>2, RamTypes
<1>4. Cardinality(buffer_start .. last) <= Cardinality(Buffer)
  BY <1>2, RamTypes, FS_Subset
<1> QED BY <1>3, <1>4

-------------------------------------------------------------------------------
(* The blocks that were accepted are the first ones of the file, and lie   *)
(* in the buffer.                                                          *)
StoredInv ==
  /\ stored \in Seq(Seq(FileCell))
  /\ InBuffer(Off(Len(stored)))
  /\ file = NULL => stored = <<>> /\ outcome = NULL /\ at # "loading"
  /\ file # NULL => /\ Len(stored) <= Len(file)
                    /\ \A n \in 1 .. Len(stored) : stored[n] = file[n]

(* size is what the last transfer has returned, which is -1 or the cells   *)
(* it has stored.                                                          *)
SizeInv ==
  /\ outcome \in {NULL, -1, Off(Len(stored))}
  /\ at = "loading" => outcome = NULL
  /\ at \notin {"loading", "overrun"} =>
       /\ size = IF outcome = NULL THEN -1 ELSE outcome
       /\ outcome = NULL => file = NULL

(* The types, with what they rest on. *)
TypeInv == TypeOK /\ StoredInv /\ SizeInv

(* No block needs no room. *)
LEMMA NothingStored == <<>> \in Seq(Seq(FileCell)) /\ Len(<<>>) = 0 /\ InBuffer(Off(Len(<<>>)))
<1>1. Len(<<>>) = 0 /\ Off(0) = 0 /\ 1 .. 0 = {} /\ <<>> \in Seq(Seq(FileCell))
  BY Offs
<1> QED BY <1>1 DEF InBuffer

(* At the start nothing has been sent. *)
LEMMA InitType == Init => TypeInv
<1> SUFFICES ASSUME Init PROVE TypeInv
  OBVIOUS
<1>1. Junk \in Cell
  BY BootAssumption DEF Cell
<1>2. mem \in [Ram -> Cell]
  BY <1>1 DEF Init, Blank
<1>3. -1 \in -1 .. Cardinality(Buffer)
  BY RamTypes
<1>4. TypeOK
  BY <1>2, <1>3 DEF Init, TypeOK
<1>5. StoredInv
  BY NothingStored DEF Init, StoredInv
<1>6. SizeInv
  BY DEF Init, SizeInv
<1> QED BY <1>4, <1>5, <1>6 DEF TypeInv

(* A block of cells in the buffer leaves a memory. *)
LEMMA PutsType ==
  ASSUME mem \in [Ram -> Cell], NEW block \in Seq(Cell), Puts(block)
  PROVE  mem' \in [Ram -> Cell]
<1>1. \A n \in DOMAIN block : block[n] \in Cell
  OBVIOUS
<1> QED BY <1>1 DEF Puts

(* While blocks are missing, the next one is a block of cells. *)
LEMMA NextBlock ==
  ASSUME TypeInv, at = "loading", Len(stored) < Len(file)
  PROVE  /\ file \in Files /\ Len(stored) \in Nat /\ Len(stored) + 1 \in 1 .. Len(file)
         /\ file[Len(stored) + 1] \in Seq(FileCell) /\ file[Len(stored) + 1] \in Seq(Cell)
         /\ Len(file[Len(stored) + 1]) = XMODEM_BLOCK_SIZE
<1>1. file \in Files /\ Len(stored) \in Nat
  BY DEF TypeInv, TypeOK, StoredInv
<1>2. Len(stored) + 1 \in 1 .. Len(file)
  BY <1>1, FileTypes
<1>3. FileCell \subseteq Cell
  BY DEF Cell
<1>4. \A s \in Seq(FileCell) : s \in Seq(Cell)
  BY <1>3
<1> QED BY <1>1, <1>2, <1>4, FileTypes

(* A spoilt block is one of the same length. *)
LEMMA SpoiltBlock ==
  ASSUME NEW s \in Seq(Cell), NEW i
  PROVE  ReplaceAt(s, i, Noise) \in Seq(Cell) /\ Len(ReplaceAt(s, i, Noise)) = Len(s)
<1> DEFINE t == ReplaceAt(s, i, Noise)
<1>1. Noise \in Cell /\ s \in [1 .. Len(s) -> Cell] /\ Len(s) \in Nat
  BY DEF Cell
<1>2. t \in [1 .. Len(s) -> Cell]
  BY <1>1 DEF ReplaceAt
<1> HIDE DEF t
<1>3. t \in Seq(Cell) /\ Len(t) = Len(s)
  BY <1>1, <1>2
<1> QED BY <1>3 DEF t

(* Every step keeps the types. *)
LEMMA NextType == TypeInv /\ [Next]_vars => TypeInv'
<1> SUFFICES ASSUME TypeInv, [Next]_vars PROVE TypeInv'
  OBVIOUS
<1> USE DEF TypeInv
<1>0. Junk \in Cell /\ -1 \in -1 .. Cardinality(Buffer)
  BY BootAssumption, RamTypes DEF Cell
<1>1. CASE Reset
  <2>1. Blank \in [Ram -> Cell] /\ Scrambled \in [Ram -> Cell]
    BY <1>0 DEF Blank, Scrambled, Cell
  <2>2. mem' \in [Ram -> Cell]
    BY <1>1, <2>1 DEF Reset, TypeOK
  <2>3. /\ at' = "prompt" /\ size' = -1 /\ loadbuf' = 0 /\ UNCHANGED buf
        /\ file' = NULL /\ stored' = <<>> /\ outcome' = NULL
    BY <1>1 DEF Reset, init
  <2>4. TypeOK'
    BY <1>0, <2>2, <2>3 DEF TypeOK
  <2>5. StoredInv'
    BY <2>3, NothingStored DEF StoredInv
  <2>6. SizeInv'
    BY <2>3 DEF SizeInv
  <2> QED BY <2>4, <2>5, <2>6
<1>2. CASE gets
  <2>1. /\ UNCHANGED <<size, loadbuf, mem, file, stored, outcome>> /\ buf' \in Lines
        /\ at = "prompt" /\ at' \in {"command", "overrun"}
    BY <1>2 DEF gets, mainVars, transferVars
  <2> QED BY <2>1 DEF TypeOK, StoredInv, SizeInv
<1>3. CASE load
  <2>1. file' \in Files /\ file' # NULL /\ Len(file') \in Nat
    BY <1>3, FileTypes DEF load
  <2>2. TypeOK'
    BY <1>3, <2>1 DEF load, TypeOK
  <2>3. StoredInv'
    <3>1. stored' = <<>> /\ outcome' = NULL /\ at' = "loading"
      BY <1>3 DEF load
    <3>2. 1 .. Len(<<>>) = {}
      BY NothingStored
    <3>3. \A n \in 1 .. Len(<<>>) : <<>>[n] = file'[n]
      BY <3>2
    <3> QED BY <2>1, <3>1, <3>3, NothingStored DEF StoredInv
  <2>4. SizeInv'
    BY <1>3 DEF load, SizeInv
  <2> QED BY <2>2, <2>3, <2>4
<1>4. CASE dump \/ unknown
  BY <1>4 DEF dump, unknown, mainVars, transferVars, TypeOK, StoredInv, SizeInv
<1>5. CASE run
  <2>1. loadbuf \in Int /\ mem \in [Ram -> Cell]
    BY RamTypes DEF TypeOK
  <2>2. elf_load(mem, loadbuf).mem \in [Ram -> Cell]
    BY <2>1, LoadType
  <2>3. mem' \in [Ram -> Cell] /\ at' \in {"wild", "prompt", "started"}
    BY <1>5, <2>1, <2>2, Zenon DEF run
  <2>4. UNCHANGED <<buf, mainVars, transferVars>> /\ at = "command"
    BY <1>5 DEF run
  <2> QED BY <2>3, <2>4 DEF mainVars, transferVars, TypeOK, StoredInv, SizeInv
<1>6. CASE Accepts
  <2>1. at = "loading" /\ Len(stored) < Len(file) /\ Puts(file[Len(stored) + 1])
        /\ InBuffer(Off(Len(stored) + 1))
    BY <1>6 DEF Accepts, T!Accept, HasRoom, Off
  <2>2. mem' \in [Ram -> Cell]
    BY <2>1, NextBlock, PutsType DEF TypeOK
  <2>3. /\ UNCHANGED <<at, buf, size, loadbuf, file, outcome>> /\ outcome = NULL
        /\ stored' = Append(stored, file[Len(stored) + 1])
    BY <1>6 DEF Accepts, mainVars, T!Accept
  <2>4. TypeOK'
    BY <2>2, <2>3 DEF TypeOK
  <2>5. StoredInv'
    <3>1. /\ file[Len(stored) + 1] \in Seq(FileCell) /\ Len(stored) \in Nat
          /\ file \in Files /\ Len(file) \in Nat /\ file # NULL
      BY <2>1, NextBlock, FileTypes
    <3>2. stored' \in Seq(Seq(FileCell)) /\ Len(stored') = Len(stored) + 1
      BY <2>3, <3>1 DEF StoredInv
    <3>3. \A n \in 1 .. Len(stored) + 1 : stored'[n] = file[n]
      <4>1. \A n \in 1 .. Len(stored) : stored[n] = file[n]
        BY <3>1 DEF StoredInv
      <4>2. \A n \in 1 .. Len(stored) + 1 :
              stored'[n] = IF n = Len(stored) + 1 THEN file[Len(stored) + 1] ELSE stored[n]
        BY <2>3, <3>1 DEF StoredInv
      <4> QED BY <3>1, <4>1, <4>2
    <3> QED BY <2>1, <2>3, <3>1, <3>2, <3>3 DEF StoredInv
  <2>6. SizeInv'
    BY <2>1, <2>3 DEF SizeInv
  <2> QED BY <2>4, <2>5, <2>6
<1>7. CASE Rejects
  <2>1. at = "loading" /\ Len(stored) < Len(file)
    BY <1>7 DEF Rejects
  <2>2. PICK i : Puts(ReplaceAt(file[Len(stored) + 1], i, Noise))
    BY <1>7 DEF Rejects
  <2>3. mem' \in [Ram -> Cell]
    <3>1. ReplaceAt(file[Len(stored) + 1], i, Noise) \in Seq(Cell)
      BY <2>1, NextBlock, SpoiltBlock
    <3> QED BY <2>2, <3>1, PutsType DEF TypeOK
  <2>4. UNCHANGED <<at, buf, size, loadbuf, file, stored, outcome>>
    BY <1>7 DEF Rejects, mainVars, transferVars
  <2> QED BY <2>3, <2>4 DEF TypeOK, StoredInv, SizeInv
<1>8. CASE Overruns
  <2>1. at = "loading" /\ Len(stored) < Len(file) /\ Puts(file[Len(stored) + 1])
    BY <1>8 DEF Overruns
  <2>2. mem' \in [Ram -> Cell]
    BY <2>1, NextBlock, PutsType DEF TypeOK
  <2>3. UNCHANGED <<buf, size, loadbuf, file, stored, outcome>> /\ at' = "overrun"
    BY <1>8 DEF Overruns, mainVars, transferVars
  <2> QED BY <2>2, <2>3 DEF TypeOK, StoredInv, SizeInv
<1>9. CASE received
  <2>1. /\ UNCHANGED <<file, stored, buf, loadbuf, mem>> /\ at' = "prompt"
        /\ outcome' \in {-1, Off(Len(stored))} /\ size' = outcome' /\ at = "loading"
    BY <1>9 DEF received, T!Succeed, T!Fail, Off
  <2>2. file \in Files /\ file # NULL /\ Len(stored) \in Nat /\ Len(stored) <= Len(file)
    BY <2>1 DEF TypeOK, StoredInv
  <2>3. Off(Len(stored)) \in -1 .. Cardinality(Buffer)
    <3>1. Off(Len(stored)) \in Nat
      BY <2>2, Offs
    <3>2. Off(Len(stored)) <= Cardinality(Buffer)
      BY <3>1, NoLongerThanBuffer DEF StoredInv
    <3> QED BY <3>1, <3>2, RamTypes
  <2>4. outcome' \in Int /\ NULL \notin Int
    BY <2>1, <2>3, BootAssumption
  <2>5. TypeOK'
    BY <1>0, <2>1, <2>2, <2>3, <2>4 DEF TypeOK
  <2>6. StoredInv'
    BY <2>1, <2>2 DEF StoredInv
  <2>7. SizeInv'
    BY <2>1, <2>4 DEF SizeInv
  <2> QED BY <2>5, <2>6, <2>7
<1>10. CASE Return
  <2>1. mem' \in [Ram -> Cell]
    BY <1>0, <1>10 DEF Return, TypeOK
  <2> QED BY <1>10, <2>1 DEF Return, mainVars, transferVars, TypeOK, StoredInv, SizeInv
<1>11. CASE UNCHANGED vars
  BY <1>11 DEF vars, mainVars, transferVars, TypeOK, StoredInv, SizeInv
<1> QED BY <1>1, <1>2, <1>3, <1>4, <1>5, <1>6, <1>7, <1>8, <1>9, <1>10, <1>11 DEF Next

(* The command loop keeps its variables in their ranges: loadbuf is null   *)
(* or the buffer, the memory holds cells, whatever elf_load() was given, a *)
(* spoilt or partial file included; and for files of any length, longer    *)
(* ones than the buffer included, a load that returns has brought no more  *)
(* than the buffer takes.                                                  *)
THEOREM BootTyping == Spec => []TypeOK
<1>1. TypeInv => TypeOK
  BY DEF TypeInv
<1> QED BY InitType, NextType, <1>1, PTL DEF Spec

(* In a load that runs out of room the file is longer than the buffer.     *)
LEMMA OverrunIsTooLong ==
  ASSUME TypeInv, Overruns
  PROVE  file # NULL /\ ~InBuffer(Len(file) * XMODEM_BLOCK_SIZE)
<1>1. at = "loading" /\ Len(stored) < Len(file) /\ ~InBuffer(Off(Len(stored) + 1))
  BY DEF Overruns, HasRoom, Off
<1>2. /\ file \in Files /\ Len(stored) \in Nat /\ Len(file) \in Nat /\ file # NULL
      /\ Len(stored) + 1 \in Nat /\ Len(stored) + 1 <= Len(file)
  BY <1>1, NextBlock, FileTypes
<1>3. /\ Off(Len(stored) + 1) <= Off(Len(file))
      /\ Off(Len(stored) + 1) \in Nat /\ Off(Len(file)) \in Nat
  BY <1>2, Offs
<1>4. 1 .. Off(Len(stored) + 1) \subseteq 1 .. Off(Len(file))
  BY <1>3
<1>5. ~InBuffer(Off(Len(file)))
  BY <1>1, <1>4 DEF InBuffer
<1> QED BY <1>2, <1>5 DEF Off

(* Every step keeps what has run over within the two cases. *)
LEMMA NextSafe ==
  ASSUME TypeInv, FittingInputIsSafe, [Next]_vars
  PROVE  FittingInputIsSafe'
<1>1. CASE gets
  <2>1. Lines \subseteq Seq(1 .. 255)
    BY BootAssumption
  <2>2. buf' \in Lines /\ at' = IF Len(buf') < BUF_SIZE THEN "command" ELSE "overrun"
    BY <1>1 DEF gets
  <2>3. Len(buf') \in Nat /\ BUF_SIZE \in Nat
    BY <2>1, <2>2 DEF BUF_SIZE
  <2>4. at' = "overrun" => Len(buf') >= BUF_SIZE
    BY <2>2, <2>3
  <2> QED BY <2>4 DEF FittingInputIsSafe
<1>2. CASE Overruns
  <2>1. UNCHANGED file
    BY <1>2 DEF Overruns, transferVars
  <2> QED BY <1>2, <2>1, OverrunIsTooLong DEF FittingInputIsSafe, InBuffer, Buffer
<1>3. CASE UNCHANGED vars
  BY <1>3 DEF vars, transferVars, FittingInputIsSafe, InBuffer, Buffer
<1>4. ASSUME Next, ~gets, ~Overruns PROVE at' # "overrun"
  <2>1. Accepts \/ Rejects => at' # "overrun"
    BY DEF Accepts, Rejects
  <2>2. Reset \/ load \/ dump \/ unknown \/ received \/ Return => at' # "overrun"
    BY DEF Reset, load, dump, unknown, received, Return
  <2>3. run => at' # "overrun"
    BY DEF run
  <2> QED BY <1>4, <2>1, <2>2, <2>3, Zenon DEF Next
<1>5. at' # "overrun" => FittingInputIsSafe'
  BY DEF FittingInputIsSafe
<1> QED BY <1>1, <1>2, <1>3, <1>4, <1>5

(* Neither gets() nor xmodem_recv() has a bound, and yet a session of      *)
(* lines of up to 15 characters and files that go into the buffer writes   *)
(* nothing over the loader's variables, in whatever order they come,       *)
(* however many blocks are sent again and however the transfers end.       *)
THEOREM FittingInputStaysIn == Spec => []FittingInputIsSafe
<1>1. Init => FittingInputIsSafe
  BY DEF Init, FittingInputIsSafe
<1>2. TypeInv /\ FittingInputIsSafe /\ [Next]_vars => FittingInputIsSafe'
  BY NextSafe
<1> QED BY InitType, NextType, <1>1, <1>2, PTL DEF Spec

-------------------------------------------------------------------------------
(***************************************************************************)
(* A file in the buffer, and one segment of it unpacked.                   *)
(***************************************************************************)

(* Blocks of one size behind each other.                                   *)
LEMMA FlattenLength ==
  ASSUME NEW S, NEW f \in Seq(Seq(S)), \A n \in 1 .. Len(f) : Len(f[n]) = XMODEM_BLOCK_SIZE
  PROVE  Len(FlattenSeq(f)) = Off(Len(f))
<1>1. PICK h : Flattens(h, S, f)
  BY FlattenUnfolds
<1> DEFINE T1 == {n \in Nat : n <= Len(f) => Len(h[n]) = Off(n)}
<1>2. 0 \in T1
  BY <1>1, Offs DEF Flattens
<1>3. ASSUME NEW n \in Nat, n \in T1 PROVE n + 1 \in T1
  <2> SUFFICES ASSUME n + 1 <= Len(f) PROVE Len(h[n + 1]) = Off(n + 1)
    OBVIOUS
  <2>1. n < Len(f) /\ n + 1 \in 1 .. Len(f) /\ Len(h[n]) = Off(n)
    BY <1>3
  <2>2. h[n + 1] = h[n] \o f[n + 1]
    BY <1>1, <2>1 DEF Flattens
  <2>3. h[n] \in Seq(S) /\ f[n + 1] \in Seq(S) /\ Len(f[n + 1]) = XMODEM_BLOCK_SIZE
    <3>1. h[n] \in Seq(S)
      BY <1>1, <1>3 DEF Flattens
    <3>2. f[n + 1] \in Seq(S) /\ Len(f[n + 1]) = XMODEM_BLOCK_SIZE
      BY <2>1
    <3> QED BY <3>1, <3>2
  <2>4. Len(h[n] \o f[n + 1]) = Len(h[n]) + Len(f[n + 1])
    <3>1. \A u, v \in Seq(S) : Len(u \o v) = Len(u) + Len(v)
      BY ConcatProperties, Zenon
    <3> QED BY <2>3, <3>1
  <2> QED BY <2>1, <2>2, <2>3, <2>4, Offs
<1>4. Nat \subseteq T1
  <2> HIDE DEF T1
  <2> QED BY <1>2, <1>3, SetInduction
<1>5. Len(f) \in T1 /\ Len(f) \in Nat
  BY <1>4
<1> QED BY <1>1, <1>5 DEF Flattens

(* The contents of a file are as long as its blocks are. *)
LEMMA ContentsTypes ==
  ASSUME NEW f \in Files
  PROVE  /\ Contents(f) \in Seq(FileCell) /\ Len(Contents(f)) = Off(Len(f))
         /\ Len(Contents(f)) \in Nat
<1>1. /\ f \in Seq(Seq(FileCell)) /\ Len(f) \in Nat
      /\ \A n \in 1 .. Len(f) : Len(f[n]) = XMODEM_BLOCK_SIZE
  BY FileTypes
<1>2. Len(FlattenSeq(f)) = Off(Len(f))
  BY <1>1, FlattenLength
<1>3. FlattenSeq(f) \in Seq(FileCell)
  BY <1>1, FlattenType
<1>4. Off(Len(f)) \in Nat
  BY <1>1, Offs
<1> QED BY <1>1, <1>2, <1>3, <1>4 DEF Contents

(* A file that fits goes into the buffer. *)
LEMMA InPlaces ==
  ASSUME NEW f \in Files, Fits(f)
  PROVE  \A n \in 1 .. Len(Contents(f)) : buffer_start + n - 1 \in Buffer
BY ContentsTypes DEF Fits, InBuffer, Off

(* The memory has the file in its buffer. *)
Has(m, f) == \A n \in 1 .. Len(Contents(f)) : m[buffer_start + n - 1] = Contents(f)[n]

(* What the loader reads at an offset is that cell of the file. *)
LEMMA Finds ==
  ASSUME NEW f \in Files, Fits(f), NEW m, Has(m, f),
         NEW k \in Int, k + 1 \in 1 .. Len(Contents(f))
  PROVE  /\ buffer_start + k \in Buffer /\ buffer_start + k \in Ram
         /\ m[buffer_start + k] = Contents(f)[k + 1]
         /\ At(m, buffer_start + k) = Contents(f)[k + 1]
<1>1. PICK n \in 1 .. Len(Contents(f)) : n = k + 1
  OBVIOUS
<1>2. buffer_start + n - 1 = buffer_start + k
  BY <1>1, RamTypes
<1>3. buffer_start + k \in Buffer /\ m[buffer_start + k] = Contents(f)[k + 1]
  BY <1>1, <1>2, InPlaces DEF Has
<1> QED BY <1>3, RamTypes DEF At

(* A file that fits, taken apart.                                          *)
LEMMA FitsParts ==
  ASSUME NEW f \in Files, Fits(f)
  PROVE  /\ Header(f) \in ElfHeader /\ Header(f).program_header_size = 1
         /\ 1 \in 1 .. Len(Contents(f))
         /\ \A i \in 1 .. Header(f).program_header_num :
              /\ Header(f).program_header_offset + i \in 1 .. Len(Contents(f))
              /\ Entry(f, i) \in ProgramHeader
         /\ \A i \in Segments(f) :
              LET ph == Entry(f, i)
              IN  /\ ph \in ProgramHeader /\ ph.physical_addr \in Int
                  /\ ph.offset \in Nat /\ ph.file_size \in Nat /\ ph.memory_size \in Nat
                  /\ ph.offset + ph.file_size <= Len(Contents(f))
                  /\ Extent(ph) \subseteq Ram \ Buffer
<1>1. WellFormed(f) /\ DOMAIN Image(f) \subseteq Ram \ Buffer
  BY DEF Fits
<1>2. Contents(f) \in Seq(FileCell) /\ DOMAIN Contents(f) = 1 .. Len(Contents(f))
  BY ContentsTypes
<1>3. 1 \in 1 .. Len(Contents(f))
  <2>1. Len(f) \in Nat /\ Len(f) # 0 /\ f \in Seq(Seq(FileCell))
    BY <1>1, FileTypes, EmptySeq DEF WellFormed
  <2>2. Off(1) <= Off(Len(f)) /\ Off(0 + 1) = 0 + XMODEM_BLOCK_SIZE
    BY <2>1, Offs
  <2>3. XMODEM_BLOCK_SIZE \in Nat \ {0} /\ 0 + 1 = 1
    BY BootAssumption
  <2>4. Off(Len(f)) \in Nat
    BY <2>1, Offs
  <2> QED BY <2>2, <2>3, <2>4, ContentsTypes
<1>4. \A i \in 1 .. Header(f).program_header_num :
        /\ Header(f).program_header_offset + i \in 1 .. Len(Contents(f))
        /\ Entry(f, i) \in ProgramHeader
  BY <1>1, <1>2 DEF WellFormed
<1>5. ASSUME NEW i \in Segments(f)
      PROVE  LET ph == Entry(f, i)
             IN  /\ ph \in ProgramHeader /\ ph.physical_addr \in Int
                 /\ ph.offset \in Nat /\ ph.file_size \in Nat /\ ph.memory_size \in Nat
                 /\ ph.offset + ph.file_size <= Len(Contents(f))
                 /\ Extent(ph) \subseteq Ram \ Buffer
  <2> DEFINE ph == Entry(f, i)
  <2>1. ph \in ProgramHeader
    BY <1>4 DEF Segments
  <2>2. ph.physical_addr \in Int
    BY <2>1 DEF ProgramHeader
  <2>3. /\ {ph.offset, ph.file_size, ph.memory_size} \subseteq Nat
        /\ ph.offset + ph.file_size <= Len(Contents(f))
    BY <1>1 DEF WellFormed
  <2>4. Extent(ph) \subseteq Ram \ Buffer
    <3>1. DOMAIN Image(f) = UNION {Extent(Entry(f, j)) : j \in Segments(f)}
      BY DEF Image
    <3> QED BY <1>1, <3>1
  <2> HIDE DEF ph
  <2>5. ph.offset \in Nat /\ ph.file_size \in Nat /\ ph.memory_size \in Nat
    BY <2>3
  <2>6. QED BY <2>1, <2>2, <2>3, <2>4, <2>5 DEF ph
<1>6. Header(f) \in ElfHeader /\ Header(f).program_header_size = 1
  BY <1>1 DEF WellFormed
<1> QED BY <1>3, <1>4, <1>5, <1>6

-------------------------------------------------------------------------------
(* A segment of a file that fits is unpacked as the file says.             *)
LEMMA SegmentUnpacked ==
  ASSUME NEW f \in Files, Fits(f), NEW m \in [Ram -> Cell], Has(m, f),
         NEW i \in Segments(f), NEW a \in Ram
  PROVE  Unpacked(m, buffer_start, Entry(f, i))[a]
           = IF a \in Extent(Entry(f, i)) THEN Content(f, i, a) ELSE m[a]
<1> DEFINE ph   == Entry(f, i)
           addr == ph.physical_addr
           fs   == ph.file_size
           ms   == ph.memory_size
           off  == ph.offset
           src  == buffer_start + off
<1>1. /\ addr \in Int /\ fs \in Nat /\ ms \in Nat /\ off \in Nat
      /\ off + fs <= Len(Contents(f)) /\ Extent(ph) \subseteq Ram \ Buffer
  BY FitsParts
<1>2. PICK top \in Nat : /\ top = Max({fs, ms}) /\ top >= fs /\ top >= ms
                         /\ top = fs \/ top = ms
  <2>1. \A p, q \in Nat : /\ Max({p, q}) \in Nat /\ Max({p, q}) >= p /\ Max({p, q}) >= q
                          /\ Max({p, q}) = p \/ Max({p, q}) = q
    <3> SUFFICES ASSUME NEW p \in Nat, NEW q \in Nat
                 PROVE  /\ Max({p, q}) \in Nat /\ Max({p, q}) >= p /\ Max({p, q}) >= q
                        /\ Max({p, q}) = p \/ Max({p, q}) = q
      OBVIOUS
    <3>1. CASE p >= q
      <4>1. Max({p, q}) = p
        BY <3>1 DEF Max
      <4> QED BY <3>1, <4>1
    <3>2. CASE ~(p >= q)
      <4>1. Max({p, q}) = q
        BY <3>2 DEF Max
      <4> QED BY <3>2, <4>1
    <3> QED BY <3>1, <3>2
  <2> HIDE DEF fs, ms
  <2> QED BY <1>1, <2>1
<1>3. Extent(ph) = addr .. addr + top - 1
  BY <1>2 DEF Extent
<1> HIDE DEF addr, fs, ms, off
<1>4. \A n \in Nat : n < fs => /\ src + n \in Buffer /\ src + n \in Ram
                               /\ m[src + n] = Contents(f)[off + n + 1]
  <2> SUFFICES ASSUME NEW n \in Nat, n < fs
               PROVE  /\ src + n \in Buffer /\ src + n \in Ram
                      /\ m[src + n] = Contents(f)[off + n + 1]
    OBVIOUS
  <2>1. PICK k \in Int : k = off + n /\ k + 1 \in 1 .. Len(Contents(f))
    BY <1>1, ContentsTypes
  <2>2. /\ buffer_start + k \in Buffer /\ buffer_start + k \in Ram
        /\ m[buffer_start + k] = Contents(f)[k + 1]
    BY <2>1, Finds
  <2>3. src + n = buffer_start + k /\ off + n + 1 = k + 1
    BY <1>1, <2>1, RamTypes
  <2> QED BY <2>2, <2>3
<1>5. src \in Int
  BY <1>1, RamTypes
<1>6. \A p, q \in Nat : p < fs /\ q < fs => src + p # addr + q
  <2> SUFFICES ASSUME NEW p \in Nat, NEW q \in Nat, p < fs, q < fs, src + p = addr + q PROVE FALSE
    OBVIOUS
  <2>1. addr + q \in addr .. addr + top - 1
    BY <1>1, <1>2
  <2>2. addr + q \in Buffer
    BY <1>4
  <2> QED BY <1>1, <1>3, <2>1, <2>2
<1> DEFINE k == memcpy(m, addr, src, fs, Outside)
<1>7. k = [c \in Ram |-> IF c \in addr .. addr + fs - 1
                         THEN Reads(m, src + (c - addr), Outside) ELSE m[c]]
  <2>1. Outside \in Cell
    BY DEF Cell
  <2>2. addr \in Int /\ fs \in Int
    BY <1>1
  <2> HIDE DEF src
  <2>3. Apart(addr, src, fs)
    BY <1>6 DEF Apart
  <2>4. memcpy(m, addr, src, fs, Outside) = Moved(Ram, m, addr, src, fs, Outside)
    BY <1>5, <2>1, <2>2, <2>3, CopiesApart
  <2> QED BY <2>4 DEF Moved
<1> HIDE DEF k, src
<1>8. Unpacked(m, buffer_start, ph)[a]
        = IF a \in addr + fs .. addr + fs + (ms - fs) - 1 THEN Zero ELSE k[a]
  <2>1. DOMAIN k = Ram
    BY <1>7
  <2>2. Unpacked(m, buffer_start, ph) = memset(k, addr + fs, Zero, ms - fs)
    BY DEF Unpacked, k, src, addr, fs, ms, off
  <2> QED BY <2>1, <2>2 DEF memset
<1>9. Content(f, i, a) = IF a - addr < fs THEN Contents(f)[off + (a - addr) + 1] ELSE Zero
  BY DEF Content, addr, fs, off
<1>10. a \in Int
  BY RamTypes
<1>11. CASE a \notin Extent(ph)
  <2>1. a \notin addr .. addr + fs - 1 /\ a \notin addr + fs .. addr + fs + (ms - fs) - 1
    BY <1>1, <1>2, <1>3, <1>10, <1>11
  <2>2. k[a] = m[a]
    BY <1>7, <2>1
  <2> QED BY <1>8, <1>11, <2>1, <2>2
<1>12. CASE a \in Extent(ph) /\ a - addr < fs
  <2>1. PICK n \in Nat : n = a - addr /\ n < fs
    BY <1>1, <1>3, <1>10, <1>12
  <2>2. a \in addr .. addr + fs - 1 /\ a \notin addr + fs .. addr + fs + (ms - fs) - 1
    BY <1>1, <1>3, <1>10, <1>12
  <2>3. k[a] = Reads(m, src + n, Outside)
    BY <1>7, <2>1, <2>2
  <2>4. Reads(m, src + n, Outside) = Contents(f)[off + n + 1]
    BY <1>4, <2>1 DEF Reads
  <2> QED BY <1>8, <1>9, <1>12, <2>1, <2>2, <2>3, <2>4
<1>13. CASE a \in Extent(ph) /\ ~(a - addr < fs)
  <2>1. a \in addr + fs .. addr + fs + (ms - fs) - 1
    BY <1>1, <1>2, <1>3, <1>10, <1>13
  <2> QED BY <1>8, <1>9, <1>13, <2>1
<1> QED BY <1>11, <1>12, <1>13

-------------------------------------------------------------------------------
(***************************************************************************)
(* The loop over the segments: after round n each address holds what the   *)
(* last of the first n segments that covers it says.                       *)
(***************************************************************************)

(* Two memories have the same buffer. *)
SameBuffer(k, m) == \A a \in Buffer : k[a] = m[a]

(* The file is there as long as the buffer does not change. *)
LEMMA StillHas ==
  ASSUME NEW f \in Files, Fits(f), NEW m, NEW k, Has(m, f), SameBuffer(k, m)
  PROVE  Has(k, f)
BY InPlaces DEF Has, SameBuffer

(* Segment j of the file, if it is one to be loaded, goes from k to m.     *)
Brings(m, k, f, j) ==
  \A a \in Ram : m[a] = IF j \in Segments(f) /\ a \in Extent(Entry(f, j))
                        THEN Content(f, j, a) ELSE k[a]

(* A round behind the last segment does nothing.                           *)
LEMMA NoRound ==
  ASSUME NEW f \in Files, Fits(f), NEW s \in LoaderState, Has(s.mem, f),
         NEW i \in Nat, i >= Header(f).program_header_num
  PROVE  LoadSegment(s, buffer_start, i) = s
<1>1. Header(f).kind = "ehdr" /\ 1 \in 1 .. Len(Contents(f))
  BY FitsParts, HeaderType
<1>2. 0 \in Int /\ 0 + 1 = 1 /\ buffer_start + 0 = buffer_start
  BY RamTypes
<1>3. At(s.mem, buffer_start) = Header(f)
  <2>1. At(s.mem, buffer_start + 0) = Contents(f)[0 + 1]
    BY <1>1, <1>2, Finds
  <2> QED BY <1>2, <2>1 DEF Header
<1> QED BY <1>1, <1>3, Zenon DEF LoadSegment

(* One round of the loop on a file that fits.                              *)
LEMMA OneRound ==
  ASSUME NEW f \in Files, Fits(f), NEW s \in LoaderState, s.wild = FALSE, Has(s.mem, f),
         NEW i \in Nat, i < Header(f).program_header_num
  PROVE  /\ LoadSegment(s, buffer_start, i).wild = FALSE
         /\ Brings(LoadSegment(s, buffer_start, i).mem, s.mem, f, i + 1)
<1> DEFINE t  == LoadSegment(s, buffer_start, i)
           h  == At(s.mem, buffer_start)
           ph == At(s.mem, buffer_start + h.program_header_offset + h.program_header_size * i)
<1>1. /\ Header(f) \in ElfHeader /\ Header(f).program_header_size = 1
      /\ 1 \in 1 .. Len(Contents(f))
      /\ Header(f).program_header_num \in Int /\ Header(f).program_header_offset \in Int
      /\ Header(f).kind = "ehdr"
  BY FitsParts, HeaderType
<1>2. PICK j \in Nat : j = i + 1 /\ j - 1 = i /\ j \in 1 .. Header(f).program_header_num
  BY <1>1
<1>3. Header(f).program_header_offset + j \in 1 .. Len(Contents(f)) /\ Entry(f, j) \in ProgramHeader
  BY <1>2, FitsParts
<1>4. h = Header(f)
  <2>1. 0 \in Int /\ 0 + 1 = 1 /\ buffer_start + 0 = buffer_start
    BY RamTypes
  <2>2. At(s.mem, buffer_start + 0) = Contents(f)[0 + 1]
    BY <1>1, <2>1, Finds
  <2> QED BY <2>1, <2>2 DEF Header
<1>5. ph = Entry(f, j)
  <2>1. PICK k \in Int : k = Header(f).program_header_offset + i
    BY <1>1
  <2>2. k + 1 = Header(f).program_header_offset + j
    BY <1>1, <1>2, <2>1
  <2>3. At(s.mem, buffer_start + k) = Contents(f)[k + 1]
    BY <1>3, <2>2, Finds
  <2>4. buffer_start + h.program_header_offset + h.program_header_size * i = buffer_start + k
    BY <1>1, <1>4, <2>1, RamTypes
  <2> HIDE DEF h
  <2> QED BY <2>2, <2>3, <2>4 DEF Entry
<1>6. ph.kind = "phdr" /\ ph # Zero /\ h # Zero /\ h.kind = "ehdr"
  <2>1. ph.kind = "phdr"
    <3> HIDE DEF ph
    <3> QED BY <1>3, <1>5 DEF ProgramHeader
  <2>2. Zero.kind = "zero"
    BY DEF Zero
  <2>3. h.kind = "ehdr"
    BY <1>1, <1>4
  <2> HIDE DEF h, ph
  <2> QED BY <2>1, <2>2, <2>3
<1>7. ~(i >= h.program_header_num)
  BY <1>1, <1>4
<1>8. t = IF ph.type # 1 THEN s ELSE [s EXCEPT !.mem = Unpacked(@, buffer_start, ph)]
  <2>1. t = IF s.wild \/ h = Zero \/ (h.kind = "ehdr" /\ i >= h.program_header_num)
            THEN s
            ELSE IF h.kind # "ehdr" \/ ph.kind \notin {"phdr", "zero"}
            THEN Wild(s)
            ELSE IF ph = Zero \/ ph.type # 1
            THEN s
            ELSE [s EXCEPT !.mem = Unpacked(@, buffer_start, ph)]
    BY Zenon DEF LoadSegment
  <2> HIDE DEF t, h, ph
  <2> QED BY <1>6, <1>7, <2>1
<1>9. j \in Segments(f) <=> ph.type = 1
  BY <1>2, <1>5 DEF Segments
<1> HIDE DEF t, h, ph
<1>10. CASE ph.type # 1
  <2>1. t = s
    BY <1>8, <1>10
  <2> QED BY <1>2, <1>9, <1>10, <2>1 DEF t, Brings
<1>11. CASE ph.type = 1
  <2>1. s.mem \in [Ram -> Cell] /\ s = [mem |-> s.mem, wild |-> s.wild]
    BY DEF LoaderState
  <2>2. t = [mem |-> Unpacked(s.mem, buffer_start, ph), wild |-> s.wild]
    BY <1>8, <1>11, <2>1
  <2>3. t.wild = FALSE /\ t.mem = Unpacked(s.mem, buffer_start, Entry(f, j))
    BY <1>5, <2>2
  <2>4. \A a \in Ram : Unpacked(s.mem, buffer_start, Entry(f, j))[a]
                         = IF a \in Extent(Entry(f, j)) THEN Content(f, j, a) ELSE s.mem[a]
    BY <1>9, <1>11, <2>1, SegmentUnpacked
  <2>5. \A a \in Ram : t.mem[a] = IF j \in Segments(f) /\ a \in Extent(Entry(f, j))
                                  THEN Content(f, j, a) ELSE s.mem[a]
    BY <1>9, <1>11, <2>3, <2>4
  <2> QED BY <1>2, <2>3, <2>5 DEF t, Brings
<1> QED BY <1>10, <1>11

(* The last of the first n segments that covers an address says what it holds. *)
InPlace(k, f, n) ==
  \A a \in Ram, j \in Segments(f) :
    /\ j <= n /\ a \in Extent(Entry(f, j))
    /\ \A i \in Segments(f) : j < i /\ i <= n => a \notin Extent(Entry(f, i))
    => k[a] = Content(f, j, a)

(* After any number of rounds on a file that fits, the buffer is as it was *)
(* and the segments up to there are in place.                              *)
LEMMA AllRounds ==
  ASSUME NEW f \in Files, Fits(f), NEW m \in [Ram -> Cell], Has(m, f),
         NEW l, Rounds(l, m, buffer_start), NEW n \in Nat
  PROVE  /\ l[n].wild = FALSE /\ SameBuffer(l[n].mem, m) /\ InPlace(l[n].mem, f, n)
<1> DEFINE num == Header(f).program_header_num
           Good(k) == l[k].wild = FALSE /\ SameBuffer(l[k].mem, m) /\ InPlace(l[k].mem, f, k)
           T1 == {k \in Nat : Good(k)}
<1>1. num \in Int /\ Segments(f) \subseteq 1 .. num
  BY FitsParts, HeaderType DEF Segments
<1>2. 0 \in T1
  <2>1. l[0].wild = FALSE /\ l[0].mem = m
    BY DEF Rounds
  <2>2. InPlace(l[0].mem, f, 0)
    <3>1. \A j \in Segments(f) : ~(j <= 0)
      BY <1>1
    <3> QED BY <3>1 DEF InPlace
  <2> QED BY <2>1, <2>2 DEF SameBuffer
<1>3. ASSUME NEW k \in Nat, k \in T1 PROVE k + 1 \in T1
  <2> SUFFICES Good(k + 1)
    BY <1>3
  <2>1. Good(k)
    BY <1>3
  <2>2. l[k] \in LoaderState /\ l[k + 1] = LoadSegment(l[k], buffer_start, k)
    BY <1>3 DEF Rounds
  <2>3. Has(l[k].mem, f)
    BY <2>1, StillHas
  <2>4. /\ l[k + 1].wild = FALSE
        /\ Brings(l[k + 1].mem, l[k].mem, f, k + 1)
    <3>1. CASE k < num
      BY <1>3, <2>1, <2>2, <2>3, <3>1, OneRound
    <3>2. CASE ~(k < num)
      <4>1. k >= num /\ k + 1 \notin Segments(f)
        BY <1>1, <1>3, <3>2
      <4>2. l[k + 1] = l[k]
        BY <1>3, <2>2, <2>3, <4>1, NoRound
      <4> QED BY <2>1, <4>1, <4>2 DEF Brings
    <3> QED BY <3>1, <3>2
  <2>5. SameBuffer(l[k + 1].mem, m)
    <3> SUFFICES ASSUME NEW a \in Buffer PROVE l[k + 1].mem[a] = m[a]
      BY DEF SameBuffer
    <3>1. ~(k + 1 \in Segments(f) /\ a \in Extent(Entry(f, k + 1)))
      BY FitsParts
    <3>2. l[k].mem[a] = m[a] /\ a \in Ram
      BY <2>1, RamTypes DEF SameBuffer
    <3> QED BY <2>4, <3>1, <3>2 DEF Brings
  <2>6. InPlace(l[k + 1].mem, f, k + 1)
    <3> SUFFICES ASSUME NEW a \in Ram, NEW j \in Segments(f), j <= k + 1, a \in Extent(Entry(f, j)),
                        \A i \in Segments(f) : j < i /\ i <= k + 1 => a \notin Extent(Entry(f, i))
                 PROVE  l[k + 1].mem[a] = Content(f, j, a)
      BY DEF InPlace
    <3>0. j \in Int /\ \A i \in Segments(f) : i \in Int
      BY <1>1
    <3>1. CASE j = k + 1
      BY <2>4, <3>1 DEF Brings
    <3>2. CASE j # k + 1
      <4>1. j <= k /\ j < k + 1 /\ \A i \in Segments(f) : i <= k => i <= k + 1
        BY <1>3, <3>0, <3>2
      <4>2. l[k].mem[a] = Content(f, j, a)
        BY <2>1, <4>1 DEF InPlace
      <4>3. ~(k + 1 \in Segments(f) /\ a \in Extent(Entry(f, k + 1)))
        BY <4>1
      <4> QED BY <2>4, <4>2, <4>3 DEF Brings
    <3> QED BY <3>1, <3>2
  <2> QED BY <2>4, <2>5, <2>6
<1>4. Nat \subseteq T1
  <2> HIDE DEF T1
  <2> QED BY <1>2, <1>3, SetInduction
<1>5. n \in T1
  <2> HIDE DEF T1
  <2> QED BY <1>4
<1> HIDE DEF Good
<1>6. Good(n)
  BY <1>5
<1> QED BY <1>6 DEF Good

(* The loader puts a whole file that fits in place, or refuses it, and     *)
(* does not touch the buffer.                                              *)
LEMMA LoadsWhole ==
  ASSUME NEW f \in Files, Fits(f), NEW m \in [Ram -> Cell], Has(m, f)
  PROVE  LET r == elf_load(m, buffer_start)
         IN  /\ r.wild = FALSE /\ SameBuffer(r.mem, m)
             /\ r.entry # 0 => /\ r.entry = Header(f).entry_point
                               /\ \A a \in DOMAIN Image(f) : r.mem[a] = Image(f)[a]
<1> DEFINE r == elf_load(m, buffer_start)
           s == elf_load_program(m, buffer_start)
           num == Header(f).program_header_num
<1>1. /\ Header(f) \in ElfHeader /\ num \in Int /\ Header(f).kind = "ehdr"
      /\ 1 \in 1 .. Len(Contents(f)) /\ Segments(f) \subseteq 1 .. num
  BY FitsParts, HeaderType DEF Segments
<1>2. \A k : Has(k, f) => At(k, buffer_start) = Header(f) /\ k[buffer_start] = Header(f)
  <2> SUFFICES ASSUME NEW k, Has(k, f)
               PROVE  At(k, buffer_start) = Header(f) /\ k[buffer_start] = Header(f)
    OBVIOUS
  <2>1. 0 \in Int /\ 0 + 1 = 1 /\ buffer_start + 0 = buffer_start
    BY RamTypes
  <2>2. At(k, buffer_start + 0) = Contents(f)[0 + 1] /\ k[buffer_start + 0] = Contents(f)[0 + 1]
    BY <1>1, <2>1, Finds
  <2> QED BY <2>1, <2>2 DEF Header
<1>3. CASE ~elf_check(At(m, buffer_start))
  <2>1. r = [mem |-> m, wild |-> FALSE, entry |-> 0]
    BY <1>3 DEF elf_load
  <2> QED BY <2>1 DEF SameBuffer
<1>4. CASE elf_check(At(m, buffer_start))
  <2>1. PICK l : Rounds(l, m, buffer_start)
    BY LoopUnfolds, RamTypes
  <2>2. PICK n \in Nat : n = Most(m) /\ num <= n
    BY <1>1, <1>2, MostSegments, RamTypes
  <2>3. s = l[n]
    BY <2>1, <2>2 DEF Rounds
  <2>4. s.wild = FALSE /\ SameBuffer(s.mem, m) /\ InPlace(s.mem, f, n)
    BY <2>1, <2>3, AllRounds
  <2>5. At(s.mem, buffer_start) = Header(f)
    BY <1>2, <2>4, StillHas
  <2>6. r = [mem   |-> s.mem,
             wild  |-> s.wild \/ At(s.mem, buffer_start).kind \notin {"ehdr", "zero"},
             entry |-> IF At(s.mem, buffer_start).kind = "ehdr"
                       THEN At(s.mem, buffer_start).entry_point ELSE 0]
    BY <1>4 DEF elf_load
  <2> HIDE DEF s
  <2>7. r = [mem |-> s.mem, wild |-> FALSE, entry |-> Header(f).entry_point]
    BY <1>1, <2>4, <2>5, <2>6
  <2>8. ASSUME NEW a \in DOMAIN Image(f) PROVE s.mem[a] = Image(f)[a]
    <3> DEFINE J == {i \in Segments(f) : a \in Extent(Entry(f, i))}
    <3>1. a \in UNION {Extent(Entry(f, i)) : i \in Segments(f)}
      BY <2>8 DEF Image
    <3>2. J # {} /\ J \in SUBSET (1 .. n) /\ J \in SUBSET Int /\ \A y \in J : y <= n
      <4>1. J # {}
        BY <3>1
      <4>2. 1 .. num \subseteq 1 .. n
        BY <1>1, <2>2
      <4>3. J \in SUBSET (1 .. n)
        BY <1>1, <4>2
      <4> HIDE DEF J
      <4> QED BY <4>1, <4>3
    <3>3. PICK j : j = Max(J) /\ j \in J /\ \A y \in J : j >= y
      <4> HIDE DEF J
      <4> QED BY <3>2, MaxExists
    <3>4. Image(f)[a] = Content(f, j, a)
      BY <3>1, <3>3 DEF Image
    <3>5. j \in Segments(f) /\ j \in Nat /\ j <= n /\ a \in Extent(Entry(f, j))
      BY <3>2, <3>3
    <3>6. \A i \in Segments(f) : j < i /\ i <= n => a \notin Extent(Entry(f, i))
      <4> SUFFICES ASSUME NEW i \in Segments(f), j < i, a \in Extent(Entry(f, i)) PROVE FALSE
        OBVIOUS
      <4>1. i \in J /\ i \in Int
        BY <1>1
      <4>2. j >= i
        <5> HIDE DEF J
        <5> QED BY <3>3, <4>1
      <4> QED BY <3>5, <4>1, <4>2
    <3>7. a \in Ram
      BY <3>5, FitsParts
    <3> QED BY <2>4, <3>4, <3>5, <3>6, <3>7 DEF InPlace
  <2> HIDE DEF r
  <2>9. r.wild = FALSE /\ r.mem = s.mem /\ r.entry = Header(f).entry_point
    BY <2>7
  <2> QED BY <2>4, <2>8, <2>9 DEF r
<1> QED BY <1>3, <1>4

-------------------------------------------------------------------------------
(***************************************************************************)
(* putxval(): the digits, read as a number, are the value.                 *)
(***************************************************************************)
LEMMA MinExists ==
  ASSUME NEW S \in SUBSET Nat, S # {}
  PROVE  Min(S) \in S
<1>1. PICK x \in S : \A y \in S : x <= y
  BY HasLeast
<1> QED BY <1>1 DEF Min

(* The loop of putxval() divides by 16 in every round. *)
LEMMA ShiftedUnfolds ==
  ASSUME NEW value \in Int
  PROVE  /\ Shifted(value) \in [Nat -> Nat]
         /\ Shifted(value)[0] = value % Power[XDIGITS]
         /\ \A n \in Nat : Shifted(value)[n + 1] = Shifted(value)[n] \div 16
<1> DEFINE v0 == value % Power[XDIGITS]
           step == [n \in Nat |-> [v \in Nat |-> v \div 16]]
           Rec(g) == g = [n \in Nat |-> IF n = 0 THEN v0 ELSE g[n - 1] \div 16]
<1>1. v0 \in Nat
  <2>1. Power[XDIGITS] \in Nat \ {0}
    BY Powers, LibAssumption
  <2> QED BY <2>1
<1>2. step \in [Nat -> [Nat -> Nat]]
  <2>1. \A v \in Nat : v \div 16 \in Nat
    OBVIOUS
  <2> QED BY <2>1
<1> HIDE DEF v0
<1>3. PICK g : IsUnfolded(g, Nat, v0, step)
  <2> HIDE DEF step
  <2> QED BY <1>1, <1>2, Unfolds
<1>4. Rec(g)
  <2>1. ASSUME NEW n \in Nat, n # 0 PROVE step[n - 1][g[n - 1]] = g[n - 1] \div 16
    <3>1. n - 1 \in Nat
      BY <2>1
    <3>2. g[n - 1] \in Nat
      BY <1>3, <3>1 DEF IsUnfolded
    <3> QED BY <3>1, <3>2
  <2> HIDE DEF step
  <2> QED BY <1>3, <2>1 DEF IsUnfolded
<1> DEFINE c == Shifted(value)
<1>5. c = CHOOSE h : Rec(h)
  BY DEF Shifted, v0
<1>6. Rec(c)
  <2> HIDE DEF Rec, c
  <2> QED BY <1>4, <1>5
<1> HIDE DEF c
<1>7. c[0] = v0 /\ \A n \in Nat : c[n + 1] = c[n] \div 16
  BY <1>6
<1>8. c = [n \in Nat |-> c[n]]
  BY <1>6
<1> DEFINE T1 == {n \in Nat : c[n] \in Nat}
<1>9. 0 \in T1 /\ \A n \in Nat : n \in T1 => n + 1 \in T1
  BY <1>1, <1>7
<1>10. Nat \subseteq T1
  <2> HIDE DEF T1
  <2> QED BY <1>9, SetInduction
<1>11. c \in [Nat -> Nat]
  BY <1>8, <1>10
<1> QED BY <1>7, <1>11 DEF c, v0

(* After as many rounds as a long has digits, nothing is left.             *)
LEMMA ShiftedOut ==
  ASSUME NEW value \in Int, NEW n \in Nat, n >= XDIGITS
  PROVE  Shifted(value)[n] = 0
<1> DEFINE left == Shifted(value)
<1>1. left \in [Nat -> Nat] /\ \A k \in Nat : left[k + 1] = left[k] \div 16
  BY ShiftedUnfolds
<1>2. XDIGITS \in Nat
  BY LibAssumption
<1>3. left[0] < Power[XDIGITS]
  <2>1. \A p \in Nat \ {0} : value % p < p
    OBVIOUS
  <2>2. Power[XDIGITS] \in Nat \ {0}
    BY Powers, LibAssumption
  <2>3. left[0] = value % Power[XDIGITS]
    BY ShiftedUnfolds
  <2> HIDE DEF left
  <2> QED BY <2>1, <2>2, <2>3
<1> HIDE DEF left
<1> DEFINE T1 == {k \in Nat : k <= XDIGITS => left[k] < Power[XDIGITS - k]}
<1>4. 0 \in T1
  <2>1. XDIGITS - 0 = XDIGITS
    BY <1>2
  <2> QED BY <1>3, <2>1
<1>5. ASSUME NEW k \in Nat, k \in T1 PROVE k + 1 \in T1
  <2> SUFFICES ASSUME k + 1 <= XDIGITS PROVE left[k + 1] < Power[XDIGITS - (k + 1)]
    BY <1>5
  <2>1. PICK j \in Nat : j = XDIGITS - (k + 1) /\ j + 1 = XDIGITS - k
    BY <1>2, <1>5
  <2>2. left[k] < Power[j + 1] /\ Power[j + 1] = 16 * Power[j] /\ Power[j] \in Nat
    BY <1>2, <1>5, <2>1, Powers
  <2>3. \A v, p \in Nat : v < 16 * p => v \div 16 < p
    OBVIOUS
  <2>4. left[k] \in Nat /\ left[k + 1] = left[k] \div 16
    BY <1>1, <1>5
  <2>5. left[k] \div 16 < Power[j]
    BY <2>2, <2>3, <2>4
  <2> QED BY <2>1, <2>4, <2>5
<1>6. Nat \subseteq T1
  <2> HIDE DEF T1
  <2> QED BY <1>4, <1>5, SetInduction
<1>7. left[XDIGITS] = 0
  <2>1. XDIGITS \in T1 /\ XDIGITS - XDIGITS = 0 /\ XDIGITS <= XDIGITS
    BY <1>2, <1>6
  <2>2. left[XDIGITS] < 1
    BY <2>1, Powers
  <2> QED BY <1>1, <1>2, <2>2
<1> DEFINE T2 == {k \in Nat : k >= XDIGITS => left[k] = 0}
<1>8. 0 \in T2
  BY <1>2, <1>7
<1>9. ASSUME NEW k \in Nat, k \in T2 PROVE k + 1 \in T2
  <2>1. CASE k + 1 = XDIGITS
    BY <1>7, <1>9, <2>1
  <2>2. CASE k >= XDIGITS
    <3>1. left[k] = 0 /\ left[k + 1] = left[k] \div 16 /\ 0 \div 16 = 0
      BY <1>1, <1>9, <2>2
    <3> QED BY <1>9, <3>1
  <2>3. CASE k + 1 < XDIGITS
    BY <1>2, <1>9, <2>3
  <2> QED BY <1>2, <1>9, <2>1, <2>2, <2>3
<1>10. Nat \subseteq T2
  <2> HIDE DEF T2
  <2> QED BY <1>8, <1>9, SetInduction
<1>11. left[n] = 0
  BY <1>10
<1> QED BY <1>11 DEF left

(* The digits, read as a number, are the value, and no more than fit:      *)
(* putxval() loses no digit of a long.                                     *)
LEMMA DigitsReadBack ==
  ASSUME NEW value \in Int
  PROVE  /\ ReadBack(putxval(value, 0)) = value % Power[XDIGITS]
         /\ Len(putxval(value, 0)) \in 1 .. XDIGITS
<1> DEFINE left == Shifted(value)
           top == Max({XDIGITS, 0})
           ends == {n \in 1 .. top : n >= 0 /\ left[n] = 0}
           r == Min(ends)
           digits == [i \in 1 .. r |-> left[r - i] % 16]
<1>1. /\ left \in [Nat -> Nat] /\ left[0] = value % Power[XDIGITS]
      /\ \A n \in Nat : left[n + 1] = left[n] \div 16
  BY ShiftedUnfolds
<1>2. XDIGITS \in Nat \ {0} /\ top = XDIGITS
  <2>1. XDIGITS \in Nat \ {0}
    BY LibAssumption
  <2>2. Max({XDIGITS, 0}) = XDIGITS
    BY <2>1 DEF Max
  <2> QED BY <2>1, <2>2
<1>3. r \in 1 .. XDIGITS /\ left[r] = 0
  <2>1. left[XDIGITS] = 0
    BY <1>2, ShiftedOut
  <2> HIDE DEF left, top
  <2>2. XDIGITS \in ends /\ ends \in SUBSET Nat
    BY <1>2, <2>1
  <2>3. r \in ends
    <3> HIDE DEF ends
    <3> QED BY <2>2, MinExists
  <2> HIDE DEF r
  <2> QED BY <1>2, <2>3
<1>4. putxval(value, 0) = digits
  BY DEF putxval
<1> HIDE DEF left, r, top, ends
<1>5. Len(digits) = r /\ \A i \in 1 .. r : digits[i] = left[r - i] % 16
  BY <1>2, <1>3
<1> HIDE DEF digits
<1> DEFINE Rec(g) == g = [k \in 0 .. Len(digits) |->
                            IF k = 0 THEN 0 ELSE 16 * g[k - 1] + digits[k]]
           g0 == [k \in 0 .. r |-> left[r - k]]
<1>6. Rec(g0)
  <2>1. r - 0 = r /\ r \in Nat
    BY <1>2, <1>3
  <2>2. ASSUME NEW k \in 0 .. r, k # 0 PROVE left[r - k] = 16 * g0[k - 1] + digits[k]
    <3>1. PICK j \in Nat : j = r - k /\ j + 1 = r - (k - 1) /\ k - 1 \in 0 .. r /\ k \in 1 .. r
      BY <2>1, <2>2
    <3>2. g0[k - 1] = left[j + 1] /\ digits[k] = left[j] % 16
      BY <1>5, <3>1
    <3>3. \A v \in Nat : v = 16 * (v \div 16) + (v % 16)
      OBVIOUS
    <3>4. left[j] \in Nat /\ left[j + 1] = left[j] \div 16
      BY <1>1, <3>1
    <3>5. left[j] = 16 * left[j + 1] + (left[j] % 16)
      BY <3>3, <3>4
    <3> HIDE DEF g0
    <3> QED BY <3>1, <3>2, <3>5
  <2>3. \A k \in 0 .. r : g0[k] = IF k = 0 THEN 0 ELSE 16 * g0[k - 1] + digits[k]
    <3> SUFFICES ASSUME NEW k \in 0 .. r
                 PROVE  g0[k] = IF k = 0 THEN 0 ELSE 16 * g0[k - 1] + digits[k]
      OBVIOUS
    <3>1. g0[k] = left[r - k]
      OBVIOUS
    <3>2. CASE k = 0
      BY <1>3, <2>1, <3>1, <3>2
    <3>3. CASE k # 0
      <4> HIDE DEF g0
      <4> QED BY <2>2, <3>1, <3>3
    <3> QED BY <3>2, <3>3
  <2>4. g0 = [k \in 0 .. r |-> g0[k]]
    OBVIOUS
  <2> HIDE DEF g0
  <2> QED BY <1>5, <2>3, <2>4
<1> DEFINE c == CHOOSE g : Rec(g)
<1>7. ReadBack(digits) = c[Len(digits)]
  BY DEF ReadBack
<1>8. Rec(c)
  <2> HIDE DEF Rec, g0
  <2> QED BY <1>6
<1> HIDE DEF c, g0
<1> DEFINE T1 == {k \in Nat : k <= r => c[k] = g0[k]}
<1>9. 0 \in T1
  BY <1>3, <1>5, <1>6, <1>8
<1>10. ASSUME NEW k \in Nat, k \in T1 PROVE k + 1 \in T1
  <2> SUFFICES ASSUME k + 1 <= r PROVE c[k + 1] = g0[k + 1]
    BY <1>10
  <2>1. PICK i \in 0 .. r : i = k + 1 /\ i - 1 = k /\ i # 0
    BY <1>3, <1>10
  <2>2. c[i] = 16 * c[i - 1] + digits[i] /\ g0[i] = 16 * g0[i - 1] + digits[i]
    BY <1>5, <1>6, <1>8, <2>1
  <2>3. c[i - 1] = g0[i - 1]
    BY <1>3, <1>10, <2>1
  <2> QED BY <2>1, <2>2, <2>3
<1>11. Nat \subseteq T1
  <2> HIDE DEF T1
  <2> QED BY <1>9, <1>10, SetInduction
<1>12. c[r] = g0[r]
  <2>1. r \in T1 /\ r <= r
    BY <1>3, <1>11
  <2> QED BY <2>1
<1>13. g0[r] = left[0]
  <2>1. r \in 0 .. r /\ r - r = 0
    BY <1>3
  <2> QED BY <2>1 DEF g0
<1> QED BY <1>1, <1>2, <1>3, <1>4, <1>5, <1>7, <1>12, <1>13

-------------------------------------------------------------------------------
(***************************************************************************)
(* The inductive invariant: while a file comes, and after one that fits    *)
(* has come whole, the buffer holds the blocks that were accepted.         *)
(***************************************************************************)
Accepted == FlattenSeq(stored)

(* The buffer holds the blocks that were accepted. *)
Holding == \A n \in 1 .. Len(Accepted) : mem[buffer_start + n - 1] = Accepted[n]

(* It does while a file comes, and after one that fits has come whole. *)
KeptInv == at = "loading" \/ LoadedWhole => Holding

(* The inductive invariant. *)
WholeInv == TypeInv /\ KeptInv /\ StartedIsWhole

(* The accepted blocks are cells that lie in the buffer. *)
LEMMA AcceptedTypes ==
  ASSUME TypeInv, file # NULL
  PROVE  /\ Accepted \in Seq(FileCell) /\ Len(Accepted) = Off(Len(stored))
         /\ Len(stored) \in Nat /\ Off(Len(stored)) \in Nat
         /\ \A n \in 1 .. Off(Len(stored)) : buffer_start + n - 1 \in Buffer
<1>1. /\ file \in Files /\ stored \in Seq(Seq(FileCell)) /\ Len(stored) \in Nat
      /\ Len(stored) <= Len(file) /\ \A n \in 1 .. Len(stored) : stored[n] = file[n]
  BY DEF TypeInv, TypeOK, StoredInv
<1>2. Len(file) \in Nat /\ \A n \in 1 .. Len(file) : Len(file[n]) = XMODEM_BLOCK_SIZE
  BY <1>1, FileTypes
<1>3. \A n \in 1 .. Len(stored) : Len(stored[n]) = XMODEM_BLOCK_SIZE
  BY <1>1, <1>2
<1>4. Accepted \in Seq(FileCell) /\ Len(Accepted) = Off(Len(stored))
  BY <1>1, <1>3, FlattenType, FlattenLength DEF Accepted
<1>5. Off(Len(stored)) \in Nat
  BY <1>1, Offs
<1>6. \A n \in 1 .. Off(Len(stored)) : buffer_start + n - 1 \in Buffer
  BY DEF TypeInv, StoredInv, InBuffer
<1> QED BY <1>1, <1>4, <1>5, <1>6

(* A block goes behind what was accepted and does not touch it.            *)
LEMMA PutsBehind ==
  ASSUME TypeInv, at = "loading", Len(stored) < Len(file), HasRoom, Holding,
         NEW block \in Seq(Cell), Len(block) = XMODEM_BLOCK_SIZE, Puts(block)
  PROVE  /\ \A n \in 1 .. Off(Len(stored)) : mem'[buffer_start + n - 1] = Accepted[n]
         /\ \A j \in 1 .. XMODEM_BLOCK_SIZE :
              mem'[buffer_start + (Off(Len(stored)) + j) - 1] = block[j]
<1> DEFINE off == Off(Len(stored))
<1>1. /\ file \in Files /\ file # NULL /\ loadbuf = buffer_start /\ Len(stored) \in Nat
      /\ Len(file) \in Nat
  BY FileTypes DEF TypeInv, TypeOK, StoredInv
<1>2. /\ off \in Nat /\ Len(Accepted) = off
      /\ \A n \in 1 .. off : buffer_start + n - 1 \in Buffer
  BY <1>1, AcceptedTypes
<1>3. /\ buffer_start \in Nat /\ Buffer \subseteq Ram /\ XMODEM_BLOCK_SIZE \in Nat
      /\ DOMAIN block = 1 .. XMODEM_BLOCK_SIZE
  BY RamTypes, BootAssumption
<1>4. Off(Len(stored) + 1) = off + XMODEM_BLOCK_SIZE
  BY <1>1, Offs
<1>5. \A n \in 1 .. off + XMODEM_BLOCK_SIZE : buffer_start + n - 1 \in Buffer
  BY <1>4 DEF HasRoom, InBuffer, Off
<1> HIDE DEF off
<1>6. mem' = [a \in Ram |-> IF a - (buffer_start + off) + 1 \in 1 .. XMODEM_BLOCK_SIZE
                           THEN block[a - (buffer_start + off) + 1] ELSE mem[a]]
  BY <1>1, <1>3 DEF Puts, off, Off
<1>7. ASSUME NEW n \in 1 .. off PROVE mem'[buffer_start + n - 1] = Accepted[n]
  <2>1. PICK a \in Ram : a = buffer_start + n - 1
    BY <1>2, <1>3
  <2>2. a - (buffer_start + off) + 1 \notin 1 .. XMODEM_BLOCK_SIZE
    BY <1>2, <1>3, <2>1
  <2>3. mem'[a] = mem[a]
    BY <1>6, <2>2
  <2>4. mem[a] = Accepted[n]
    BY <1>2, <2>1 DEF Holding
  <2> QED BY <2>1, <2>3, <2>4
<1>8. ASSUME NEW j \in 1 .. XMODEM_BLOCK_SIZE
      PROVE  mem'[buffer_start + (off + j) - 1] = block[j]
  <2>1. PICK n \in 1 .. off + XMODEM_BLOCK_SIZE : n = off + j
    BY <1>2, <1>3
  <2>2. PICK a \in Ram : a = buffer_start + n - 1
    BY <1>3, <1>5
  <2>3. a - (buffer_start + off) + 1 = j
    BY <1>2, <1>3, <2>1, <2>2
  <2>4. mem'[a] = block[j]
    BY <1>6, <2>3
  <2> QED BY <2>1, <2>2, <2>4
<1> QED BY <1>7, <1>8 DEF off

(* An accepted block goes behind the others. *)
LEMMA AcceptHolds ==
  ASSUME TypeInv, Holding, Accepts PROVE Holding'
<1> DEFINE block == file[Len(stored) + 1]
           off == Off(Len(stored))
<1>1. /\ at = "loading" /\ HasRoom /\ Len(stored) < Len(file) /\ Puts(block)
      /\ stored' = Append(stored, block)
  BY DEF Accepts, T!Accept
<1>2. /\ block \in Seq(FileCell) /\ block \in Seq(Cell) /\ Len(block) = XMODEM_BLOCK_SIZE
      /\ file # NULL /\ stored \in Seq(Seq(FileCell))
  BY <1>1, NextBlock, FileTypes DEF TypeInv, StoredInv
<1>3. Accepted \in Seq(FileCell) /\ Len(Accepted) = off /\ off \in Nat
  BY <1>2, AcceptedTypes
<1> HIDE DEF block
<1>4. Accepted' = Accepted \o block
  BY <1>1, <1>2, FlattenMore DEF Accepted
<1>5. /\ \A n \in 1 .. off : mem'[buffer_start + n - 1] = Accepted[n]
      /\ \A j \in 1 .. XMODEM_BLOCK_SIZE : mem'[buffer_start + (off + j) - 1] = block[j]
  BY <1>1, <1>2, PutsBehind
<1> HIDE DEF off
<1>6. /\ Len(Accepted \o block) = off + XMODEM_BLOCK_SIZE
      /\ \A n \in 1 .. off + XMODEM_BLOCK_SIZE :
           (Accepted \o block)[n] = IF n <= off THEN Accepted[n] ELSE block[n - off]
  <2>1. \A u, v \in Seq(FileCell) :
          /\ Len(u \o v) = Len(u) + Len(v)
          /\ \A n \in 1 .. Len(u) + Len(v) :
               (u \o v)[n] = IF n <= Len(u) THEN u[n] ELSE v[n - Len(u)]
    BY ConcatProperties, Zenon
  <2> QED BY <1>2, <1>3, <2>1, Zenon
<1>7. ASSUME NEW n \in 1 .. off + XMODEM_BLOCK_SIZE
      PROVE  mem'[buffer_start + n - 1] = (Accepted \o block)[n]
  <2>0. XMODEM_BLOCK_SIZE \in Nat
    BY BootAssumption
  <2>1. CASE n <= off
    <3>1. n \in 1 .. off
      BY <1>3, <2>0, <2>1
    <3> QED BY <1>5, <1>6, <2>1, <3>1
  <2>2. CASE ~(n <= off)
    <3>1. PICK j \in 1 .. XMODEM_BLOCK_SIZE : j = n - off /\ n = off + j
      <4>1. n - off \in 1 .. XMODEM_BLOCK_SIZE /\ n = off + (n - off)
        BY <1>3, <2>0, <2>2
      <4> QED BY <4>1
    <3>2. mem'[buffer_start + (off + j) - 1] = block[j]
      BY <1>5
    <3> QED BY <1>6, <2>2, <3>1, <3>2
  <2> QED BY <2>1, <2>2
<1>8. buffer_start' = buffer_start
  OBVIOUS
<1> QED BY <1>4, <1>6, <1>7, <1>8 DEF Holding

(* A block in error goes behind them, too, where the next one will be      *)
(* written over it.                                                        *)
LEMMA RejectHolds ==
  ASSUME TypeInv, Holding, Rejects PROVE Holding'
<1>1. at = "loading" /\ HasRoom /\ Len(stored) < Len(file) /\ UNCHANGED stored
  BY DEF Rejects, transferVars
<1>2. PICK i : Puts(ReplaceAt(file[Len(stored) + 1], i, Noise))
  BY DEF Rejects
<1>3. /\ ReplaceAt(file[Len(stored) + 1], i, Noise) \in Seq(Cell)
      /\ Len(ReplaceAt(file[Len(stored) + 1], i, Noise)) = XMODEM_BLOCK_SIZE /\ file # NULL
  BY <1>1, NextBlock, SpoiltBlock, FileTypes
<1>4. \A n \in 1 .. Off(Len(stored)) : mem'[buffer_start + n - 1] = Accepted[n]
  BY <1>1, <1>2, <1>3, PutsBehind
<1>5. Accepted' = Accepted /\ Len(Accepted) = Off(Len(stored))
  BY <1>1, <1>3, AcceptedTypes DEF Accepted
<1> QED BY <1>4, <1>5 DEF Holding

(* What the buffer holds stays while nothing writes to it.                 *)
LEMMA BufferStays ==
  ASSUME TypeInv, file # NULL, Holding, UNCHANGED stored, SameBuffer(mem', mem)
  PROVE  Holding'
<1>1. Accepted' = Accepted
  BY DEF Accepted
<1>2. \A n \in 1 .. Len(Accepted) : buffer_start + n - 1 \in Buffer
  BY AcceptedTypes
<1> QED BY <1>1, <1>2 DEF Holding, SameBuffer

(* run, after a whole file that fits was loaded, starts its entry point    *)
(* with every segment in place.                                            *)
LEMMA RunStartsWhole ==
  ASSUME TypeInv, KeptInv, run, LoadedWhole
  PROVE  /\ SameBuffer(mem', mem) /\ at' # "wild"
         /\ at' = "started" =>
              /\ \A a \in DOMAIN Image(file) : mem'[a] = Image(file)[a]
              /\ ReadBack(output'.number) = Header(file).entry_point
<1> DEFINE r == elf_load(mem, buffer_start)
<1>1. file \in Files /\ file # NULL /\ Fits(file) /\ stored = file /\ Holding
  BY DEF LoadedWhole, TypeInv, TypeOK, StoredInv, KeptInv
<1>2. loadbuf = buffer_start /\ mem \in [Ram -> Cell]
  BY <1>1 DEF TypeInv, TypeOK
<1>3. Has(mem, file)
  BY <1>1 DEF Holding, Has, Accepted, Contents
<1>4. /\ r.wild = FALSE /\ SameBuffer(r.mem, mem)
      /\ r.entry # 0 => /\ r.entry = Header(file).entry_point
                        /\ \A a \in DOMAIN Image(file) : r.mem[a] = Image(file)[a]
  BY <1>1, <1>2, <1>3, LoadsWhole
<1>5. At(mem, loadbuf) # Noise
  <2>1. 0 \in Int /\ 0 + 1 = 1 /\ buffer_start + 0 = buffer_start
    BY RamTypes
  <2>2. At(mem, buffer_start + 0) = Contents(file)[0 + 1]
    BY <1>1, <1>3, <2>1, FitsParts, Finds
  <2>3. Header(file).kind = "ehdr" /\ Noise.kind = "noise"
    BY <1>1, FitsParts, HeaderType DEF Noise
  <2> QED BY <1>2, <2>1, <2>2, <2>3 DEF Header
<1>6. r.entry \in Long
  BY <1>2, LoadType, RamTypes
<1> HIDE DEF r
<1>7. \/ mem' = r.mem /\ at' = "prompt"
      \/ /\ mem' = r.mem /\ at' = "started" /\ r.entry # 0
         /\ output' = Printed("starting", putxval(r.entry, 0), <<>>)
  <2>1. \/ r.wild \/ At(mem, loadbuf) = Noise
        \/ mem' = r.mem /\ at' = "prompt"
        \/ /\ mem' = r.mem /\ at' = "started" /\ r.entry # 0
           /\ output' = Printed("starting", putxval(r.entry, 0), <<>>)
    BY <1>2, Zenon DEF run, r
  <2> QED BY <1>4, <1>5, <2>1
<1>8. SameBuffer(mem', mem) /\ at' # "wild"
  BY <1>4, <1>7
<1>9. ASSUME at' = "started"
      PROVE  /\ \A a \in DOMAIN Image(file) : mem'[a] = Image(file)[a]
             /\ ReadBack(output'.number) = Header(file).entry_point
  <2>1. /\ mem' = r.mem /\ r.entry # 0 /\ output'.number = putxval(r.entry, 0)
    BY <1>7, <1>9 DEF Printed
  <2>2. r.entry \in Int /\ r.entry % Power[XDIGITS] = r.entry
    <3>1. Power[XDIGITS] \in Nat \ {0} /\ r.entry \in 0 .. Power[XDIGITS] - 1
      BY <1>6, Powers, LibAssumption DEF Long
    <3>2. \A p \in Nat \ {0}, e \in Int : e \in 0 .. p - 1 => e % p = e
      OBVIOUS
    <3> QED BY <3>1, <3>2
  <2>3. ReadBack(putxval(r.entry, 0)) = r.entry
    BY <2>2, DigitsReadBack
  <2> QED BY <1>4, <2>1, <2>3
<1> QED BY <1>8, <1>9

(* At the start nothing has been loaded. *)
LEMMA InitWhole == Init => WholeInv
<1>1. Init => KeptInv /\ StartedIsWhole
  BY DEF Init, KeptInv, LoadedWhole, StartedIsWhole
<1> QED BY <1>1, InitType DEF WholeInv

(* Every step keeps the inductive invariant. *)
LEMMA NextWhole == WholeInv /\ [Next]_vars => WholeInv'
<1> SUFFICES ASSUME WholeInv, [Next]_vars PROVE KeptInv' /\ StartedIsWhole'
  BY NextType DEF WholeInv
<1>0. TypeInv /\ KeptInv /\ StartedIsWhole
  BY DEF WholeInv
<1>a. ASSUME UNCHANGED transferVars PROVE LoadedWhole' <=> LoadedWhole
  BY <1>a DEF transferVars, LoadedWhole
<1>b. LoadedWhole => file # NULL
  BY <1>0 DEF LoadedWhole, TypeInv, StoredInv
<1>c. UNCHANGED mem => SameBuffer(mem', mem)
  BY DEF SameBuffer
<1>1. CASE Reset
  <2>1. ~LoadedWhole' /\ at' # "loading"
    BY <1>1 DEF Reset, LoadedWhole
  <2> QED BY <2>1 DEF KeptInv, StartedIsWhole
<1>2. CASE load
  <2>1. ~LoadedWhole' /\ stored' = <<>>
    BY <1>2 DEF load, LoadedWhole
  <2>2. Accepted' = <<>>
    BY <2>1, FlattenNone DEF Accepted
  <2>3. Holding'
    <3>1. 1 .. Len(<<>>) = {}
      OBVIOUS
    <3> QED BY <2>2, <3>1 DEF Holding
  <2> QED BY <2>1, <2>3 DEF KeptInv, StartedIsWhole
<1>3. CASE gets \/ dump \/ unknown
  <2>1. /\ UNCHANGED <<mem, stored>> /\ UNCHANGED transferVars
        /\ at' \notin {"loading", "started", "wild"}
    BY <1>3 DEF gets, dump, unknown, transferVars
  <2>2. LoadedWhole => Holding'
    BY <1>0, <1>b, <1>c, <2>1, BufferStays DEF KeptInv
  <2> QED BY <1>a, <2>1, <2>2 DEF KeptInv, StartedIsWhole
<1>4. CASE run
  <2>1. UNCHANGED <<stored, file>> /\ UNCHANGED transferVars /\ at' # "loading"
    BY <1>4 DEF run, transferVars
  <2>2. LoadedWhole' => LoadedWhole
    BY <1>a, <2>1
  <2>3. LoadedWhole => Holding'
    BY <1>0, <1>4, <1>b, <2>1, RunStartsWhole, BufferStays DEF KeptInv
  <2>4. LoadedWhole =>
          /\ at' # "wild"
          /\ at' = "started" =>
               /\ \A a \in DOMAIN Image(file) : mem'[a] = Image(file)[a]
               /\ ReadBack(output'.number) = Header(file).entry_point
    BY <1>0, <1>4, RunStartsWhole
  <2>5. StartedIsWhole'
    BY <2>1, <2>2, <2>4 DEF StartedIsWhole
  <2> QED BY <2>1, <2>2, <2>3, <2>5 DEF KeptInv
<1>5. CASE Accepts
  <2>1. at = "loading" /\ at' = "loading" /\ outcome' = NULL
    BY <1>5 DEF Accepts, T!Accept
  <2>2. Holding'
    BY <1>0, <1>5, <2>1, AcceptHolds DEF KeptInv
  <2> QED BY <2>1, <2>2 DEF KeptInv, StartedIsWhole, LoadedWhole
<1>6. CASE Rejects
  <2>1. at = "loading" /\ at' = "loading"
    BY <1>6 DEF Rejects
  <2>2. Holding'
    BY <1>0, <1>6, <2>1, RejectHolds DEF KeptInv
  <2> QED BY <2>1, <2>2 DEF KeptInv, StartedIsWhole
<1>7. CASE Overruns
  <2>1. at' = "overrun" /\ outcome' = NULL
    BY <1>0, <1>7 DEF Overruns, transferVars, TypeInv, SizeInv
  <2> QED BY <2>1 DEF KeptInv, StartedIsWhole, LoadedWhole
<1>8. CASE received
  <2>1. at = "loading" /\ at' = "prompt" /\ UNCHANGED <<mem, stored>>
    BY <1>8 DEF received, T!Succeed, T!Fail
  <2>2. Holding'
    BY <1>0, <2>1 DEF KeptInv, Holding, Accepted
  <2> QED BY <2>1, <2>2 DEF KeptInv, StartedIsWhole
<1>9. CASE Return
  <2>1. UNCHANGED stored /\ UNCHANGED transferVars /\ at' = "prompt"
    BY <1>9 DEF Return, transferVars
  <2>2. SameBuffer(mem', mem)
    BY <1>9, RamTypes DEF Return, SameBuffer
  <2>3. LoadedWhole => Holding'
    BY <1>0, <1>b, <2>1, <2>2, BufferStays DEF KeptInv
  <2> QED BY <1>a, <2>1, <2>3 DEF KeptInv, StartedIsWhole
<1>10. CASE UNCHANGED vars
  <2>1. UNCHANGED <<at, mem, output, file, stored, outcome>> /\ UNCHANGED transferVars
    BY <1>10 DEF vars, transferVars
  <2> QED BY <1>0, <1>a, <2>1 DEF KeptInv, StartedIsWhole, Holding, Accepted
<1> QED BY <1>1, <1>2, <1>3, <1>4, <1>5, <1>6, <1>7, <1>8, <1>9, <1>10 DEF Next

(* So it always holds. *)
LEMMA Wholes == Spec => []WholeInv
BY InitWhole, NextWhole, PTL DEF Spec

(* For every file that fits, every memory and every sequence of commands,  *)
(* failed loads, runs and resets: when the last load brought the whole     *)
(* file, run never goes wild and starts the program at its entry point     *)
(* with every segment in place and the rest of it cleared.                 *)
THEOREM ProgramsStartWhole == Spec => []StartedIsWhole
<1>1. WholeInv => StartedIsWhole
  BY DEF WholeInv
<1> QED BY Wholes, <1>1, PTL

-------------------------------------------------------------------------------
(* When no transfer can end before the file does, a good one has brought   *)
(* all of it; and a dump is still on the line only until the next load.    *)
DumpInv ==
  /\ outcome \notin {NULL, -1} => stored = file
  /\ output.text \in {"dump", "no data."} => at # "loading"
  /\ DumpIsTheLoad

(* dump prints the size and the blocks of the last load. *)
LEMMA DumpsLoad ==
  ASSUME TypeInv, KeptInv, DumpInv, dump PROVE DumpIsTheLoad'
<1> DEFINE loaded == IF outcome = NULL THEN -1 ELSE outcome
<1>1. at = "command" /\ UNCHANGED <<size, loadbuf, mem, file, stored, outcome>>
  BY DEF dump, mainVars, transferVars
<1>2. size = loaded /\ size \in Int /\ NULL \notin Int
  <2>1. size = loaded
    BY <1>1 DEF TypeInv, SizeInv
  <2> QED BY <2>1, RamTypes, BootAssumption DEF TypeInv, TypeOK
<1> HIDE DEF loaded
<1>3. output'.number = putxval(size, 0)
      /\ output'.bytes = IF size < 0 THEN <<>> ELSE Dumped
  BY DEF dump, Printed
<1>4. /\ ReadBack(output'.number) = loaded % Power[XDIGITS]
      /\ Len(output'.number) \in 1 .. XDIGITS
  BY <1>2, <1>3, DigitsReadBack
<1>5. ASSUME file = NULL \/ Fits(file), ~(size < 0) PROVE Dumped = FlattenSeq(stored)
  <2>1. outcome = size /\ outcome \notin {NULL, -1}
    BY <1>2, <1>5 DEF loaded
  <2>2. file # NULL /\ stored = file /\ size = Off(Len(stored))
    BY <2>1 DEF DumpInv, TypeInv, StoredInv, SizeInv
  <2>3. Holding /\ loadbuf = buffer_start
    BY <1>5, <2>1, <2>2 DEF KeptInv, LoadedWhole, TypeInv, TypeOK
  <2>4. /\ Accepted \in Seq(FileCell) /\ Len(Accepted) = size /\ size \in Nat
        /\ \A n \in 1 .. size : buffer_start + n - 1 \in Buffer
    BY <2>2, AcceptedTypes
  <2>5. Dumped = [i \in 1 .. size |-> Accepted[i]]
    <3>1. ASSUME NEW i \in 1 .. size PROVE At(mem, loadbuf + i - 1) = Accepted[i]
      BY <2>3, <2>4, RamTypes DEF At, Holding
    <3> QED BY <3>1 DEF Dumped
  <2>6. Accepted = [i \in 1 .. size |-> Accepted[i]]
    <3> HIDE DEF Accepted
    <3> QED BY <2>4
  <2> QED BY <2>5, <2>6 DEF Accepted
<1>6. loaded' = loaded
  BY <1>1 DEF loaded
<1>7. ASSUME file = NULL \/ Fits(file)
      PROVE  output'.bytes = IF loaded < 0 THEN <<>> ELSE FlattenSeq(stored)
  BY <1>2, <1>3, <1>5, <1>7
<1> QED BY <1>1, <1>4, <1>6, <1>7 DEF DumpIsTheLoad, loaded

(* Nothing else prints what looks like a dump. *)
LEMMA OtherTexts ==
  /\ Says("").text \notin {"dump", "no data."}
  /\ Says("started.").text \notin {"dump", "no data."}
  /\ Says("run error!").text \notin {"dump", "no data."}
  /\ \A e : Printed("starting", e, <<>>).text \notin {"dump", "no data."}
BY DEF Says, Printed

(* Every step keeps what the last dump says true. *)
LEMMA NextDump ==
  ASSUME ~MayEndEarly, WholeInv, DumpInv, [Next]_vars
  PROVE  DumpInv'
<1>0. TypeInv /\ KeptInv /\ DumpIsTheLoad
  BY DEF WholeInv, DumpInv
<1>1. CASE dump
  <2>1. at' = "prompt" /\ UNCHANGED <<file, stored, outcome>>
    BY <1>1 DEF dump, transferVars
  <2> QED BY <1>0, <1>1, <2>1, DumpsLoad DEF DumpInv
<1>2. CASE Reset \/ load
  <2>1. outcome' = NULL /\ (output' = Says("started.") \/ output' = Says(""))
    BY <1>2 DEF Reset, load
  <2>2. output'.text \notin {"dump", "no data."}
    BY <2>1, OtherTexts
  <2> QED BY <2>1, <2>2 DEF DumpInv, DumpIsTheLoad
<1>3. CASE unknown
  <2>1. output'.text \notin {"dump", "no data."} /\ UNCHANGED <<file, stored, outcome>>
    BY <1>3 DEF unknown, transferVars, Says, Printed
  <2> QED BY <2>1 DEF DumpInv, DumpIsTheLoad
<1>4. CASE gets \/ Return \/ UNCHANGED vars
  <2>1. UNCHANGED <<file, stored, outcome, output>> /\ (at' = "loading" => at = "loading")
    BY <1>4 DEF gets, Return, vars, transferVars
  <2> QED BY <2>1 DEF DumpInv, DumpIsTheLoad
<1>5. CASE run
  <2>1. UNCHANGED <<file, stored, outcome>> /\ at' # "loading"
    BY <1>5 DEF run, transferVars
  <2>2. UNCHANGED output \/ output'.text \notin {"dump", "no data."}
    <3> DEFINE e == elf_load(mem, loadbuf).entry
    <3>1. \/ UNCHANGED output \/ output' = Says("run error!")
          \/ output' = Printed("starting", putxval(e, 0), <<>>)
      BY <1>5, Zenon DEF run
    <3> HIDE DEF e
    <3> QED BY <3>1, OtherTexts
  <2> QED BY <2>1, <2>2 DEF DumpInv, DumpIsTheLoad
<1>6. CASE Accepts \/ Rejects \/ Overruns
  <2>1. at = "loading" /\ UNCHANGED <<file, outcome, output>>
    BY <1>6 DEF Accepts, Rejects, Overruns, transferVars, T!Accept
  <2>2. output'.text \notin {"dump", "no data."}
    BY <2>1 DEF DumpInv
  <2>3. outcome' = NULL
    BY <1>0, <2>1 DEF TypeInv, SizeInv
  <2> QED BY <2>2, <2>3 DEF DumpInv, DumpIsTheLoad
<1>7. CASE received
  <2>1. output'.text \notin {"dump", "no data."}
    BY <1>7 DEF received, Says, Printed
  <2>2. UNCHANGED <<file, stored>> /\ (outcome' # -1 => stored = file)
    BY <1>7 DEF received, T!Succeed, T!Fail
  <2> QED BY <2>1, <2>2 DEF DumpInv, DumpIsTheLoad
<1> QED BY <1>1, <1>2, <1>3, <1>4, <1>5, <1>6, <1>7 DEF Next

(* dump prints the size of the last load, no digit lost, and just the      *)
(* cells it has accepted, for any files.  A transfer that ends early brings *)
(* the beginning of a file, and what an earlier one left in the buffer may *)
(* then pass for its table of segments: this is for a line on which a good *)
(* transfer is a whole one.                                                *)
THEOREM DumpShowsTheLoad ==
  ASSUME ~MayEndEarly
  PROVE  Spec => []DumpIsTheLoad
<1>1. Init => DumpInv
  BY DEF Init, DumpInv, DumpIsTheLoad, Says, Printed
<1>2. WholeInv /\ DumpInv /\ [Next]_vars => DumpInv'
  BY NextDump
<1>3. DumpInv => DumpIsTheLoad
  BY DEF DumpInv
<1> QED BY Wholes, <1>1, <1>2, <1>3, PTL DEF Spec
===============================================================================
