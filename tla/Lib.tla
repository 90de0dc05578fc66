---------------------------------- MODULE Lib ----------------------------------
(***************************************************************************)
(* The library of lib.c, the same file in the OS and in the boot loader.   *)
(* Of it, this is what the boot loader needs of memory, strings and        *)
(* numbers.  A memory is a function from addresses to cells; what is       *)
(* written outside its domain (ROM, or nothing) has no effect.  A string   *)
(* is a sequence of characters other than NUL, which is what one reads     *)
(* behind its end.                                                         *)
(***************************************************************************)
EXTENDS Integers, Sequences, FiniteSetsExt

CONSTANT XDIGITS   \* number of hexadecimal digits of an unsigned long

ASSUME LibAssumption == XDIGITS \in Nat \ {0}

NUL == 0
-------------------------------------------------------------------------------
(* A negative length is an empty loop. *)
memset(m, b, c, len) ==
  [a \in DOMAIN m |-> IF a \in b .. b + len - 1 THEN c ELSE m[a]]

(* The cells are copied one after the other, from the first to the last,   *)
(* so a destination inside the source reads what was just written.         *)
(* Elsewhere is what one reads outside the memory.                         *)
memcpy(m, dst, src, len, Elsewhere) ==
  LET copied[n \in Nat] ==
        IF n = 0
        THEN m
        ELSE LET s == src + n - 1
                 k == copied[n - 1]
             IN  [k EXCEPT ![dst + n - 1] = IF s \in DOMAIN k THEN k[s] ELSE Elsewhere]
  IN  IF len > 0 THEN copied[len] ELSE m
-------------------------------------------------------------------------------
(* The sign of the first difference of two strings, from their first up to *)
(* their n-th character.                                                   *)
CharAt(s, i) == IF i \in DOMAIN s THEN s[i] ELSE NUL

Compared(s1, s2, n) ==
  LET differ == {i \in 1 .. n : CharAt(s1, i) # CharAt(s2, i)}
  IN  IF differ = {}
      THEN 0
      ELSE IF CharAt(s1, Min(differ)) > CharAt(s2, Min(differ)) THEN 1 ELSE -1

memcmp(b1, b2, len) == Compared(b1, b2, len)

(* A faulty variant: the comparison ends with the second string. *)
strcmpPrefix(s1, s2) == Compared(s1, s2, Len(s2))

strcmp(s1, s2) == Compared(s1, s2, Max({Len(s1), Len(s2)}))
-------------------------------------------------------------------------------
(* The powers of 16, and the values of an unsigned long. *)
Power[n \in Nat] == IF n = 0 THEN 1 ELSE 16 * Power[n - 1]

Long == 0 .. Power[XDIGITS] - 1

(* What is left of value after each round of the loop.                     *)
Shifted(value) ==
  LET left[i \in Nat] == IF i = 0 THEN value % Power[XDIGITS] ELSE left[i - 1] \div 16
  IN  left

(* The digits that are printed, highest first: all that value has, at      *)
(* least column of them, and at least one.  The loop fills a buffer from   *)
(* its end, which has room for XDIGITS of them.                            *)
putxval(value, column) ==
  LET left   == Shifted(value)
      rounds == Min({n \in 1 .. Max({XDIGITS, column}) : n >= column /\ left[n] = 0})
  IN  [i \in 1 .. rounds |-> left[rounds - i] % 16]
===============================================================================
