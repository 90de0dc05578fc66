------------------------------- MODULE MCXmodem -------------------------------
(* Values for the constants of Xmodem that a .cfg file cannot write. *)
EXTENDS Xmodem

(* A file with more blocks than a byte counts.  Every block begins with    *)
(* bytes that are control codes.                                           *)
LongFile == [n \in 1 .. 258 |-> <<IF n % 2 = 0 THEN 4 ELSE 24, n % 256>>]

ShortFile == << <<4, 65>>, <<24, 1>>, <<66, 21>> >>

(* What the line may spoil: data and check sum; any byte of a block;  *)
(* the complement of its number.                                           *)
DataPlaces == 4 .. 6
AllPlaces  == 1 .. 6
Complement == {3}

DataNoise  == {0, 4, 255}
AllNoise   == {0, 1, 4, 24, 255}
===============================================================================
