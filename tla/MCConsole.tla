------------------------------ MODULE MCConsole ------------------------------
(* Values for the constants of Console that a .cfg file cannot write. *)
EXTENDS Console

(* memory.c: blocks of 16, 32 and 64 bytes. *)
MCBlockNum == [k \in Pool |-> IF k = 64 THEN 4 ELSE 8]

Byte == {"c", "u", "e", "o", "x", "h", "\n"}
MCPayload == [cmd : {"use", "write", "line"}, str : Seq(Byte)]

(* Short texts: a character stands for a word. *)
ShortPrompt  == <<"c">>
ShortUnknown == <<"u", "\n">>
ShortEcho    == <<"e">>
ShortLines   == {<<>>, <<"x">>, <<"e", "x">>}
FastLines    == {<<>>, <<"e">>}

(* The texts of command.c, by their lengths. *)
FullPrompt  == [i \in 1 .. 9 |-> "c"]
FullUnknown == [i \in 1 .. 8 |-> "u"] \o <<"\n">>
FullEcho    == <<"e", "c", "h", "o">>
EchoLine(n)  == FullEcho \o [i \in 1 .. n |-> "x"]
OtherLine(n) == [i \in 1 .. n |-> "x"]

(* The longest lines whose answers fit the send buffer, and one more.      *)
FittingLines == {<<>>, EchoLine(12), OtherLine(23)}
LongEcho     == {EchoLine(13)}
===============================================================================
