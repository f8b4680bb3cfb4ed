------------------------------ MODULE MCLogger ------------------------------
(* A small instance of Logger for TLC: the two threads of this program that log. *)
EXTENDS Logger

CONSTANTS main, worker, free

TwoThreads == {main, worker}
LevelsUsed == [t \in TwoThreads |-> IF t = main THEN {"info", "error"} ELSE {"trace"}]
=============================================================================
