---------------------------- MODULE MCWritePath -----------------------------
(* Small instances of WritePath for TLC: the currents are the minimum and  *)
(* one more, the coroutines are the program's own and one caller.          *)
EXTENDS WritePath
=============================================================================
